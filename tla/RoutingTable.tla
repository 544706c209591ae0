---------------------------- MODULE RoutingTable ----------------------------
(***************************************************************************)
(* The Python routing table of one DHT node: buckets of contacts that      *)
(* split around the node's own identifier, and the eviction of the oldest  *)
(* contact of a full bucket, which waits for a ping while other messages   *)
(* are handled.  Coroutines run one at a time and change hands only at the *)
(* ping.                                                                   *)
(***************************************************************************)
EXTENDS Naturals, Sequences, SequencesExt

CONSTANTS Bits,       \* identifiers have this many bits, 256 in the code
          K,          \* K_PARAM
          local_id,
          Contact,    \* the contacts met: an id and an address, port included
          Verified,   \* those whose key and silicon pass _verify_binding
          NoPing

ASSUME TableAssumption ==
  /\ Bits \in Nat \ {0} /\ 2^Bits \in Nat /\ K \in Nat \ {0}
  /\ \A c \in Contact : c.id \in 0 .. 2^Bits - 1
  /\ local_id \in 0 .. 2^Bits - 1
  /\ Verified \subseteq Contact
  /\ NoPing \notin [oldest : Contact, contact : Contact]

VARIABLES buckets,          \* in the order of their ranges
          revoked_nodes,
          evict_in_progress,
          ping,             \* the ping an update waits for, or NoPing
          racing            \* the contacts whose update waited while they were revoked

tableVars == <<buckets, revoked_nodes, evict_in_progress, ping, racing>>

KBucket(min, max, contacts) == [range_min |-> min, range_max |-> max, contacts |-> contacts]

TableInit ==
  /\ buckets = <<KBucket(0, 2^Bits, <<>>)>>
  /\ revoked_nodes = {}
  /\ evict_in_progress = FALSE
  /\ ping = NoPing
  /\ racing = {}

InRange(id, b) == b.range_min <= id /\ id <= b.range_max

(* KBucket.update of a contact that is in the bucket or finds it not full. *)
HasRoom(b, c) == Contains(b.contacts, c) \/ Len(b.contacts) < K

Touched(contacts, c) == Append(RemoveFirst(contacts, c), c)

(* The contacts of a list that are in a set, in the list's order.          *)
Only(contacts, S) ==
  LET only[i \in 0 .. Len(contacts)] ==
        IF i = 0 THEN <<>>
        ELSE IF contacts[i] \in S THEN Append(only[i - 1], contacts[i])
        ELSE only[i - 1]
  IN  only[Len(contacts)]

(* The buckets after the split of bucket i in two.                         *)
split_bucket(bs, i) ==
  LET mid == (bs[i].range_min + bs[i].range_max) \div 2
      lower == KBucket(bs[i].range_min, mid, Only(bs[i].contacts, {c \in Contact : c.id <= mid}))
      upper == KBucket(mid + 1, bs[i].range_max, Only(bs[i].contacts, {c \in Contact : c.id > mid}))
  IN  SubSeq(bs, 1, i - 1) \o <<lower, upper>> \o SubSeq(bs, i + 1, Len(bs))

Target(bs, c) == CHOOSE i \in 1 .. Len(bs) : /\ InRange(c.id, bs[i])
                                             /\ \A j \in 1 .. i - 1 : ~InRange(c.id, bs[j])

(* The buckets after the splits that make room for a contact: the bucket   *)
(* of the node's own identifier splits until it has room or is not its.    *)
(* A split halves the range, and no contact has the node's identifier, so  *)
(* that Bits + 1 splits are enough.                                        *)
MakeRoom(bs, c) ==
  LET room[n \in 0 .. Bits + 1] ==
        IF n = 0 THEN bs
        ELSE LET now == room[n - 1]
                 i == Target(now, c)
             IN  IF HasRoom(now[i], c) \/ ~InRange(local_id, now[i]) THEN now ELSE split_bucket(now, i)
  IN  room[Bits + 1]

_verify_binding(c) == c.id \notin revoked_nodes /\ c \in Verified

(* update() up to its end or to its ping.                                  *)
update(c) ==
  /\ c.id # local_id
  /\ _verify_binding(c)
  /\ LET bs == MakeRoom(buckets, c)
         i == Target(bs, c)
     IN  \/ /\ HasRoom(bs[i], c)
            /\ buckets' = [bs EXCEPT ![i].contacts = Touched(@, c)]
            /\ UNCHANGED <<evict_in_progress, ping>>
         \/ /\ ~HasRoom(bs[i], c)
            /\ buckets' = bs
            /\ ~evict_in_progress
            /\ evict_in_progress' = TRUE
            /\ ping' = [oldest |-> Head(bs[i].contacts), contact |-> c]
         \/ /\ ~HasRoom(bs[i], c)
            /\ buckets' = bs
            /\ evict_in_progress
            /\ UNCHANGED <<evict_in_progress, ping>>
  /\ UNCHANGED <<revoked_nodes, racing>>

(* Mutant: a revoked node keeps its place in the table.                    *)
RevokeOnly(id) ==
  /\ revoked_nodes' = revoked_nodes \cup {id}
  /\ racing' = racing \cup {c \in Contact : c.id = id /\ ping # NoPing /\ ping.contact = c}
  /\ UNCHANGED <<buckets, evict_in_progress, ping>>

revoke_node(id) ==
  /\ revoked_nodes' = revoked_nodes \cup {id}
  /\ buckets' = [i \in 1 .. Len(buckets) |->
                  [buckets[i] EXCEPT !.contacts = Only(@, {c \in Contact : c.id # id})]]
  /\ racing' = racing \cup {c \in Contact : c.id = id /\ ping # NoPing /\ ping.contact = c}
  /\ UNCHANGED <<evict_in_progress, ping>>

(* The bucket the waiting update holds: it is not the node's own and is    *)
(* never split, so it still stands in the table.                           *)
Waiting == Target(buckets, ping.contact)

PingEnds ==
  /\ ping # NoPing
  /\ ping' = NoPing
  /\ evict_in_progress' = FALSE
  /\ UNCHANGED <<revoked_nodes, racing>>

PingAnswered ==
  /\ PingEnds
  /\ Contains(buckets[Waiting].contacts, ping.oldest)
  /\ buckets' = [buckets EXCEPT ![Waiting].contacts = Touched(@, ping.oldest)]

(* Mutant: the new contact is appended without looking for it.             *)
TimeOutAppending ==
  /\ PingEnds
  /\ Contains(buckets[Waiting].contacts, ping.oldest)
  /\ buckets' = [buckets EXCEPT ![Waiting].contacts = Append(RemoveFirst(@, ping.oldest), ping.contact)]

PingTimesOut ==
  /\ PingEnds
  /\ Contains(buckets[Waiting].contacts, ping.oldest)
  /\ LET left == RemoveFirst(buckets[Waiting].contacts, ping.oldest)
         b == [buckets[Waiting] EXCEPT !.contacts = left]
     IN  buckets' = [buckets EXCEPT ![Waiting].contacts =
                       IF HasRoom(b, ping.contact) THEN Touched(left, ping.contact) ELSE left]

(* Mutant: the error leaves the flag behind.                               *)
OldestGoneLocked ==
  /\ ping # NoPing
  /\ ~Contains(buckets[Waiting].contacts, ping.oldest)
  /\ ping' = NoPing
  /\ UNCHANGED <<buckets, evict_in_progress, revoked_nodes, racing>>

(* The oldest contact was revoked during the ping: its removal raises, and *)
(* the flag is reset all the same.                                         *)
OldestGone ==
  /\ PingEnds
  /\ ~Contains(buckets[Waiting].contacts, ping.oldest)
  /\ UNCHANGED buckets

TableNext ==
  \/ \E c \in Contact : update(c)
  \/ \E c \in Contact : revoke_node(c.id)
  \/ PingAnswered \/ PingTimesOut \/ OldestGone

TableSpec == TableInit /\ [][TableNext]_tableVars

-----------------------------------------------------------------------------
Held == UNION {ToSet(buckets[i].contacts) : i \in 1 .. Len(buckets)}

(* Whatever happens while an eviction waits, the buckets' ranges follow    *)
(* each other without a gap, and each bucket holds at most K contacts, all *)
(* different and within its range, and never the node itself.              *)
BucketsSound ==
  /\ buckets[1].range_min = 0 /\ buckets[Len(buckets)].range_max = 2^Bits
  /\ \A i \in 2 .. Len(buckets) : buckets[i].range_min = buckets[i - 1].range_max + 1
  /\ \A i \in 1 .. Len(buckets) :
       LET b == buckets[i]
       IN  /\ Len(b.contacts) <= K /\ IsInjective(b.contacts)
           /\ \A c \in ToSet(b.contacts) : InRange(c.id, b) /\ c.id # local_id

(* A revoked node is in the table only if its own update was waiting for a *)
(* ping when the revocation came: the update that resumes does not look at *)
(* the list of revoked nodes again.                                        *)
RevokedOnlyByRace == \A c \in Held : c.id \in revoked_nodes => c \in racing

(* Evictions go on: the flag that lets only one eviction wait is released  *)
(* in the end, also when the contact that was pinged is gone by then.      *)
EvictionEnds == evict_in_progress ~> ~evict_in_progress
=============================================================================
