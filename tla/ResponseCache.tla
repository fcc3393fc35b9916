--------------------------- MODULE ResponseCache ---------------------------
(***************************************************************************)
(* ResponseCache, src/src/fetch/cache.rs: a HashMap from URL to page with  *)
(* an expiry time, a capacity, and no background task.  Its owner holds a  *)
(* mutex around every operation, so each is one action.                    *)
(*                                                                         *)
(* An entry keeps the time it has left instead of `expires_at`; a page     *)
(* has expired when nothing is left (expires_at > now fails).  Time passes *)
(* in Tick, one unit for all entries.                                      *)
(***************************************************************************)
EXTENDS Integers, FiniteSets

CONSTANTS
  Urls,     \* the keys
  Pages,    \* what a page is to the cache's users
  MaxSize,  \* max_size
  Ttl       \* ttl, in ticks

\* What the types of cache.rs say of the constants.
CacheAssumption == MaxSize \in Nat /\ Ttl \in Nat

VARIABLE entries  \* the HashMap, a function from the stored URLs

Entry == [page: Pages, left: 0..Ttl]

Expired(u) == entries[u].left = 0

\* get returns the entry of u.
Hit(u) == u \in DOMAIN entries /\ ~ Expired(u)

Keep(S) == [u \in S |-> entries[u]]

Init == entries = [u \in {} |-> {}]

\* Mutant: the entry is taken out to be tested and not put back.
GetTakes(u) ==
  entries' = Keep(DOMAIN entries \ {u})

\* get: an expired entry is removed by the lookup that finds it.
Get(u) ==
  entries' = IF u \in DOMAIN entries /\ Expired(u)
               THEN Keep(DOMAIN entries \ {u}) ELSE entries

\* Mutant: the capacity is compared after the insertion it should prevent.
RoomOffByOne(u) ==
  u \in DOMAIN entries \/ Cardinality(DOMAIN entries) <= MaxSize

\* put may insert: entries count whether or not they have expired.
RoomFor(u) ==
  u \in DOMAIN entries \/ Cardinality(DOMAIN entries) < MaxSize

\* put: ignored when full, unless it overwrites an entry of the same URL.
Put(u, page) ==
  IF RoomFor(u)
    THEN entries' = [v \in DOMAIN entries \cup {u} |->
                      IF v = u THEN [page |-> page, left |-> Ttl] ELSE entries[v]]
    ELSE UNCHANGED entries

Clear == entries' = Keep({})

EvictExpired == entries' = Keep({u \in DOMAIN entries : ~ Expired(u)})

\* One unit of time passes.
Tick ==
  entries' = [u \in DOMAIN entries |->
               [page |-> entries[u].page,
                left |-> IF Expired(u) THEN 0 ELSE entries[u].left - 1]]

Next ==
  \/ \E u \in Urls : Get(u)
  \/ \E u \in Urls, page \in Pages : Put(u, page)
  \/ Clear
  \/ EvictExpired
  \/ Tick

Spec == Init /\ [][Next]_entries

-----------------------------------------------------------------------------
\* The map goes from URLs to entries.
TypeOK ==
  /\ DOMAIN entries \subseteq Urls
  /\ entries \in [DOMAIN entries -> Entry]

\* The cache never holds more than max_size pages, expired ones included:
\* put tests the size before it inserts and overwrites in place, so no order
\* of puts, lookups and evictions makes the map outgrow its capacity.
SizeBounded == Cardinality(DOMAIN entries) <= MaxSize

IInv == TypeOK /\ SizeBounded

\* No page that has not expired is dropped, and none loses time.
KeepsLive ==
  \A u \in Urls :
    Hit(u) => u \in DOMAIN entries' /\ entries'[u].left >= entries[u].left

\* Only clear drops a page that has not expired: lookups and evictions of
\* other pages, and puts to a full cache, leave it there, and a put never
\* shortens its life.
LiveEntriesStay == [][Clear \/ Tick \/ KeepsLive]_entries
=============================================================================
