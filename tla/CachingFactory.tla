--------------------------- MODULE CachingFactory ---------------------------
(***************************************************************************)
(* CachingFactory.saddWithoutRaceCondition: add a value to a set unless it *)
(* is there already, with WATCH, SISMEMBER and MULTI/EXEC, among the other *)
(* operations of the service on the same keys.                             *)
(*                                                                         *)
(*   idle -> watched -> checked -> added                                   *)
(*                 \-> refused \-> cleaning -> failed                      *)
(*                                                                         *)
(* Redis watches for a connection, not for a call: every modification of a *)
(* watched key makes the connections that watch it dirty, an EXEC on a     *)
(* dirty connection does nothing, and EXEC and UNWATCH end all the watches *)
(* of their connection, also those that other calls have set.  The calls   *)
(* of one process of the backend share one connection, its REDIS_CLIENT.   *)
(***************************************************************************)
EXTENDS Naturals, Sequences, FiniteSets

CONSTANTS
  Call,        \* calls of saddWithoutRaceCondition
  PayloadOf,   \* what each call is given
  Conn,        \* processes of the backend, each with its connection
  ConnOf,      \* the process in which each call runs
  Absent       \* a part of a payload that is undefined

CacheKeyPrefix == {"user", "leaderboard"}

CacheKeyModule == {"user", "leaderboard", "achievement"}

(* A uniqueKey is the sequence of its parts between colons.                *)
ASSUME CacheAssumption ==
  /\ ConnOf \in [Call -> Conn]
  /\ \A c \in Call :
       /\ {"prefix", "module", "uniqueKey", "suffix", "value"} \subseteq DOMAIN PayloadOf[c]
       /\ PayloadOf[c].prefix \in CacheKeyPrefix \cup {Absent}
       /\ PayloadOf[c].module \in CacheKeyModule \cup {Absent}
       /\ PayloadOf[c].uniqueKey \in Seq(STRING)

Part(x) == IF x = Absent THEN <<>> ELSE <<x>>

(* Parts joined by colons, of which an absent one leaves no trace.         *)
BuildCacheKey(p) == Part(p.prefix) \o Part(p.module) \o p.uniqueKey \o Part(p.suffix)

KeyOf(c) == BuildCacheKey(PayloadOf[c])

ValueOf(c) == PayloadOf[c].value

Key == {KeyOf(c) : c \in Call}

VARIABLES
  call,        \* where each call is
  added,       \* calls whose value was added to its set and is still there
  strings,     \* keys that hold a string
  zsets,       \* keys that hold a sorted set
  watching,    \* the keys each connection watches
  dirty,       \* connections with a watched key that was modified
  lost         \* calls whose watch somebody else has ended, for properties

stored == <<added, strings, zsets>>

watches == <<watching, dirty, lost>>

cacheVars == <<call, stored, watches>>

CacheInit ==
  /\ call = [c \in Call |-> "idle"]
  /\ added = {}
  /\ strings = {}
  /\ zsets = {}
  /\ watching = [n \in Conn |-> {}]
  /\ dirty = {}
  /\ lost = {}

CallGoto(c, from, to) ==
  /\ call[c] = from
  /\ call' = [call EXCEPT ![c] = to]

(* Calls that put the same element into the same set.                      *)
Same(c, d) == KeyOf(c) = KeyOf(d) /\ ValueOf(c) = ValueOf(d)

Member(c) == \E d \in added : Same(c, d)

HoldsSet(k) == \E c \in added : KeyOf(c) = k

WrongType(k) == k \in strings \cup zsets

-----------------------------------------------------------------------------
(* Redis *)

Watchers(k) == {n \in Conn : k \in watching[n]}

Touch(k) == dirty' = dirty \cup Watchers(k) /\ UNCHANGED <<watching, lost>>

(* Calls that rely on the watches of connection n.                         *)
Relying(n) == {c \in Call : ConnOf[c] = n /\ call[c] \in {"watched", "checked"}}

(* Call c sends EXEC or UNWATCH.                                           *)
EndWatches(c, touched) ==
  /\ watching' = [watching EXCEPT ![ConnOf[c]] = {}]
  /\ dirty' = (dirty \cup touched) \ {ConnOf[c]}
  /\ lost' = lost \cup (Relying(ConnOf[c]) \ {c})

(* ioredis reconnects and goes on; Redis has forgotten the watches.        *)
Drop(n) ==
  /\ watching' = [watching EXCEPT ![n] = {}]
  /\ dirty' = dirty \ {n}
  /\ lost' = lost \cup Relying(n)
  /\ UNCHANGED <<call, stored>>

-----------------------------------------------------------------------------
(* saddWithoutRaceCondition *)

(* Variant: no WATCH.                                                      *)
WatchNothing(c) ==
  /\ CallGoto(c, "idle", "watched")
  /\ UNCHANGED <<stored, watches>>

Watch(c) ==
  /\ CallGoto(c, "idle", "watched")
  /\ watching' = [watching EXCEPT ![ConnOf[c]] = @ \cup {KeyOf(c)}]
  /\ UNCHANGED <<stored, dirty, lost>>

(* SISMEMBER, which rejects when the key holds no set.                     *)
Check(c) ==
  /\ CallGoto(c, "watched", IF WrongType(KeyOf(c)) THEN "cleaning"
                            ELSE IF Member(c) THEN "refused"
                            ELSE "checked")
  /\ UNCHANGED <<stored, watches>>

(* "already exists": one UNWATCH here, one more in the catch block.        *)
Refuse(c) ==
  /\ CallGoto(c, "refused", "cleaning")
  /\ EndWatches(c, {})
  /\ UNCHANGED stored

(* SADD on another type of key is an error among the results of EXEC,      *)
(* which nobody looks at.                                                  *)
Sadd(c) ==
  /\ added' = IF WrongType(KeyOf(c)) THEN added ELSE added \cup {c}
  /\ EndWatches(c, IF WrongType(KeyOf(c)) \/ Member(c) THEN {} ELSE Watchers(KeyOf(c)))
  /\ UNCHANGED <<strings, zsets>>

Exec(c) ==
  /\ ConnOf[c] \notin dirty
  /\ CallGoto(c, "checked", "added")
  /\ Sadd(c)

(* Variant: the null result of EXEC is not looked at.                      *)
AbortUnnoticed(c) ==
  /\ ConnOf[c] \in dirty
  /\ CallGoto(c, "checked", "added")
  /\ EndWatches(c, {})
  /\ UNCHANGED stored

(* EXEC answers null.                                                      *)
ExecAborted(c) ==
  /\ ConnOf[c] \in dirty
  /\ CallGoto(c, "checked", "cleaning")
  /\ EndWatches(c, {})
  /\ UNCHANGED stored

(* The catch block.                                                        *)
Unwatch(c) ==
  /\ CallGoto(c, "cleaning", "failed")
  /\ EndWatches(c, {})
  /\ UNCHANGED stored

(* A command rejects, as when the connection stayed broken for too long;   *)
(* when it is the UNWATCH of the catch block, that error is thrown.        *)
Reject(c) ==
  /\ \/ /\ call[c] \in {"idle", "watched", "refused", "checked"}
        /\ call' = [call EXCEPT ![c] = "cleaning"]
     \/ CallGoto(c, "cleaning", "failed")
  /\ UNCHANGED <<stored, watches>>

(* EXEC took effect but its answer was lost.                               *)
ExecUnanswered(c) ==
  /\ ConnOf[c] \notin dirty
  /\ CallGoto(c, "checked", "cleaning")
  /\ Sadd(c)

-----------------------------------------------------------------------------
(* The other operations, one command each.                                 *)

(* set, setGlobal: SET and SETEX replace whatever there is.                *)
Set(k) ==
  /\ strings' = strings \cup {k}
  /\ zsets' = zsets \ {k}
  /\ added' = {c \in added : KeyOf(c) # k}
  /\ Touch(k)
  /\ UNCHANGED call

(* getSet: GETSET, for strings only.                                       *)
GetSet(k) ==
  /\ k \notin zsets
  /\ ~HoldsSet(k)
  /\ strings' = strings \cup {k}
  /\ Touch(k)
  /\ UNCHANGED <<call, added, zsets>>

(* zadd, for sorted sets only.                                             *)
Zadd(k) ==
  /\ k \notin strings
  /\ ~HoldsSet(k)
  /\ zsets' = zsets \cup {k}
  /\ Touch(k)
  /\ UNCHANGED <<call, added, strings>>

(* zrem, which may take the last element and with it the key.              *)
Zrem(k) ==
  /\ k \in zsets
  /\ zsets' \in {zsets, zsets \ {k}}
  /\ Touch(k)
  /\ UNCHANGED <<call, added, strings>>

(* srem of an element that is there; of any other it throws.               *)
Srem(c) ==
  /\ Member(c)
  /\ added' = {d \in added : ~Same(c, d)}
  /\ Touch(KeyOf(c))
  /\ UNCHANGED <<call, strings, zsets>>

(* del and delRedisKey; also the end of a ttl.                             *)
Del(k) ==
  /\ WrongType(k) \/ HoldsSet(k)
  /\ strings' = strings \ {k}
  /\ zsets' = zsets \ {k}
  /\ added' = {c \in added : KeyOf(c) # k}
  /\ Touch(k)
  /\ UNCHANGED call

(* reset: FLUSHDB.                                                         *)
Reset ==
  /\ strings' = {}
  /\ zsets' = {}
  /\ added' = {}
  /\ dirty' = dirty \cup UNION {Watchers(k) : k \in {j \in Key : WrongType(j) \/ HoldsSet(j)}}
  /\ UNCHANGED <<call, watching, lost>>

-----------------------------------------------------------------------------

SaddWithoutRaceCondition(c) ==
  \/ Watch(c)
  \/ Check(c)
  \/ Refuse(c)
  \/ Exec(c)
  \/ ExecAborted(c)
  \/ Unwatch(c)
  \/ Reject(c)
  \/ ExecUnanswered(c)

OtherOperation(k) ==
  \/ Set(k)
  \/ GetSet(k)
  \/ Zadd(k)
  \/ Zrem(k)
  \/ Del(k)

CacheNext ==
  \/ \E c \in Call : SaddWithoutRaceCondition(c) \/ Srem(c)
  \/ \E k \in Key : OtherOperation(k)
  \/ Reset
  \/ \E n \in Conn : Drop(n)

CacheSpec == CacheInit /\ [][CacheNext]_cacheVars

-----------------------------------------------------------------------------
(* Properties *)

(* Every variable has its type, and a key one type of value.               *)
CacheTypeOK ==
  /\ call \in [Call -> {"idle", "watched", "refused", "checked", "cleaning", "added", "failed"}]
  /\ added \subseteq Call
  /\ strings \subseteq Key
  /\ zsets \subseteq Key
  /\ strings \cap zsets = {}
  /\ \A c \in added : ~WrongType(KeyOf(c))
  /\ watching \in [Conn -> SUBSET Key]
  /\ dirty \subseteq Conn
  /\ lost \subseteq Call

(* Between WATCH and EXEC, whatever other calls do on this connection and  *)
(* on others, unless one of them ends the watch or the connection breaks:  *)
(* what a call found in the set is still so, or its EXEC will do nothing.  *)
WatchGuards ==
  \A c \in Call \ lost :
    /\ call[c] \in {"watched", "checked"} =>
         ConnOf[c] \in dirty \/ KeyOf(c) \in watching[ConnOf[c]]
    /\ call[c] = "checked" =>
         ConnOf[c] \in dirty \/ (~Member(c) /\ ~WrongType(KeyOf(c)))

(* Two calls are told that they added an element which was there all the   *)
(* time since the first only if an EXEC or UNWATCH of another call of the  *)
(* same process, or a reconnection, came between WATCH and EXEC of one.    *)
DoubleAddHasCause ==
  \A c, d \in added :
    c # d /\ Same(c, d) /\ call[c] = "added" /\ call[d] = "added" =>
      c \in lost \/ d \in lost

(* A call that is told that its value was added finds it in the set, or    *)
(* somebody else has ended its watch.                                      *)
AddTakesEffect ==
  [][\A c \in Call :
       call[c] # "added" /\ call'[c] = "added" => c \in added' \/ c \in lost]_cacheVars

(* Of two calls that add the same element, one is told "already exists" or *)
(* "Transaction failed due to race condition.", as long as nobody removes  *)
(* the element (caching_factory.service.ts, the method's name and its two  *)
(* errors).                                                                *)
NoDoubleAdd ==
  \A c, d \in added :
    c # d /\ Same(c, d) => ~(call[c] = "added" /\ call[d] = "added")

=============================================================================
