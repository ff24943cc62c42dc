------------------------- MODULE CachingFactoryProofs -------------------------
(***************************************************************************)
(* Proofs about CachingFactory, for any number of calls, keys, values and  *)
(* processes: what a call can rely on until somebody else ends its watch,  *)
(* and that an element is added twice for no other reason.                 *)
(***************************************************************************)
EXTENDS CachingFactory, TLAPS

(* The inductive invariant.                                                *)
CacheInv == CacheTypeOK /\ WatchGuards /\ DoubleAddHasCause

Calling(d) == SaddWithoutRaceCondition(d)

-----------------------------------------------------------------------------
(* Facts about the definitions *)

LEMMA ConnOfCall == \A c \in Call : ConnOf[c] \in Conn
  BY CacheAssumption

LEMMA KeyOfCall == \A c \in Call : KeyOf(c) \in Key
  BY DEF Key

(* Same is an equivalence, between calls with one key.                     *)
LEMMA SameFacts ==
  ASSUME NEW c, NEW d, NEW e, Same(c, d)
  PROVE  /\ KeyOf(c) = KeyOf(d)
         /\ Same(d, c)
         /\ Same(d, e) => Same(c, e)
  BY DEF Same

(* A step of CacheNext, by what it does.                                   *)
LEMMA Steps ==
  ASSUME [CacheNext]_cacheVars
  PROVE  \/ \E d \in Call : Calling(d)
         \/ \E d \in Call : Srem(d)
         \/ \E k \in Key : OtherOperation(k)
         \/ Reset
         \/ \E n \in Conn : Drop(n)
         \/ UNCHANGED cacheVars
  BY DEF CacheNext, Calling

-----------------------------------------------------------------------------
(* Types *)

LEMMA InitInv == CacheInit => CacheInv
  BY ConnOfCall DEF CacheInit, CacheInv, CacheTypeOK, WatchGuards, DoubleAddHasCause

LEMMA SaddType ==
  ASSUME CacheTypeOK, NEW c \in Call, Sadd(c)
  PROVE  /\ added' \subseteq Call
         /\ strings' = strings
         /\ zsets' = zsets
         /\ \A d \in added' : ~WrongType(KeyOf(d))'
         /\ watching' \in [Conn -> SUBSET Key]
         /\ dirty' \subseteq Conn
         /\ lost' \subseteq Call
  BY ConnOfCall DEF Sadd, EndWatches, Relying, Watchers, CacheTypeOK, WrongType

LEMMA CallingType ==
  ASSUME CacheTypeOK, NEW c \in Call, Calling(c)
  PROVE  CacheTypeOK'
  <1>1. CASE Watch(c)
    BY <1>1, ConnOfCall, KeyOfCall
    DEF Watch, CallGoto, stored, CacheTypeOK, WrongType
  <1>2. CASE Check(c)
    BY <1>2 DEF Check, CallGoto, stored, watches, CacheTypeOK, WrongType
  <1>3. CASE Refuse(c) \/ ExecAborted(c) \/ Unwatch(c)
    BY <1>3, ConnOfCall
    DEF Refuse, ExecAborted, Unwatch, CallGoto, EndWatches, Relying, stored, CacheTypeOK, WrongType
  <1>4. CASE Exec(c) \/ ExecUnanswered(c)
    <2>1. Sadd(c)
      BY <1>4 DEF Exec, ExecUnanswered
    <2>2. call' \in [Call -> {"idle", "watched", "refused", "checked", "cleaning", "added", "failed"}]
      BY <1>4 DEF Exec, ExecUnanswered, CallGoto, CacheTypeOK
    <2> QED
      BY <2>1, <2>2, SaddType DEF CacheTypeOK
  <1>5. CASE Reject(c)
    BY <1>5 DEF Reject, CallGoto, stored, watches, CacheTypeOK, WrongType
  <1> QED
    BY <1>1, <1>2, <1>3, <1>4, <1>5 DEF Calling, SaddWithoutRaceCondition

LEMMA OtherType ==
  ASSUME CacheTypeOK, NEW k \in Key, OtherOperation(k)
  PROVE  CacheTypeOK'
  <1>1. CASE Set(k) \/ Del(k)
    BY <1>1 DEF Set, Del, Touch, Watchers, CacheTypeOK, WrongType
  <1>2. CASE GetSet(k)
    BY <1>2 DEF GetSet, HoldsSet, Touch, Watchers, CacheTypeOK, WrongType
  <1>3. CASE Zadd(k)
    BY <1>3 DEF Zadd, HoldsSet, Touch, Watchers, CacheTypeOK, WrongType
  <1>4. CASE Zrem(k)
    BY <1>4 DEF Zrem, Touch, Watchers, CacheTypeOK, WrongType
  <1> QED
    BY <1>1, <1>2, <1>3, <1>4 DEF OtherOperation

LEMMA TypeStep == CacheTypeOK /\ [CacheNext]_cacheVars => CacheTypeOK'
  <1> SUFFICES ASSUME CacheTypeOK, [CacheNext]_cacheVars
               PROVE  CacheTypeOK'
    OBVIOUS
  <1>1. ASSUME NEW d \in Call, Srem(d) PROVE CacheTypeOK'
    BY <1>1 DEF Srem, Touch, Watchers, CacheTypeOK, WrongType
  <1>2. CASE Reset
    BY <1>2 DEF Reset, Watchers, CacheTypeOK, WrongType
  <1>3. ASSUME NEW n \in Conn, Drop(n) PROVE CacheTypeOK'
    BY <1>3 DEF Drop, Relying, stored, CacheTypeOK, WrongType
  <1>4. CASE UNCHANGED cacheVars
    BY <1>4 DEF cacheVars, stored, watches, CacheTypeOK, WrongType
  <1> QED
    BY Steps, CallingType, OtherType, <1>1, <1>2, <1>3, <1>4

-----------------------------------------------------------------------------
(* What another step leaves a call that keeps its watch *)

(* A watch that was ended stays so.                                        *)
LEMMA LostBefore ==
  ASSUME [CacheNext]_cacheVars
  PROVE  lost \subseteq lost'
  BY DEF CacheNext, SaddWithoutRaceCondition, OtherOperation, Watch, Check, Refuse, Exec,
         ExecAborted, Unwatch, Reject, ExecUnanswered, Sadd, EndWatches, Srem, Set, GetSet,
         Zadd, Zrem, Del, Reset, Drop, Touch, cacheVars, watches

(* A step of another call on c's connection that ends the watches of c's   *)
(* connection makes c one that lost its own, when c relies on it.          *)
LEMMA EndWatchesLoses ==
  ASSUME NEW c \in Call, NEW d \in Call \ {c}, NEW t, EndWatches(d, t),
         call[c] \in {"watched", "checked"}, c \notin lost'
  PROVE  ConnOf[d] # ConnOf[c]
  BY DEF EndWatches, Relying

(* The guard of one call: what it found holds, or its EXEC will do nothing.*)
Guarded(c) ==
  /\ call[c] \in {"watched", "checked"} =>
       ConnOf[c] \in dirty \/ KeyOf(c) \in watching[ConnOf[c]]
  /\ call[c] = "checked" =>
       ConnOf[c] \in dirty \/ (~Member(c) /\ ~WrongType(KeyOf(c)))

LEMMA GuardsAreGuarded == WatchGuards <=> \A c \in Call \ lost : Guarded(c)
  BY DEF WatchGuards, Guarded

(* The call's own step.                                                    *)
LEMMA GuardedByItself ==
  ASSUME CacheTypeOK, NEW c \in Call, Calling(c), Guarded(c)
  PROVE  Guarded(c)'
  <1>1. CASE Watch(c)
    BY <1>1, ConnOfCall DEF Watch, CallGoto, Guarded, CacheTypeOK
  <1>2. CASE Check(c)
    <2>1. WrongType(KeyOf(c))' = WrongType(KeyOf(c)) /\ Member(c)' = Member(c)
      BY <1>2 DEF Check, stored, Member, WrongType
    <2> QED
      BY <1>2, <2>1 DEF Check, CallGoto, watches, Guarded, CacheTypeOK
  <1>3. CASE ~(Watch(c) \/ Check(c))
    <2>1. call'[c] \notin {"watched", "checked"}
      BY <1>3 DEF Calling, SaddWithoutRaceCondition, Refuse, Exec, ExecAborted, Unwatch, Reject,
                  ExecUnanswered, CallGoto, CacheTypeOK
    <2> QED
      BY <2>1 DEF Guarded
  <1> QED
    BY <1>1, <1>2, <1>3

(* A step of somebody else: c stays where it is, its connection keeps its  *)
(* watches, is not cleaned, and becomes dirty when the key gets c's        *)
(* element or another type.  No call but one with a watch needs that.      *)
Harmless(c) ==
  /\ call'[c] = call[c]
  /\ watching[ConnOf[c]] \subseteq watching'[ConnOf[c]]
  /\ ConnOf[c] \in dirty => ConnOf[c] \in dirty'
  /\ \/ KeyOf(c) \in watching[ConnOf[c]] => ConnOf[c] \in dirty'
     \/ /\ Member(c)' => Member(c)
        /\ WrongType(KeyOf(c))' => WrongType(KeyOf(c))

LEMMA GuardedByOthers ==
  ASSUME CacheTypeOK, NEW c \in Call, Harmless(c), Guarded(c)
  PROVE  Guarded(c)'
  BY DEF Guarded, Harmless

(* Modifying a key, and leaving all others as they were.                   *)
LEMMA TouchHarmless ==
  ASSUME CacheTypeOK, NEW c \in Call, NEW k, Touch(k), call' = call,
         KeyOf(c) # k => /\ Member(c)' => Member(c)
                         /\ WrongType(KeyOf(c))' => WrongType(KeyOf(c))
  PROVE  Harmless(c)
  BY ConnOfCall DEF Touch, Watchers, Harmless, CacheTypeOK

LEMMA OtherHarmless ==
  ASSUME CacheTypeOK, NEW c \in Call, NEW k \in Key, OtherOperation(k)
  PROVE  Harmless(c)
  <1>1. Touch(k) /\ call' = call
    BY DEF OtherOperation, Set, GetSet, Zadd, Zrem, Del
  <1>2. Member(c)' => Member(c)
    BY DEF OtherOperation, Set, GetSet, Zadd, Zrem, Del, Member
  <1>3. ASSUME KeyOf(c) # k PROVE WrongType(KeyOf(c))' => WrongType(KeyOf(c))
    BY <1>3 DEF OtherOperation, Set, GetSet, Zadd, Zrem, Del, WrongType
  <1> QED
    BY <1>1, <1>2, <1>3, TouchHarmless

(* SADD by a call on another connection.                                   *)
LEMMA SaddHarmless ==
  ASSUME CacheTypeOK, NEW c \in Call, NEW d \in Call, ConnOf[d] # ConnOf[c], Sadd(d)
  PROVE  /\ watching'[ConnOf[c]] = watching[ConnOf[c]]
         /\ ConnOf[c] \in dirty => ConnOf[c] \in dirty'
         /\ \/ KeyOf(c) \in watching[ConnOf[c]] => ConnOf[c] \in dirty'
            \/ /\ Member(c)' => Member(c)
               /\ WrongType(KeyOf(c))' => WrongType(KeyOf(c))
  <1>1. /\ watching'[ConnOf[c]] = watching[ConnOf[c]]
        /\ ConnOf[c] \in dirty => ConnOf[c] \in dirty'
    BY ConnOfCall DEF Sadd, EndWatches, CacheTypeOK
  <1>2. WrongType(KeyOf(c))' = WrongType(KeyOf(c))
    BY DEF Sadd, WrongType
  <1>3. CASE WrongType(KeyOf(d)) \/ ~Same(c, d)
    <2>1. Member(c)' => Member(c)
      BY <1>3 DEF Sadd, Member, Same
    <2> QED
      BY <1>1, <1>2, <2>1
  <1>4. CASE ~WrongType(KeyOf(d)) /\ Same(c, d) /\ Member(d)
    <2>1. Member(c)
      BY <1>4 DEF Member, Same
    <2> QED
      BY <1>1, <1>2, <2>1
  <1>5. CASE ~WrongType(KeyOf(d)) /\ Same(c, d) /\ ~Member(d)
    <2>1. KeyOf(c) = KeyOf(d)
      BY <1>5 DEF Same
    <2>2. dirty' = (dirty \cup Watchers(KeyOf(c))) \ {ConnOf[d]}
      BY <1>5, <2>1 DEF Sadd, EndWatches
    <2>3. KeyOf(c) \in watching[ConnOf[c]] => ConnOf[c] \in dirty'
      BY <2>2, ConnOfCall DEF Watchers
    <2> QED
      BY <1>1, <2>3
  <1> QED
    BY <1>3, <1>4, <1>5

(* A step of another call, unless it ends c's watch.                       *)
LEMMA CallingHarmless ==
  ASSUME CacheTypeOK, NEW c \in Call, NEW d \in Call \ {c}, Calling(d),
         call[c] \in {"watched", "checked"}, c \notin lost'
  PROVE  Harmless(c)
  <1>1. call'[c] = call[c]
    BY DEF Calling, SaddWithoutRaceCondition, Watch, Check, Refuse, Exec, ExecAborted, Unwatch,
           Reject, ExecUnanswered, CallGoto, CacheTypeOK
  <1>2. CASE Exec(d) \/ ExecUnanswered(d)
    <2>1. Sadd(d)
      BY <1>2 DEF Exec, ExecUnanswered
    <2>2. ConnOf[d] # ConnOf[c]
      BY <2>1, EndWatchesLoses DEF Sadd
    <2> QED
      BY <1>1, <2>1, <2>2, SaddHarmless DEF Harmless
  <1>3. ASSUME UNCHANGED stored PROVE Member(c)' = Member(c) /\ WrongType(KeyOf(c))' = WrongType(KeyOf(c))
    BY <1>3 DEF stored, Member, WrongType
  <1>4. CASE Refuse(d) \/ ExecAborted(d) \/ Unwatch(d)
    <2>1. EndWatches(d, {}) /\ UNCHANGED stored
      BY <1>4 DEF Refuse, ExecAborted, Unwatch
    <2>2. ConnOf[d] # ConnOf[c]
      BY <2>1, EndWatchesLoses
    <2>3. /\ watching'[ConnOf[c]] = watching[ConnOf[c]]
          /\ ConnOf[c] \in dirty => ConnOf[c] \in dirty'
      BY <2>1, <2>2, ConnOfCall DEF EndWatches, CacheTypeOK
    <2> QED
      BY <1>1, <1>3, <2>1, <2>3 DEF Harmless
  <1>5. CASE Watch(d)
    <2>1. watching[ConnOf[c]] \subseteq watching'[ConnOf[c]] /\ UNCHANGED <<stored, dirty>>
      BY <1>5, ConnOfCall DEF Watch, CacheTypeOK
    <2> QED
      BY <1>1, <1>3, <2>1 DEF Harmless
  <1>6. CASE Check(d) \/ Reject(d)
    BY <1>1, <1>3, <1>6 DEF Check, Reject, watches, Harmless
  <1> QED
    BY <1>2, <1>4, <1>5, <1>6 DEF Calling, SaddWithoutRaceCondition

LEMMA GuardStep == CacheInv /\ [CacheNext]_cacheVars => WatchGuards'
  <1> SUFFICES ASSUME CacheInv, [CacheNext]_cacheVars,
                      NEW c \in Call, c \notin lost'
               PROVE  Guarded(c)'
    BY DEF WatchGuards, Guarded
  <1>1. CacheTypeOK /\ c \notin lost /\ Guarded(c)
    BY LostBefore, GuardsAreGuarded DEF CacheInv
  <1>2. ASSUME NEW d \in Call, Calling(d) PROVE Guarded(c)'
    <2>1. CASE d = c
      BY <1>1, <1>2, <2>1, GuardedByItself
    <2>2. CASE d # c /\ call[c] \in {"watched", "checked"}
      BY <1>1, <1>2, <2>2, CallingHarmless, GuardedByOthers
    <2>3. CASE d # c /\ call[c] \notin {"watched", "checked"}
      <3>1. call'[c] = call[c]
        BY <1>1, <1>2, <2>3 DEF Calling, SaddWithoutRaceCondition, Watch, Check, Refuse, Exec,
                ExecAborted, Unwatch, Reject, ExecUnanswered, CallGoto, CacheTypeOK
      <3> QED
        BY <2>3, <3>1 DEF Guarded
    <2> QED
      BY <2>1, <2>2, <2>3
  <1>3. ASSUME NEW d \in Call, Srem(d) PROVE Guarded(c)'
    <2>1. Touch(KeyOf(d)) /\ call' = call
      BY <1>3 DEF Srem
    <2>2. /\ Member(c)' => Member(c)
          /\ WrongType(KeyOf(c))' => WrongType(KeyOf(c))
      BY <1>3 DEF Srem, Member, WrongType
    <2> QED
      BY <1>1, <2>1, <2>2, TouchHarmless, GuardedByOthers
  <1>4. ASSUME NEW k \in Key, OtherOperation(k) PROVE Guarded(c)'
    BY <1>1, <1>4, OtherHarmless, GuardedByOthers
  <1>5. CASE Reset
    <2>1. /\ Member(c)' => Member(c)
          /\ WrongType(KeyOf(c))' => WrongType(KeyOf(c))
      BY <1>5 DEF Reset, Member, WrongType
    <2>2. Harmless(c)
      BY <1>5, <2>1 DEF Reset, Harmless
    <2> QED
      BY <1>1, <2>2, GuardedByOthers
  <1>6. ASSUME NEW n \in Conn, Drop(n) PROVE Guarded(c)'
    <2>1. CASE call[c] \notin {"watched", "checked"}
      BY <1>6, <2>1 DEF Drop, Guarded
    <2>2. CASE call[c] \in {"watched", "checked"}
      <3>1. n # ConnOf[c]
        BY <1>6, <2>2 DEF Drop, Relying
      <3>2. Member(c)' = Member(c) /\ WrongType(KeyOf(c))' = WrongType(KeyOf(c))
        BY <1>6 DEF Drop, stored, Member, WrongType
      <3>3. Harmless(c)
        BY <1>1, <1>6, <3>1, <3>2, ConnOfCall DEF Drop, Harmless, CacheTypeOK
      <3> QED
        BY <1>1, <3>3, GuardedByOthers
    <2> QED
      BY <2>1, <2>2
  <1>7. CASE UNCHANGED cacheVars
    <2>1. Member(c)' = Member(c) /\ WrongType(KeyOf(c))' = WrongType(KeyOf(c))
      BY <1>7 DEF cacheVars, stored, Member, WrongType
    <2> QED
      BY <1>1, <1>7, <2>1 DEF cacheVars, watches, Guarded
  <1> QED
    BY <1>2, <1>3, <1>4, <1>5, <1>6, <1>7, Steps

-----------------------------------------------------------------------------
(* Additions *)

(* A call that kept its watch and is told that its value was added found   *)
(* no such element and no other type at that moment, and has added it.     *)
LEMMA AddingGuarded ==
  ASSUME CacheInv, NEW c \in Call, Calling(c), c \notin lost, call[c] # "added", call'[c] = "added"
  PROVE  ~Member(c) /\ c \in added'
  <1>1. Exec(c)
    BY DEF Calling, SaddWithoutRaceCondition, Watch, Check, Refuse, ExecAborted, Unwatch, Reject,
           ExecUnanswered, CallGoto, CacheInv, CacheTypeOK
  <1>2. ~Member(c) /\ ~WrongType(KeyOf(c))
    BY <1>1, GuardsAreGuarded DEF Exec, CallGoto, Guarded, CacheInv
  <1> QED
    BY <1>1, <1>2 DEF Exec, Sadd

(* A step that is not c's own leaves c where it is.                        *)
LEMMA OthersStay ==
  ASSUME CacheTypeOK, [CacheNext]_cacheVars, NEW c \in Call, call'[c] # call[c]
  PROVE  Calling(c)
  <1>1. ASSUME NEW d \in Call, Calling(d) PROVE Calling(c)
    BY <1>1 DEF Calling, SaddWithoutRaceCondition, Watch, Check, Refuse, Exec, ExecAborted,
                Unwatch, Reject, ExecUnanswered, CallGoto, CacheTypeOK
  <1>2. (\A d \in Call : ~Calling(d)) => call' = call
    BY DEF CacheNext, Calling, OtherOperation, Srem, Set, GetSet, Zadd, Zrem, Del, Reset, Drop,
           cacheVars
  <1> QED
    BY <1>1, <1>2

(* Only a call of its own adds c's value, and an addition never removes.   *)
LEMMA AddedBefore ==
  ASSUME [CacheNext]_cacheVars, NEW c \in added', c \notin added
  PROVE  Calling(c)
  BY DEF CacheNext, Calling, SaddWithoutRaceCondition, OtherOperation, Watch, Check, Refuse, Exec,
         ExecAborted, Unwatch, Reject, ExecUnanswered, Sadd, Srem, Set, GetSet, Zadd, Zrem, Del,
         Reset, Drop, cacheVars, stored

(* Of two additions, the later one is that of a call that lost its watch.  *)
LEMMA NewAdditionLost ==
  ASSUME CacheInv, [CacheNext]_cacheVars,
         NEW c \in added', NEW d \in added', c # d, Same(c, d),
         call'[c] = "added", call'[d] = "added", c \notin lost',
         call[c] # "added"
  PROVE  FALSE
  <1>1. c \in Call /\ d \in Call /\ CacheTypeOK
    BY TypeStep DEF CacheInv, CacheTypeOK
  <1>2. Calling(c) /\ c \notin lost
    BY <1>1, OthersStay, LostBefore
  <1>3. ~Member(c)
    BY <1>1, <1>2, AddingGuarded
  <1>4. d \notin added
    BY <1>3 DEF Member
  <1>5. Calling(d)
    BY <1>4, AddedBefore
  <1>6. call'[d] = call[d]
    BY <1>1, <1>2 DEF Calling, SaddWithoutRaceCondition, Watch, Check, Refuse, Exec, ExecAborted,
                      Unwatch, Reject, ExecUnanswered, CallGoto, CacheTypeOK
  <1> QED
    BY <1>1, <1>5, <1>6 DEF Calling, SaddWithoutRaceCondition, Watch, Check, Refuse, Exec,
                      ExecAborted, Unwatch, Reject, ExecUnanswered, CallGoto, CacheTypeOK

LEMMA DoubleStep == CacheInv /\ [CacheNext]_cacheVars => DoubleAddHasCause'
  <1> SUFFICES ASSUME CacheInv, [CacheNext]_cacheVars,
                      NEW c \in added', NEW d \in added', c # d, Same(c, d),
                      call'[c] = "added", call'[d] = "added", c \notin lost', d \notin lost'
               PROVE  FALSE
    BY DEF DoubleAddHasCause, Same
  <1>1. c \in Call /\ d \in Call /\ CacheTypeOK
    BY TypeStep DEF CacheInv, CacheTypeOK
  <1>2. Same(d, c)
    BY SameFacts
  <1>3. CASE call[c] # "added"
    BY <1>3, NewAdditionLost
  <1>4. CASE call[d] # "added"
    BY <1>2, <1>4, NewAdditionLost
  <1>5. CASE call[c] = "added" /\ call[d] = "added"
    <2>1. ASSUME NEW e \in Call, call[e] = "added" PROVE ~Calling(e)
      BY <2>1 DEF Calling, SaddWithoutRaceCondition, Watch, Check, Refuse, Exec, ExecAborted,
                  Unwatch, Reject, ExecUnanswered, CallGoto
    <2>2. c \in added /\ d \in added
      BY <1>1, <1>5, <2>1, AddedBefore
    <2> QED
      BY <1>1, <1>5, <2>2, LostBefore DEF CacheInv, DoubleAddHasCause
  <1> QED
    BY <1>3, <1>4, <1>5

-----------------------------------------------------------------------------
(* Theorems *)

(* The invariant holds in every state: types, guards and their consequence *)
(* for additions, with calls, commands and reconnections in any order.     *)
THEOREM CacheInvariance == CacheSpec => []CacheInv
  <1>1. CacheInv /\ [CacheNext]_cacheVars => CacheInv'
    BY TypeStep, GuardStep, DoubleStep DEF CacheInv
  <1> QED
    BY InitInv, <1>1, PTL DEF CacheSpec

(* No interleaving of adds, cleanups and expiries leaves a key that is a   *)
(* string and a sorted set at once, or an element in a key of the other    *)
(* type.                                                                   *)
THEOREM CacheTypeCorrect == CacheSpec => []CacheTypeOK
  <1>1. CacheInv => CacheTypeOK
    BY DEF CacheInv
  <1> QED
    BY <1>1, CacheInvariance, PTL

(* Between WATCH and EXEC, a call whose watch nobody has ended either      *)
(* still finds what SISMEMBER told it or will be refused by EXEC.          *)
THEOREM WatchesGuard == CacheSpec => []WatchGuards
  <1>1. CacheInv => WatchGuards
    BY DEF CacheInv
  <1> QED
    BY <1>1, CacheInvariance, PTL

(* An element that is added twice without a removal was added by a call    *)
(* whose watch another call of its process, or a reconnection, has ended.  *)
THEOREM DoubleAddsHaveCause == CacheSpec => []DoubleAddHasCause
  <1>1. CacheInv => DoubleAddHasCause
    BY DEF CacheInv
  <1> QED
    BY <1>1, CacheInvariance, PTL

(* A call that is told that its value was added has added it, or its watch *)
(* was ended by somebody else.                                             *)
THEOREM AddsTakeEffect == CacheSpec => AddTakesEffect
  <1>1. ASSUME CacheInv, [CacheNext]_cacheVars
        PROVE  [\A c \in Call :
                  call[c] # "added" /\ call'[c] = "added" => c \in added' \/ c \in lost]_cacheVars
    <2>1. ASSUME NEW c \in Call, call[c] # "added", call'[c] = "added", c \notin lost
          PROVE  c \in added'
      <3>1. Calling(c)
        BY <1>1, <2>1, OthersStay DEF CacheInv
      <3> QED
        BY <1>1, <2>1, <3>1, AddingGuarded
    <2> QED
      BY <2>1
  <1> QED
    BY <1>1, CacheInvariance, PTL DEF CacheSpec, AddTakesEffect

=============================================================================
