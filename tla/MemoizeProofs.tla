---------------------------- MODULE MemoizeProofs ----------------------------
(***************************************************************************)
(* What the memoising decorators guarantee for any number of threads and   *)
(* keys, any sizes and any interleaving: the age of what a ttl_cache       *)
(* returns, what a clear leaves behind, and how many values memoize holds  *)
(* and which it evicts.                                                    *)
(***************************************************************************)
EXTENDS Memoize, SequenceTheorems, TLAPS

(* The time at which a value was computed lies between the start of the    *)
(* call that computed it and now; an expiry is counted from that start.    *)

Bounded(entry) ==
  /\ entry.at \in Nat /\ entry.expires \in Nat
  /\ policy = "ttl" => entry.expires <= entry.at + Ttl

NotBefore(time, value) == ~value.late => value.at >= time

CallFacts(c) ==
  /\ c.stage \in {"idle", "lookup", "compute", "store", "done"}
  /\ c.stage # "idle" => c.now \in Nat /\ c.now <= clock
  /\ c.stage \in {"compute", "store"} => "late" \in DOMAIN c
  /\ c.stage = "store" => c.at \in Nat /\ c.now <= c.at /\ NotBefore(cleared, c)
  /\ c.stage = "done" => c.at \in Nat /\ (policy = "ttl" => c.at + Ttl >= c.now)

TimesInv ==
  /\ clock \in Nat /\ cleared \in Nat /\ cleared <= clock
  /\ DOMAIN call = Threads
  /\ \A k \in DOMAIN store : Bounded(store[k]) /\ NotBefore(cleared, store[k])
  /\ \A t \in Threads : CallFacts(call[t])
-----------------------------------------------------------------------------
\* A step of thread t that leaves the clock and the store alone.
LEMMA CallStep ==
  ASSUME TimesInv, NEW t \in Threads, NEW c, call' = [call EXCEPT ![t] = c],
         UNCHANGED <<policy, clock, store, cleared>>, CallFacts(c)
  PROVE  TimesInv'
<1>1. \A u \in Threads : CallFacts(call[u])'
  BY DEF TimesInv, CallFacts, NotBefore
<1>2. DOMAIN call' = Threads
  BY DEF TimesInv
<1>3. \A k \in DOMAIN store' : Bounded(store[k])' /\ NotBefore(cleared, store[k])'
  BY DEF TimesInv, Bounded, NotBefore
<1> QED BY <1>1, <1>2, <1>3 DEF TimesInv

LEMMA TimesInit == Init => TimesInv
BY DEF Init, TimesInv, NoEntries, Idle, CallFacts

LEMMA TimesStep == TimesInv /\ [Next]_vars => TimesInv'
<1> SUFFICES ASSUME TimesInv, [Next]_vars PROVE TimesInv'
  OBVIOUS
<1> USE NumbersAssumption
<1>1. ASSUME NEW t \in Threads, NEW k \in Keys, Call(t, k) PROVE TimesInv'
  <2>1. CallFacts([stage |-> "lookup", key |-> k, now |-> clock])
    BY DEF TimesInv, CallFacts
  <2> QED BY <1>1, <2>1, CallStep DEF Call
<1>2. ASSUME NEW t \in Threads, LookUpHit(t) PROVE TimesInv'
  <2> DEFINE c == call[t]
             d == [stage |-> "done", now |-> c.now, at |-> store[c.key].at]
  <2>1. c.key \in DOMAIN store /\ (policy = "ttl" => store[c.key].expires >= c.now)
    BY <1>2 DEF LookUpHit, IsHit
  <2>2. Bounded(store[c.key]) /\ c.now \in Nat /\ c.now <= clock
    BY <1>2, <2>1 DEF TimesInv, CallFacts, LookUpHit
  <2>3. CallFacts(d)
    BY <2>1, <2>2 DEF CallFacts, Bounded
  <2>4. call' = [call EXCEPT ![t] = d] /\ UNCHANGED <<policy, clock, store, cleared>>
    BY <1>2 DEF LookUpHit
  <2> HIDE DEF d
  <2> QED BY <2>3, <2>4, CallStep
<1>3. ASSUME NEW t \in Threads, LookUpMiss(t) PROVE TimesInv'
  <2> DEFINE d == [stage |-> "compute", key |-> call[t].key, now |-> call[t].now,
                   late |-> FALSE]
  <2>1. CallFacts(d)
    BY <1>3 DEF TimesInv, CallFacts, LookUpMiss
  <2>2. call' = [call EXCEPT ![t] = d] /\ UNCHANGED <<policy, clock, store, cleared>>
    BY <1>3 DEF LookUpMiss
  <2> HIDE DEF d
  <2> QED BY <2>1, <2>2, CallStep
<1>4. ASSUME NEW t \in Threads, Compute(t) PROVE TimesInv'
  <2>1. PICK some \in BOOLEAN :
          call' = [call EXCEPT ![t] =
            [stage |-> "store", key |-> call[t].key, now |-> call[t].now,
             late |-> call[t].late, some |-> some, at |-> clock]]
    BY <1>4 DEF Compute
  <2> DEFINE d == [stage |-> "store", key |-> call[t].key, now |-> call[t].now,
                   late |-> call[t].late, some |-> some, at |-> clock]
  <2>2. CallFacts(d)
    BY <1>4 DEF TimesInv, CallFacts, Compute, NotBefore
  <2>3. call' = [call EXCEPT ![t] = d] /\ UNCHANGED <<policy, clock, store, cleared>>
    BY <1>4, <2>1 DEF Compute
  <2> HIDE DEF d
  <2> QED BY <2>2, <2>3, CallStep
<1>5. ASSUME NEW t \in Threads, call' = [call EXCEPT ![t] = Idle],
             UNCHANGED <<policy, clock, store, cleared>>
      PROVE  TimesInv'
  <2>1. CallFacts(Idle)
    BY DEF CallFacts, Idle
  <2> QED BY <1>5, <2>1, CallStep
<1>6. ASSUME NEW t \in Threads, Store(t) PROVE TimesInv'
  <2> DEFINE c == call[t]
             entry == [some |-> c.some, at |-> c.at, late |-> c.late,
                       expires |-> Expiry(c.now)]
             d == [stage |-> "done", now |-> c.now, at |-> c.at]
  <2>1. PICK keys \in SUBSET (DOMAIN store \union {c.key}) :
          store' = [k \in keys |-> IF k = c.key THEN entry ELSE store[k]]
    BY <1>6 DEF Store
  <2>2. /\ call' = [call EXCEPT ![t] = d]
        /\ UNCHANGED <<policy, clock, cleared>>
        /\ c.stage = "store"
    BY <1>6 DEF Store
  <2>3. /\ c.now \in Nat /\ c.now <= clock /\ c.at \in Nat /\ c.now <= c.at
        /\ NotBefore(cleared, c)
    BY <2>2 DEF TimesInv, CallFacts
  <2>4. CallFacts(d)
    BY <2>3 DEF CallFacts
  <2>5. Bounded(entry) /\ NotBefore(cleared, entry)
    BY <2>3 DEF Bounded, NotBefore, Expiry
  <2> HIDE DEF d, entry
  <2>6. \A k \in DOMAIN store' :
          Bounded(store'[k]) /\ NotBefore(cleared, store'[k])
    BY <2>1, <2>5 DEF TimesInv
  <2>7. \A k \in DOMAIN store' : Bounded(store[k])' /\ NotBefore(cleared, store[k])'
    BY <2>2, <2>6 DEF Bounded, NotBefore
  <2>8. \A u \in Threads : CallFacts(call[u])'
    BY <2>2, <2>4 DEF TimesInv, CallFacts, NotBefore
  <2> QED BY <2>2, <2>7, <2>8 DEF TimesInv
<1>7. CASE Clear
  <2>1. /\ clock' = clock /\ cleared' = clock /\ policy' = policy
        /\ DOMAIN store' = {} /\ DOMAIN call' = Threads
    BY <1>7 DEF Clear, Emptied, NoEntries, TimesInv
  <2>2. ASSUME NEW t \in Threads PROVE CallFacts(call[t])'
    <3>1. call'[t] = IF call[t].stage \in {"compute", "store"}
                     THEN [call[t] EXCEPT !.late = TRUE] ELSE call[t]
      BY <1>7 DEF Clear
    <3>2. CallFacts(call[t])
      BY DEF TimesInv
    <3> QED BY <2>1, <3>1, <3>2 DEF CallFacts, NotBefore
  <2> QED BY <2>1, <2>2 DEF TimesInv
<1>8. CASE Tick
  <2>1. /\ clock' = clock + 1
        /\ UNCHANGED <<policy, store, call, cleared>>
    BY <1>8 DEF Tick
  <2> QED BY <2>1 DEF TimesInv, CallFacts, NotBefore, Bounded
<1>9. CASE UNCHANGED vars
  BY <1>9 DEF vars, TimesInv, CallFacts, NotBefore, Bounded
<1> QED BY <1>1, <1>2, <1>3, <1>4, <1>5, <1>6, <1>7, <1>8, <1>9
        DEF Next, Thread, Raise, Return

\* Every reachable state has the times in order.
THEOREM TimesInvariant == Spec => []TimesInv
BY TimesInit, TimesStep, PTL DEF Spec

-----------------------------------------------------------------------------
\* ttl_cache: no call returns what was computed more than ttl_seconds before it,
\* although an expiry is stored long after it was fixed and in any order.
THEOREM TtlBound == Spec => []TtlBoundsAge
<1>1. TimesInv => TtlBoundsAge
  BY DEF TimesInv, CallFacts, TtlBoundsAge
<1> QED BY <1>1, TimesInvariant, PTL

\* cache_clear: what is in the cache afterwards was computed afterwards, or by a
\* call that the clear overtook.
THEOREM ClearedStays == Spec => []ClearedOnlyInFlight
<1>1. TimesInv => ClearedOnlyInFlight
  BY DEF TimesInv, NotBefore, ClearedOnlyInFlight
<1> QED BY <1>1, TimesInvariant, PTL

-----------------------------------------------------------------------------
(* The keys of the OrderedDict: those of the store, each once, in the      *)
(* order of their use unless a value was stored over another.              *)

KeyFacts(c) == c.stage \in {"lookup", "compute", "store"} => c.key \in Keys

OrderFacts ==
  /\ order \in Seq(Keys)
  /\ IsInjective(order)
  /\ ToSet(order) = DOMAIN store
  /\ Len(order) <= MaxSize
  /\ ~restored => order = recent

OrderInv ==
  /\ policy \in {"lru", "ttl"}
  /\ DOMAIN call = Threads
  /\ \A t \in Threads : KeyFacts(call[t])
  /\ policy = "lru" => OrderFacts

\* A sequence without one of its elements, when each is there once
LEMMA RemoveOnce ==
  ASSUME NEW S, NEW seq \in Seq(S), IsInjective(seq), NEW i \in 1..Len(seq)
  PROVE  /\ RemoveFirst(seq, seq[i]) \in Seq(S)
         /\ Len(RemoveFirst(seq, seq[i])) = Len(seq) - 1
         /\ \A j \in 1..(Len(seq) - 1) :
              RemoveFirst(seq, seq[i])[j] = IF j < i THEN seq[j] ELSE seq[j + 1]
<1> DEFINE I == {j \in 1..Len(seq) : seq[j] = seq[i]}
           front == SubSeq(seq, 1, i - 1)
           back == SubSeq(seq, i + 1, Len(seq))
<1>1. I = {i}
  BY DEF IsInjective
<1>2. Min({i}) = i
  BY DEF Min
<1>3. RemoveFirst(seq, seq[i]) = front \o back
  <2>1. SelectInSeq(seq, LAMBDA v : v = seq[i]) = IF I # {} THEN Min(I) ELSE 0
    BY DEF SelectInSeq
  <2>2. SelectInSeq(seq, LAMBDA v : v = seq[i]) = i
    BY <2>1, <1>1, <1>2
  <2>3. RemoveFirst(seq, seq[i]) = RemoveAt(seq, SelectInSeq(seq, LAMBDA v : v = seq[i]))
    BY DEF RemoveFirst
  <2> QED BY <2>2, <2>3 DEF RemoveAt
<1>4. Len(seq) \in Nat /\ \A j \in 1..Len(seq) : seq[j] \in S
  BY LenProperties
<1>5. /\ front \in Seq(S) /\ Len(front) = i - 1
      /\ \A j \in 1..(i - 1) : front[j] = seq[j]
  <2>1. 1 \in Int /\ i - 1 \in Int /\ \A j \in 1..(i - 1) : seq[j] \in S
    BY <1>4
  <2> QED BY <2>1, SubSeqProperties, <1>4
<1>6. /\ back \in Seq(S) /\ Len(back) = Len(seq) - i
      /\ \A j \in 1..(Len(seq) - i) : back[j] = seq[i + j]
  <2>1. i + 1 \in Int /\ Len(seq) \in Int /\ \A j \in (i + 1)..Len(seq) : seq[j] \in S
    BY <1>4
  <2> HIDE DEF back
  <2>2. /\ back \in Seq(S) /\ Len(back) = IF i + 1 <= Len(seq) THEN Len(seq) - (i + 1) + 1 ELSE 0
        /\ \A j \in 1..(Len(seq) - (i + 1) + 1) : back[j] = seq[(i + 1) + j - 1]
    BY <2>1, SubSeqProperties DEF back
  <2> QED BY <2>2, <1>4
<1> HIDE DEF front, back
<1>7. /\ front \o back \in Seq(S)
      /\ Len(front \o back) = Len(front) + Len(back)
      /\ \A j \in 1..(Len(front) + Len(back)) :
           (front \o back)[j] = IF j <= Len(front) THEN front[j] ELSE back[j - Len(front)]
  BY <1>5, <1>6, ConcatProperties
<1> QED BY <1>3, <1>4, <1>5, <1>6, <1>7

\* The first element taken away is the tail.
LEMMA RemoveHead ==
  ASSUME NEW S, NEW seq \in Seq(S), seq # <<>>, IsInjective(seq)
  PROVE  RemoveFirst(seq, Head(seq)) = Tail(seq)
<1>1. Len(seq) \in Nat \ {0} /\ Head(seq) = seq[1]
  BY EmptySeq
<1>2. /\ RemoveFirst(seq, seq[1]) \in Seq(S)
      /\ Len(RemoveFirst(seq, seq[1])) = Len(seq) - 1
      /\ \A j \in 1..(Len(seq) - 1) : RemoveFirst(seq, seq[1])[j] = seq[j + 1]
  BY <1>1, RemoveOnce
<1>3. Tail(seq) \in Seq(S) /\ Len(Tail(seq)) = Len(seq) - 1
      /\ \A j \in 1..Len(Tail(seq)) : Tail(seq)[j] = seq[j + 1]
  BY HeadTailProperties
<1> QED BY <1>1, <1>2, <1>3, SeqEqual

\* move_to_end: the same keys, each once
LEMMA LatestKeeps ==
  ASSUME NEW S, NEW seq \in Seq(S), IsInjective(seq), NEW k \in ToSet(seq)
  PROVE  /\ Latest(seq, k) \in Seq(S) /\ Len(Latest(seq, k)) = Len(seq)
         /\ IsInjective(Latest(seq, k)) /\ ToSet(Latest(seq, k)) = ToSet(seq)
<1>1. PICK i \in 1..Len(seq) : seq[i] = k
  BY LenProperties DEF ToSet
<1> DEFINE n == Len(seq)
           without == RemoveFirst(seq, k)
           moved == Append(without, k)
<1>2. n \in Nat /\ i \in 1..n /\ k \in S /\ DOMAIN seq = 1..n /\ \A j \in 1..n : seq[j] \in S
  BY <1>1, LenProperties
<1>3. /\ without \in Seq(S) /\ Len(without) = n - 1
      /\ \A j \in 1..(n - 1) : without[j] = IF j < i THEN seq[j] ELSE seq[j + 1]
  BY <1>1, RemoveOnce
<1> HIDE DEF without
<1>4. /\ moved \in Seq(S) /\ Len(moved) = n /\ DOMAIN moved = 1..n
      /\ moved[n] = k /\ \A j \in 1..(n - 1) : moved[j] = without[j]
  <2>1. /\ moved \in Seq(S) /\ Len(moved) = Len(without) + 1
        /\ \A j \in 1..Len(without) : moved[j] = without[j]
        /\ moved[Len(without) + 1] = k
    <3> HIDE DEF n
    <3>1. k \in S /\ without \in Seq(S)
      BY <1>2, <1>3
    <3> QED BY <3>1, AppendProperties
  <2>2. DOMAIN moved = 1..Len(moved)
    BY <2>1, LenProperties
  <2> HIDE DEF moved, n
  <2> QED BY <2>1, <2>2, <1>2, <1>3
<1> HIDE DEF moved, n
<1>5. \A j \in 1..n : moved[j] = IF j = n THEN seq[i] ELSE IF j < i THEN seq[j] ELSE seq[j + 1]
  BY <1>1, <1>2, <1>3, <1>4
<1>6. IsInjective(moved)
  BY <1>2, <1>4, <1>5 DEF IsInjective
<1>7. ToSet(moved) = ToSet(seq)
  <2>1. \A j \in 1..n : \E l \in 1..n : moved[j] = seq[l]
    BY <1>2, <1>5
  <2>2. ASSUME NEW l \in 1..n PROVE \E j \in 1..n : moved[j] = seq[l]
    <3>1. CASE l = i
      BY <3>1, <1>2, <1>5
    <3>2. CASE l < i
      BY <3>2, <1>2, <1>5
    <3>3. CASE l > i
      <4>1. l - 1 \in 1..n /\ moved[l - 1] = seq[l]
        BY <3>3, <1>2, <1>5
      <4> QED BY <4>1
    <3> QED BY <3>1, <3>2, <3>3, <1>2
  <2>3. ToSet(moved) = {moved[j] : j \in 1..n} /\ ToSet(seq) = {seq[j] : j \in 1..n}
    BY <1>2, <1>4 DEF ToSet
  <2>4. {moved[j] : j \in 1..n} = {seq[j] : j \in 1..n}
    <3>1. ASSUME NEW x \in {moved[j] : j \in 1..n} PROVE x \in {seq[j] : j \in 1..n}
      BY <2>1, <3>1
    <3>2. ASSUME NEW x \in {seq[j] : j \in 1..n} PROVE x \in {moved[j] : j \in 1..n}
      BY <2>2, <3>2
    <3> QED BY <3>1, <3>2
  <2> QED BY <2>3, <2>4
<1> QED BY <1>4, <1>6, <1>7 DEF Latest, moved, without, n

\* A key that is not there is the last one after it was used.
LEMMA LatestAdds ==
  ASSUME NEW S, NEW seq \in Seq(S), NEW k, k \notin ToSet(seq)
  PROVE  Latest(seq, k) = Append(seq, k) /\ ~Contains(seq, k)
<1>1. ~\E i \in 1..Len(seq) : seq[i] = k
  BY LenProperties DEF ToSet
<1> QED BY <1>1 DEF Latest, RemoveFirst, Contains
-----------------------------------------------------------------------------
LEMMA OrderInit == Init => OrderInv
<1> SUFFICES ASSUME Init PROVE OrderInv
  OBVIOUS
<1>1. <<>> \in Seq(Keys) /\ Len(<<>>) = 0 /\ DOMAIN <<>> = {}
  BY EmptySeq
<1>2. IsInjective(<<>>) /\ ToSet(<<>>) = {}
  BY <1>1 DEF IsInjective, ToSet
<1>3. OrderFacts
  BY <1>1, <1>2, NumbersAssumption DEF Init, OrderFacts, NoEntries
<1> QED BY <1>3, PoliciesAssumption DEF Init, OrderInv, KeyFacts, Idle

\* A step of thread t that leaves the OrderedDict alone
LEMMA OrderUntouched ==
  ASSUME OrderInv, NEW t \in Threads, NEW c, call' = [call EXCEPT ![t] = c],
         UNCHANGED <<policy, store, order, recent, restored>>, KeyFacts(c)
  PROVE  OrderInv'
BY DEF OrderInv, OrderFacts, KeyFacts

\* The keys of the OrderedDict after the store of a key that was not there
LEMMA StoreNewKey ==
  ASSUME OrderFacts, NEW k \in Keys, k \notin DOMAIN store
  PROVE  LET kept == Trimmed(order, k)
             keys == {j \in DOMAIN store \union {k} : Contains(kept, j)}
             used == Latest(order, k)
             evicted == DOMAIN store \ keys
         IN /\ kept \in Seq(Keys) /\ IsInjective(kept)
            /\ Len(kept) <= MaxSize /\ ToSet(kept) = keys
            /\ kept = IF evicted = {} THEN used
                      ELSE RemoveFirst(used, CHOOSE j \in evicted : TRUE)
<1> DEFINE kept == Trimmed(order, k)
           keys == {j \in DOMAIN store \union {k} : Contains(kept, j)}
           evicted == DOMAIN store \ keys
           longer == Append(order, k)
           n == Len(order)
<1>1. Latest(order, k) = longer /\ ~Contains(order, k)
  BY LatestAdds DEF OrderFacts
<1>2. kept = IF Len(longer) > MaxSize THEN Tail(longer) ELSE longer
  BY <1>1 DEF Trimmed
<1>3. n \in Nat /\ n <= MaxSize /\ DOMAIN order = 1..n /\ MaxSize \in Nat \ {0}
      /\ \A i \in 1..n : order[i] \in Keys
  BY NumbersAssumption, LenProperties DEF OrderFacts
<1>4. /\ longer \in Seq(Keys) /\ Len(longer) = n + 1 /\ DOMAIN longer = 1..(n + 1)
      /\ longer[n + 1] = k /\ \A i \in 1..n : longer[i] = order[i]
  BY <1>3, AppendProperties, LenProperties DEF OrderFacts
<1> HIDE DEF longer, n
<1>5. \A i \in 1..n : order[i] \in DOMAIN store /\ order[i] # k
  BY <1>3 DEF OrderFacts, ToSet
<1>6. IsInjective(longer)
  BY <1>3, <1>4, <1>5 DEF IsInjective, OrderFacts
<1>7. ToSet(longer) = DOMAIN store \union {k}
  <2>1. DOMAIN store = {order[i] : i \in 1..n}
    BY <1>3 DEF OrderFacts, ToSet
  <2> QED BY <2>1, <1>3, <1>4 DEF ToSet
<1>8. CASE Len(longer) <= MaxSize
  <2>1. kept = longer
    BY <1>2, <1>3, <1>4, <1>8
  <2>2. keys = DOMAIN store \union {k}
    BY <2>1, <1>4, <1>7 DEF Contains, ToSet
  <2>3. evicted = {}
    BY <2>2
  <2> QED BY <1>1, <1>4, <1>6, <1>7, <1>8, <2>1, <2>2, <2>3
<1>9. CASE Len(longer) > MaxSize
  <2>1. kept = Tail(longer) /\ longer # <<>> /\ n = MaxSize
    BY <1>2, <1>3, <1>4, <1>9, EmptySeq
  <2>2. /\ kept \in Seq(Keys) /\ Len(kept) = n /\ DOMAIN kept = 1..n
        /\ \A i \in 1..n : kept[i] = longer[i + 1]
    BY <2>1, <1>3, <1>4, HeadTailProperties, LenProperties
  <2> HIDE DEF kept
  <2>3. IsInjective(kept)
    <3>1. \A i, j \in 1..n : longer[i + 1] = longer[j + 1] => i + 1 = j + 1
      BY <1>3, <1>4, <1>6 DEF IsInjective
    <3>2. ASSUME NEW i \in 1..n, NEW j \in 1..n, kept[i] = kept[j] PROVE i = j
      <4>1. longer[i + 1] = longer[j + 1]
        BY <3>2, <2>2
      <4>2. i + 1 = j + 1 /\ i \in Int /\ j \in Int
        BY <4>1, <3>1, <1>3
      <4> QED BY <4>2
    <3> QED BY <3>2, <2>2 DEF IsInjective
  <2>4. keys = ToSet(kept)
    <3>1. \A i \in 1..n : kept[i] \in DOMAIN store \union {k}
      BY <2>2, <1>3, <1>4, <1>7 DEF ToSet
    <3> QED BY <3>1, <2>2 DEF Contains, ToSet
  <2>5. longer[1] \in DOMAIN store /\ longer[1] \notin keys
    <3>1. \A i \in 1..n : kept[i] # longer[1]
      BY <2>2, <1>3, <1>4, <1>6 DEF IsInjective
    <3>2. longer[1] = order[1] /\ 1 \in 1..n
      BY <1>3, <1>4, <2>1
    <3> QED BY <3>1, <3>2, <2>2, <1>5 DEF Contains
  <2>6. \A j \in DOMAIN store : j # longer[1] => j \in keys
    <3> SUFFICES ASSUME NEW j \in DOMAIN store, j # longer[1] PROVE j \in keys
      OBVIOUS
    <3>1. PICK i \in 1..(n + 1) : longer[i] = j
      BY <1>4, <1>7 DEF ToSet
    <3>2. i - 1 \in 1..n /\ kept[i - 1] = j
      BY <3>1, <2>2, <1>3
    <3> QED BY <3>2, <2>2 DEF Contains
  <2>7. evicted = {longer[1]}
    BY <2>5, <2>6
  <2>8. Head(longer) = longer[1] /\ RemoveFirst(longer, Head(longer)) = Tail(longer)
    BY <2>1, <1>4, <1>6, RemoveHead
  <2>9. (CHOOSE j \in evicted : TRUE) = longer[1]
    BY <2>7
  <2>10. evicted # {} /\ kept = RemoveFirst(longer, longer[1])
    BY <2>1, <2>7, <2>8 DEF kept
  <2> HIDE DEF evicted, keys
  <2>11. Len(kept) <= MaxSize
    BY <2>1, <2>2
  <2>12. kept = IF evicted = {} THEN Latest(order, k)
                ELSE RemoveFirst(Latest(order, k), CHOOSE j \in evicted : TRUE)
    BY <1>1, <2>9, <2>10
  <2> QED BY <2>2, <2>3, <2>4, <2>11, <2>12 DEF kept, evicted, keys
<1> QED BY <1>3, <1>4, <1>8, <1>9

LEMMA OrderStep == OrderInv /\ [Next]_vars => OrderInv'
<1> SUFFICES ASSUME OrderInv, [Next]_vars PROVE OrderInv'
  OBVIOUS
<1>1. ASSUME NEW t \in Threads, NEW k \in Keys, Call(t, k) PROVE OrderInv'
  <2>1. KeyFacts([stage |-> "lookup", key |-> k, now |-> clock])
    BY DEF KeyFacts
  <2> QED BY <1>1, <2>1, OrderUntouched DEF Call
<1>2. ASSUME NEW t \in Threads, LookUpHit(t) PROVE OrderInv'
  <2> DEFINE k == call[t].key
  <2>1. /\ UNCHANGED <<policy, store, restored>> /\ k \in DOMAIN store
        /\ call' = [call EXCEPT ![t] =
             [stage |-> "done", now |-> call[t].now, at |-> store[k].at]]
    BY <1>2 DEF LookUpHit, IsHit
  <2>2. \A u \in Threads : KeyFacts(call[u])' 
    BY <2>1 DEF OrderInv, KeyFacts
  <2>3. ASSUME policy = "lru" PROVE OrderFacts'
    <3>1. order' = Latest(order, k) /\ recent' = Latest(recent, k)
      BY <1>2, <2>3 DEF LookUpHit
    <3>2. OrderFacts
      BY <2>3 DEF OrderInv
    <3>3. /\ order' \in Seq(Keys) /\ Len(order') = Len(order)
          /\ IsInjective(order') /\ ToSet(order') = ToSet(order)
      BY <2>1, <3>1, <3>2, LatestKeeps DEF OrderFacts
    <3> QED BY <2>1, <3>1, <3>2, <3>3 DEF OrderFacts
  <2> QED BY <2>1, <2>2, <2>3 DEF OrderInv
<1>3. ASSUME NEW t \in Threads, LookUpMiss(t) PROVE OrderInv'
  <2> DEFINE d == [stage |-> "compute", key |-> call[t].key, now |-> call[t].now,
                   late |-> FALSE]
  <2>1. KeyFacts(d)
    BY <1>3 DEF OrderInv, KeyFacts, LookUpMiss
  <2>2. call' = [call EXCEPT ![t] = d] /\ UNCHANGED <<policy, store, order, recent, restored>>
    BY <1>3 DEF LookUpMiss
  <2> HIDE DEF d
  <2> QED BY <2>1, <2>2, OrderUntouched
<1>4. ASSUME NEW t \in Threads, Compute(t) PROVE OrderInv'
  <2>1. PICK some \in BOOLEAN :
          call' = [call EXCEPT ![t] =
            [stage |-> "store", key |-> call[t].key, now |-> call[t].now,
             late |-> call[t].late, some |-> some, at |-> clock]]
    BY <1>4 DEF Compute
  <2> DEFINE d == [stage |-> "store", key |-> call[t].key, now |-> call[t].now,
                   late |-> call[t].late, some |-> some, at |-> clock]
  <2>2. KeyFacts(d)
    BY <1>4 DEF OrderInv, KeyFacts, Compute
  <2>3. call' = [call EXCEPT ![t] = d] /\ UNCHANGED <<policy, store, order, recent, restored>>
    BY <1>4, <2>1 DEF Compute
  <2> HIDE DEF d
  <2> QED BY <2>2, <2>3, OrderUntouched
<1>5. ASSUME NEW t \in Threads, call' = [call EXCEPT ![t] = Idle],
             UNCHANGED <<policy, store, order, recent, restored>>
      PROVE  OrderInv'
  <2>1. KeyFacts(Idle)
    BY DEF KeyFacts, Idle
  <2> QED BY <1>5, <2>1, OrderUntouched
<1>6. ASSUME NEW t \in Threads, Store(t) PROVE OrderInv'
  <2> DEFINE k == call[t].key
             kept == Trimmed(order, k)
             keys == {j \in DOMAIN store \union {k} : Contains(kept, j)}
             used == Latest(recent, k)
             evicted == DOMAIN store \ keys
  <2>1. k \in Keys /\ policy' = policy
        /\ call' = [call EXCEPT ![t] =
             [stage |-> "done", now |-> call[t].now, at |-> call[t].at]]
    BY <1>6 DEF Store, OrderInv, KeyFacts
  <2>2. \A u \in Threads : KeyFacts(call[u])'
    BY <2>1 DEF OrderInv, KeyFacts
  <2>3. ASSUME policy = "lru" PROVE OrderFacts'
    <3>1. /\ order' = kept /\ DOMAIN store' = keys
          /\ recent' = IF evicted = {} THEN used
                       ELSE RemoveFirst(used, CHOOSE j \in evicted : TRUE)
          /\ restored' = (restored \/ k \in DOMAIN store)
      BY <1>6, <2>3 DEF Store
    <3>2. OrderFacts
      BY <2>3 DEF OrderInv
    <3>3. CASE k \in DOMAIN store
      <4>1. Contains(order, k)
        BY <3>2, <3>3, LenProperties DEF OrderFacts, ToSet, Contains
      <4>2. kept = order
        BY <4>1, <3>2, NumbersAssumption, LenProperties DEF Trimmed, OrderFacts
      <4>3. keys = DOMAIN store
        BY <4>2, <3>2, <3>3, LenProperties DEF OrderFacts, ToSet, Contains
      <4> QED BY <3>1, <3>2, <3>3, <4>2, <4>3 DEF OrderFacts
    <3>4. CASE k \notin DOMAIN store
      <4>1. /\ kept \in Seq(Keys) /\ IsInjective(kept)
            /\ Len(kept) <= MaxSize /\ ToSet(kept) = keys
            /\ kept = IF evicted = {} THEN Latest(order, k)
                      ELSE RemoveFirst(Latest(order, k), CHOOSE j \in evicted : TRUE)
        BY <2>1, <3>2, <3>4, StoreNewKey
      <4>2. ~restored' => order' = recent'
        BY <3>1, <3>2, <4>1 DEF OrderFacts
      <4> QED BY <3>1, <4>1, <4>2 DEF OrderFacts
    <3> QED BY <3>3, <3>4
  <2> QED BY <2>1, <2>2, <2>3 DEF OrderInv
<1>7. CASE Clear
  <2>1. /\ policy' = policy /\ DOMAIN store' = {} /\ order' = <<>> /\ recent' = <<>>
        /\ DOMAIN call' = Threads
    BY <1>7 DEF Clear, Emptied, NoEntries
  <2>2. ASSUME NEW t \in Threads PROVE KeyFacts(call[t])'
    <3>1. call'[t] = IF call[t].stage \in {"compute", "store"}
                     THEN [call[t] EXCEPT !.late = TRUE] ELSE call[t]
      BY <1>7 DEF Clear
    <3>2. KeyFacts(call[t])
      BY DEF OrderInv
    <3> QED BY <3>1, <3>2 DEF KeyFacts
  <2>3. <<>> \in Seq(Keys) /\ Len(<<>>) = 0 /\ DOMAIN <<>> = {}
    BY EmptySeq
  <2>4. IsInjective(<<>>) /\ ToSet(<<>>) = {}
    BY <2>3 DEF IsInjective, ToSet
  <2> QED BY <2>1, <2>2, <2>3, <2>4, NumbersAssumption DEF OrderInv, OrderFacts
<1>8. CASE Tick
  BY <1>8 DEF Tick, OrderInv, OrderFacts, KeyFacts
<1>9. CASE UNCHANGED vars
  BY <1>9 DEF vars, OrderInv, OrderFacts, KeyFacts
<1> QED BY <1>1, <1>2, <1>3, <1>4, <1>5, <1>6, <1>7, <1>8, <1>9
        DEF Next, Thread, Raise, Return

\* Every reachable OrderedDict holds the keys of the store, each once.
THEOREM OrderInvariant == Spec => []OrderInv
BY OrderInit, OrderStep, PTL DEF Spec

\* memoize holds at most maxsize values and evicts the least recently used one,
\* as long as no value is stored over another.
THEOREM LruBound == Spec => []LruIsBounded
<1>1. OrderInv => LruIsBounded
  BY DEF OrderInv, OrderFacts, LruIsBounded
<1> QED BY <1>1, OrderInvariant, PTL
=============================================================================
