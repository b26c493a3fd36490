-------------------------------- MODULE Memoize --------------------------------
(***************************************************************************)
(* The memoising decorators of pyqa.cache.in_memory, called by several     *)
(* threads: @memoize, least recently used with a maximum, and @ttl_cache.  *)
(* The lock guards the look-up and the store but not the call of the       *)
(* wrapped function in between, so that threads compute the same key at    *)
(* once, a clear falls between a call and its store, and time passes while *)
(* the function runs.                                                      *)
(***************************************************************************)
EXTENDS Integers, Sequences, SequencesExt

CONSTANTS
  Threads, Keys,
  Policies,  \* subset of {"lru", "ttl"}
  MaxSize,   \* maxsize of the least recently used cache
  Ttl,       \* ttl_seconds
  MaxClock   \* bound: the clock

ASSUME PoliciesAssumption == Policies \subseteq {"lru", "ttl"}
ASSUME NumbersAssumption == MaxSize \in Nat \ {0} /\ Ttl \in Nat /\ MaxClock \in Nat

VARIABLES
  policy,
  clock,   \* time.monotonic()
  store,   \* key -> [some, at, late, expires]
  order,   \* the keys of the OrderedDict, first to be evicted first
  call,    \* thread -> [stage, key, now, some, at, late]
  cleared, \* history: the clock at the last clear
  recent,  \* history: the keys in the store, least recently used first
  restored \* history: a key was stored although it was there

vars == <<policy, clock, store, order, call, cleared, recent, restored>>

(* A result is told apart by whether it is None (some) and by when the     *)
(* function computed it (at).  late marks a call that was computing when   *)
(* the cache was cleared, and the entry it stores.                         *)
Idle == [stage |-> "idle"]
NoEntries == [k \in {} |-> Idle]
Latest(seq, k) == Append(RemoveFirst(seq, k), k)

Init ==
  /\ policy \in Policies
  /\ clock = 0
  /\ store = NoEntries /\ order = <<>>
  /\ call = [t \in Threads |-> Idle]
  /\ cleared = 0 /\ recent = <<>> /\ restored = FALSE

\* __call__ up to the lock; ttl_cache reads the clock here.
Call(t, k) ==
  /\ call[t].stage = "idle"
  /\ call' = [call EXCEPT ![t] = [stage |-> "lookup", key |-> k, now |-> clock]]
  /\ UNCHANGED <<policy, clock, store, order, cleared, recent, restored>>

\* A value of None is never a hit of memoize; an expired one is none of ttl_cache.
IsHit(k, now) ==
  /\ k \in DOMAIN store
  /\ IF policy = "lru" THEN store[k].some ELSE store[k].expires >= now

LookUpHit(t) ==
  LET c == call[t] IN
  /\ c.stage = "lookup" /\ IsHit(c.key, c.now)
  /\ order' = IF policy = "lru" THEN Latest(order, c.key) ELSE order
  /\ recent' = IF policy = "lru" THEN Latest(recent, c.key) ELSE recent
  /\ call' = [call EXCEPT ![t] =
       [stage |-> "done", now |-> c.now, at |-> store[c.key].at]]
  /\ UNCHANGED <<policy, clock, store, cleared, restored>>

LookUpMiss(t) ==
  LET c == call[t] IN
  /\ c.stage = "lookup" /\ ~IsHit(c.key, c.now)
  /\ call' = [call EXCEPT ![t] =
       [stage |-> "compute", key |-> c.key, now |-> c.now, late |-> FALSE]]
  /\ UNCHANGED <<policy, clock, store, order, cleared, recent, restored>>

\* The wrapped function, without the lock: it returns a value or None ...
Compute(t) ==
  LET c == call[t] IN
  /\ c.stage = "compute"
  /\ \E some \in BOOLEAN :
       call' = [call EXCEPT ![t] =
         [stage |-> "store", key |-> c.key, now |-> c.now, late |-> c.late,
          some |-> some, at |-> clock]]
  /\ UNCHANGED <<policy, clock, store, order, cleared, recent, restored>>

\* ... or raises, and nothing is stored.
Raise(t) ==
  /\ call[t].stage = "compute"
  /\ call' = [call EXCEPT ![t] = Idle]
  /\ UNCHANGED <<policy, clock, store, order, cleared, recent, restored>>

\* MUTANT: the time to live counts from the end of the computation.
ExpiryFromStore(now) == IF policy = "lru" THEN 0 ELSE clock + Ttl

Expiry(now) == IF policy = "lru" THEN 0 ELSE now + Ttl

\* MUTANT: the cache is trimmed before the store and not after it.
TrimmedEarly(keys, k) ==
  IF Len(keys) > MaxSize THEN Append(Tail(keys), k)
  ELSE IF Contains(keys, k) THEN keys ELSE Append(keys, k)

\* The OrderedDict after the store: a key that is there keeps its place, and
\* popitem(last=False) removes the first key when there is one too many.
Trimmed(keys, k) ==
  LET stored == IF Contains(keys, k) THEN keys ELSE Append(keys, k) IN
  IF Len(stored) > MaxSize THEN Tail(stored) ELSE stored

Store(t) ==
  LET c == call[t]
      entry == [some |-> c.some, at |-> c.at, late |-> c.late, expires |-> Expiry(c.now)]
      kept == IF policy = "lru" THEN Trimmed(order, c.key) ELSE order
      keys == {k \in DOMAIN store \union {c.key} : policy = "lru" => Contains(kept, k)}
      used == Latest(recent, c.key)
      evicted == DOMAIN store \ keys
  IN
  /\ c.stage = "store"
  /\ order' = kept
  /\ store' = [k \in keys |-> IF k = c.key THEN entry ELSE store[k]]
  /\ recent' = IF policy = "ttl" THEN recent
               ELSE IF evicted = {} THEN used
               ELSE RemoveFirst(used, CHOOSE k \in evicted : TRUE)
  /\ restored' = (restored \/ c.key \in DOMAIN store)
  /\ call' = [call EXCEPT ![t] = [stage |-> "done", now |-> c.now, at |-> c.at]]
  /\ UNCHANGED <<policy, clock, cleared>>

Return(t) ==
  /\ call[t].stage = "done"
  /\ call' = [call EXCEPT ![t] = Idle]
  /\ UNCHANGED <<policy, clock, store, order, cleared, recent, restored>>

\* MUTANT: the entries stay, only the count of the hits is reset.
Kept == store

\* The entries after cache_clear
Emptied == NoEntries

Clear ==
  /\ store' = Emptied /\ order' = <<>>
  /\ call' = [t \in Threads |->
       IF call[t].stage \in {"compute", "store"} THEN [call[t] EXCEPT !.late = TRUE]
       ELSE call[t]]
  /\ cleared' = clock
  /\ recent' = <<>> /\ restored' = FALSE
  /\ UNCHANGED <<policy, clock>>

Tick ==
  /\ clock < MaxClock
  /\ clock' = clock + 1
  /\ UNCHANGED <<policy, store, order, call, cleared, recent, restored>>

Thread(t) ==
  \/ \E k \in Keys : Call(t, k)
  \/ LookUpHit(t) \/ LookUpMiss(t) \/ Compute(t) \/ Raise(t) \/ Store(t) \/ Return(t)

Next == (\E t \in Threads : Thread(t)) \/ Clear \/ Tick

Spec == Init /\ [][Next]_vars
-----------------------------------------------------------------------------
(* Properties                                                              *)

\* A call of a ttl_cache never returns what the function returned more than
\* ttl_seconds before the call, however long computations take and in whatever
\* order they overwrite each other.
TtlBoundsAge ==
  policy = "ttl" => \A t \in Threads :
    call[t].stage = "done" => call[t].at + Ttl >= call[t].now

\* memoize never holds more than maxsize values, and evicts the least recently
\* used one, as long as no value is stored over another (which happens when two
\* threads compute a key at once, and each time for a value of None).
LruIsBounded ==
  policy = "lru" => Len(order) <= MaxSize /\ (~restored => order = recent)

\* After cache_clear only a call that was computing at the time brings back a
\* value from before it.
ClearedOnlyInFlight ==
  \A k \in DOMAIN store : ~store[k].late => store[k].at >= cleared
=============================================================================
