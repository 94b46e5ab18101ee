----------------------------- MODULE RedisCache -----------------------------
(* RedisCacheComponent: a key-value store in Redis that the handlers use as a *)
(* cache.  Every entry is written with a TTL, so every entry may vanish at    *)
(* any moment (expiry, eviction or a restart of Redis); an entry that is      *)
(* absent is Miss.                                                            *)
(*                                                                            *)
(* The component catches every exception: a command that fails or times out   *)
(* looks to its caller like a Miss (Get) or like success (Set, Invalidate).   *)
(* The modules that use this one decide when a command is lost; a lost        *)
(* command is a step that leaves cache unchanged.                             *)
CONSTANTS Keys,   \* the cache keys, one per user or owner login
          Miss    \* what Get returns for an absent key (std::nullopt)

VARIABLE cache    \* the entry of each key, or Miss

Init == cache = [k \in Keys |-> Miss]

Hit(k) == cache[k] # Miss

\* SET key value EX ttl: replaces the entry, whoever wrote it and whenever.
Set(k, value) == cache' = [cache EXCEPT ![k] = value]

\* DEL key.
Invalidate(k) == cache' = [cache EXCEPT ![k] = Miss]

\* The TTL given to SET elapses.
Expire(k) ==
  /\ Hit(k)
  /\ cache' = [cache EXCEPT ![k] = Miss]
=============================================================================
