----------------------- MODULE ClientConfigCacheProofs -----------------------
(***************************************************************************)
(* ClientConfigCache keeps its promises for every number of requests,      *)
(* replicas and callers, every Ttl and every sequence of deployments: a    *)
(* config is never older than Ttl when a handler receives it, and requests *)
(* only work in buckets that were configured for their config's client id. *)
(***************************************************************************)
EXTENDS ClientConfigCache, TLAPS

(* What a load would give now has been noted as seen now. *)
SeenOK ==
  \A u \in Users : seen[u][Load(u)] = now /\ \A c \in Config \cup {None} : seen[u][c] <= now

(* A cached config was current for its caller not longer than Ttl before the *)
(* entry's time is over.                                                     *)
EntryOK(u, e) ==
  e # None =>
    /\ e.expires <= now + Ttl
    /\ e.config # None => /\ seen[u][e.config] >= 0
                          /\ seen[u][e.config] + Ttl >= e.expires

EntriesOK == \A rep \in Replicas, u \in Users : EntryOK(u, cache[rep][u])

(* An S3Service kept for a client id has a bucket that was given to that id. *)
InstancesOK ==
  \A rep \in Replicas, i \in Users :
    instance[rep][i] # None => Given(i, instance[rep][i])

(* A config that a request works with was once the one to load for its user. *)
RequestsOK ==
  \A r \in Requests :
    /\ pc[r] # "idle" => user[r] \in Users /\ on[r] \in Replicas
    /\ pc[r] = "configured" => got[r] # None /\ seen[user[r]][got[r]] >= 0
    /\ pc[r] = "idle" => acted[r] = None
    /\ acted[r] # None => /\ user[r] \in Users /\ got[r] # None
                          /\ seen[user[r]][got[r]] >= 0

StoresOK == InstancesOK /\ RequestsOK

CacheInv == TypeOK /\ SeenOK /\ EntriesOK /\ StoresOK /\ BucketWasGiven

-----------------------------------------------------------------------------
(* Loading gives a config of the caller, or none. *)
LEMMA LoadType ==
  ASSUME TypeOK, NEW u \in Users
  PROVE  Load(u) \in Config \cup {None}
<1>1. LoadFromFile(u) \in Config \cup {None}
  BY DEF TypeOK, LoadFromFile
<1>2. LoadFromEnv(u) \in Config \cup {None}
  BY EnvAssumption DEF LoadFromEnv
<1> QED
  BY <1>1, <1>2 DEF Load

LEMMA NextLoadType ==
  ASSUME TypeOK', NEW u \in Users
  PROVE  Load(u)' \in Config \cup {None}
<1>1. LoadFromFile(u)' \in Config \cup {None}
  BY DEF TypeOK, LoadFromFile
<1>2. LoadFromEnv(u) \in Config \cup {None}
  BY EnvAssumption DEF LoadFromEnv
<1> QED
  BY <1>1, <1>2 DEF Load, LoadFromEnv

(* What getting a config does, with its parts named. *)
LEMMA GetEffect ==
  ASSUME TypeOK, NEW r \in Requests, GetConfig(r)
  PROVE  \E rep \in Replicas, u \in Users, c \in Config \cup {None}, x \in Nat :
           /\ c = ConfigOf(cache[rep][u], u) /\ x = Expiry(cache[rep][u])
           /\ cache' = [cache EXCEPT ![rep][u] = [config |-> c, expires |-> x]]
           /\ on' = [on EXCEPT ![r] = rep]
           /\ user' = [user EXCEPT ![r] = u]
           /\ got' = [got EXCEPT ![r] = c]
           /\ pc' = [pc EXCEPT ![r] = IF c = None THEN "refused" ELSE "configured"]
           /\ UNCHANGED <<files, now, instance, acted, seen>>
<1>1. PICK rep \in Replicas, u \in Users :
        LET e == cache[rep][u]
            c == ConfigOf(e, u)
        IN  /\ cache' = [cache EXCEPT ![rep][u] = [config |-> c, expires |-> Expiry(e)]]
            /\ on' = [on EXCEPT ![r] = rep]
            /\ user' = [user EXCEPT ![r] = u]
            /\ got' = [got EXCEPT ![r] = c]
            /\ pc' = [pc EXCEPT ![r] = IF c = None THEN "refused" ELSE "configured"]
  BY DEF GetConfig
<1>2. cache[rep][u] \in Entry \cup {None} /\ now \in Nat /\ now + Ttl \in Nat
  BY TimeAssumption DEF TypeOK
<1>3. ConfigOf(cache[rep][u], u) \in Config \cup {None}
  BY <1>2, LoadType DEF ConfigOf, Live, Entry
<1>4. Expiry(cache[rep][u]) \in Nat
  BY <1>2 DEF Expiry, Live, Entry
<1>5. UNCHANGED <<files, now, instance, acted, seen>>
  BY DEF GetConfig
<1> QED
  BY <1>1, <1>3, <1>4, <1>5

(* Time and deployments only move what was seen forward. *)
LEMMA NotedEffect ==
  ASSUME TypeOK, SeenOK, TypeOK', seen' = Noted, now' >= now
  PROVE  /\ SeenOK'
         /\ \A u \in Users, c \in Config \cup {None} : seen'[u][c] >= seen[u][c]
<1>1. ASSUME NEW u \in Users
      PROVE  /\ seen'[u][Load(u)'] = now'
             /\ \A c \in Config \cup {None} :
                  seen'[u][c] <= now' /\ seen'[u][c] >= seen[u][c]
  <2>1. Load(u)' \in Config \cup {None}
    BY NextLoadType
  <2>2. PICK l \in Config \cup {None} : l = Load(u)'
    BY <2>1
  <2>3. seen[u] \in [Config \cup {None} -> -1 .. MaxTime] /\ now \in Nat /\ now' \in Nat
    <3>1. now \in 0 .. MaxTime /\ now' \in 0 .. MaxTime
      BY DEF TypeOK
    <3>2. seen \in [Users -> [Config \cup {None} -> -1 .. MaxTime]]
      BY DEF TypeOK
    <3>3. now \in Nat /\ now' \in Nat
      BY <3>1, TimeAssumption
    <3>4. seen[u] \in [Config \cup {None} -> -1 .. MaxTime]
      BY <3>2
    <3> QED
      BY <3>3, <3>4
  <2>4. seen'[u] = [seen[u] EXCEPT ![l] = now']
    BY <2>2 DEF Noted
  <2>5. \A c \in Config \cup {None} : seen[u][c] <= now /\ seen[u][c] \in Int
    BY <2>3, TimeAssumption DEF SeenOK
  <2> QED
    BY <2>2, <2>3, <2>4, <2>5
<1> QED
  BY <1>1 DEF SeenOK

(* Types are kept by every step. *)
LEMMA NextType ==
  ASSUME TypeOK, StoresOK, [Next]_vars
  PROVE  TypeOK'
<1>1. CASE UNCHANGED vars
  BY <1>1 DEF vars, TypeOK
<1>2. ASSUME NEW r \in Requests, GetConfig(r) PROVE TypeOK'
  <2>1. PICK rep \in Replicas, u \in Users, c \in Config \cup {None}, x \in Nat :
           /\ c = ConfigOf(cache[rep][u], u) /\ x = Expiry(cache[rep][u])
           /\ cache' = [cache EXCEPT ![rep][u] = [config |-> c, expires |-> x]]
           /\ on' = [on EXCEPT ![r] = rep]
           /\ user' = [user EXCEPT ![r] = u]
           /\ got' = [got EXCEPT ![r] = c]
           /\ pc' = [pc EXCEPT ![r] = IF c = None THEN "refused" ELSE "configured"]
           /\ UNCHANGED <<files, now, instance, acted, seen>>
    BY <1>2, GetEffect
  <2>2. [config |-> c, expires |-> x] \in Entry
    BY DEF Entry
  <2>3. cache' \in [Replicas -> [Users -> Entry \cup {None}]]
    BY <2>1, <2>2 DEF TypeOK
  <2> QED
    BY <2>1, <2>3 DEF TypeOK
<1>3. ASSUME NEW r \in Requests, UseStore(r) PROVE TypeOK'
  <2>1. got[r] \in Config /\ on[r] \in Replicas
    BY <1>3 DEF UseStore, StoresOK, InstancesOK, RequestsOK, TypeOK
  <2>2. PICK b \in Buckets, i \in Users : b = BucketFor(on[r], got[r]) /\ i = got[r].id
    BY <2>1 DEF BucketFor, TypeOK, Config
  <2>3. /\ instance' = [instance EXCEPT ![on[r]][i] = b]
        /\ acted' = [acted EXCEPT ![r] = b]
        /\ pc' = [pc EXCEPT ![r] = "done"]
        /\ UNCHANGED <<files, now, cache, on, user, got, seen>>
    BY <1>3, <2>2 DEF UseStore
  <2> QED
    BY <2>1, <2>3 DEF TypeOK
<1>4. ASSUME NEW t \in 0 .. MaxTime, now' = t, files' \in [Users -> Seq(Config \cup {Broken})],
             UNCHANGED <<cache, instance, pc, on, user, got, acted>>, seen' = Noted
      PROVE  TypeOK'
  <2>1. seen' \in [Users -> [Config \cup {None} -> -1 .. MaxTime]]
    <3>1. t \in -1 .. MaxTime
      BY TimeAssumption
    <3> QED
      BY <1>4, <3>1 DEF TypeOK, Noted
  <2> QED
    BY <1>4, <2>1 DEF TypeOK
<1>5. ASSUME NEW u \in Users, Deploy(u) PROVE TypeOK'
  <2>1. PICK fs \in Deployable[u] : files' = [files EXCEPT ![u] = fs]
    BY <1>5 DEF Deploy
  <2>2. fs \in Seq(Config \cup {Broken})
    BY DeployAssumption
  <2>3. files' \in [Users -> Seq(Config \cup {Broken})] /\ now' \in 0 .. MaxTime
    BY <1>5, <2>1, <2>2 DEF TypeOK, Deploy
  <2> QED
    BY <1>4, <1>5, <2>3 DEF Deploy
<1>6. CASE Tick
  <2>1. files' \in [Users -> Seq(Config \cup {Broken})] /\ now' \in 0 .. MaxTime
    BY <1>6, TimeAssumption DEF TypeOK, Tick
  <2> QED
    BY <1>4, <1>6, <2>1 DEF Tick
<1>7. ASSUME NEW rep \in Replicas, Restart(rep) PROVE TypeOK'
  BY <1>7 DEF Restart, TypeOK
<1> QED
  BY <1>1, <1>2, <1>3, <1>5, <1>6, <1>7 DEF Next, Quiesce

(* What a caller is given is recent. *)
LEMMA GivenIsRecent ==
  ASSUME CacheInv, NEW rep \in Replicas, NEW u \in Users,
         NEW c \in Config \cup {None}, c = ConfigOf(cache[rep][u], u)
  PROVE  /\ seen[u][c] >= 0 /\ seen[u][c] + Ttl >= now
         /\ c # None => seen[u][c] + Ttl >= Expiry(cache[rep][u])
<1>0. /\ now \in Nat /\ Ttl \in Nat /\ cache[rep][u] \in Entry \cup {None}
      /\ seen[u] \in [Config \cup {None} -> -1 .. MaxTime] /\ MaxTime \in Nat
  <2>1. MaxTime \in Nat /\ Ttl \in Nat /\ now \in 0 .. MaxTime
    BY TimeAssumption DEF CacheInv, TypeOK
  <2>2. cache[rep][u] \in Entry \cup {None}
    BY DEF CacheInv, TypeOK
  <2>3. seen[u] \in [Config \cup {None} -> -1 .. MaxTime]
    BY DEF CacheInv, TypeOK
  <2> QED
    BY <2>1, <2>2, <2>3
<1>1. EntryOK(u, cache[rep][u])
  BY DEF CacheInv, EntriesOK
<1>2. CASE Live(cache[rep][u]) /\ cache[rep][u].config # None
  <2>1. c = cache[rep][u].config /\ Expiry(cache[rep][u]) = cache[rep][u].expires
        /\ now <= cache[rep][u].expires /\ cache[rep][u] # None
    BY <1>2 DEF ConfigOf, Expiry, Live
  <2>2. cache[rep][u].expires \in Nat
    BY <1>0, <2>1 DEF Entry
  <2> QED
    BY <1>0, <1>1, <1>2, <2>1, <2>2 DEF EntryOK
<1>3. CASE ~(Live(cache[rep][u]) /\ cache[rep][u].config # None)
  <2>1. c = Load(u)
    BY <1>3 DEF ConfigOf
  <2>2. seen[u][c] = now
    BY <2>1 DEF CacheInv, SeenOK
  <2>3. Expiry(cache[rep][u]) <= now + Ttl
    BY <1>0, <1>1 DEF Expiry, Live, EntryOK, Entry
  <2>4. Expiry(cache[rep][u]) \in Nat
    BY <1>0 DEF Expiry, Live, Entry
  <2> QED
    BY <1>0, <2>2, <2>3, <2>4
<1> QED
  BY <1>2, <1>3

LEMMA GetStep ==
  ASSUME CacheInv, NEW r \in Requests, GetConfig(r)
  PROVE  /\ CacheInv'
         /\ pc[r] = "idle" /\ pc' = [pc EXCEPT ![r] = pc'[r]]
         /\ seen[user'[r]][got'[r]] >= 0 /\ seen[user'[r]][got'[r]] + Ttl >= now
<1>0. TypeOK /\ TypeOK'
  BY NextType DEF CacheInv, Next
<1>1. PICK rep \in Replicas, u \in Users, c \in Config \cup {None}, x \in Nat :
           /\ c = ConfigOf(cache[rep][u], u) /\ x = Expiry(cache[rep][u])
           /\ cache' = [cache EXCEPT ![rep][u] = [config |-> c, expires |-> x]]
           /\ on' = [on EXCEPT ![r] = rep]
           /\ user' = [user EXCEPT ![r] = u]
           /\ got' = [got EXCEPT ![r] = c]
           /\ pc' = [pc EXCEPT ![r] = IF c = None THEN "refused" ELSE "configured"]
           /\ UNCHANGED <<files, now, instance, acted, seen>>
  BY <1>0, GetEffect
<1>2. /\ seen[u][c] >= 0 /\ seen[u][c] + Ttl >= now
      /\ c # None => seen[u][c] + Ttl >= x
  BY <1>1, GivenIsRecent
<1>3. x <= now + Ttl
  <2>1. cache[rep][u] \in Entry \cup {None} /\ EntryOK(u, cache[rep][u])
    BY DEF CacheInv, TypeOK, EntriesOK
  <2>2. now \in Nat /\ Ttl \in Nat
    BY <1>0, TimeAssumption DEF TypeOK
  <2> QED
    BY <1>1, <2>1, <2>2 DEF Expiry, Live, EntryOK, Entry
<1>4. SeenOK'
  BY <1>1 DEF CacheInv, SeenOK, Load, LoadFromFile, LoadFromEnv
<1>5. EntriesOK'
  <2>1. ASSUME NEW q \in Replicas, NEW v \in Users PROVE EntryOK(v, cache[q][v])'
    <3>1. CASE q = rep /\ v = u
      <4>1. cache'[q][v] = [config |-> c, expires |-> x]
        BY <1>0, <1>1, <3>1 DEF TypeOK
      <4> QED
        BY <1>1, <1>2, <1>3, <3>1, <4>1 DEF EntryOK
    <3>2. CASE ~(q = rep /\ v = u)
      <4>1. cache'[q][v] = cache[q][v]
        BY <1>0, <1>1, <3>2 DEF TypeOK
      <4> QED
        BY <1>1, <4>1 DEF EntryOK, CacheInv, EntriesOK
    <3> QED
      BY <3>1, <3>2
  <2> QED
    BY <2>1 DEF EntriesOK
<1>6. pc[r] = "idle" /\ acted[r] = None
  BY DEF GetConfig, CacheInv, StoresOK, InstancesOK, RequestsOK
<1>7. StoresOK' /\ BucketWasGiven'
  <2>1. ASSUME NEW s \in Requests, s # r
        PROVE  pc'[s] = pc[s] /\ on'[s] = on[s] /\ user'[s] = user[s] /\ got'[s] = got[s]
    BY <1>0, <1>1, <2>1 DEF TypeOK
  <2>2. on'[r] = rep /\ user'[r] = u /\ got'[r] = c
        /\ pc'[r] = IF c = None THEN "refused" ELSE "configured"
    BY <1>0, <1>1 DEF TypeOK
  <2>3. StoresOK'
    <3>1. InstancesOK'
      BY <1>1 DEF CacheInv, StoresOK, InstancesOK, RequestsOK, Given
    <3>2. ASSUME NEW s \in Requests, s # r
          PROVE  /\ pc'[s] = pc[s] /\ on'[s] = on[s] /\ user'[s] = user[s]
                 /\ got'[s] = got[s] /\ acted'[s] = acted[s] /\ seen' = seen
      BY <1>1, <2>1, <3>2
    <3>3. seen'[user'[r]][got'[r]] >= 0 /\ acted'[r] = None
      BY <1>1, <1>2, <1>6, <2>2
    <3>4. RequestsOK'
      BY <2>2, <3>2, <3>3 DEF CacheInv, StoresOK, InstancesOK, RequestsOK
    <3> QED
      BY <3>1, <3>4 DEF StoresOK
  <2>4. BucketWasGiven'
    BY <1>1, <1>6, <2>1 DEF CacheInv, BucketWasGiven, Given
  <2> QED
    BY <2>3, <2>4
<1>8. seen[user'[r]][got'[r]] >= 0 /\ seen[user'[r]][got'[r]] + Ttl >= now
  BY <1>0, <1>1, <1>2 DEF TypeOK
<1> QED
  BY <1>0, <1>1, <1>4, <1>5, <1>6, <1>7, <1>8 DEF CacheInv, TypeOK

LEMMA UseStep ==
  ASSUME CacheInv, NEW r \in Requests, UseStore(r)
  PROVE  CacheInv' /\ pc[r] # "idle" /\ pc' = [pc EXCEPT ![r] = "done"]
<1>0. TypeOK /\ TypeOK'
  BY NextType DEF CacheInv, Next
<1>1. /\ got[r] \in Config /\ on[r] \in Replicas /\ user[r] \in Users
      /\ got[r].id \in Users /\ seen[user[r]][got[r]] >= 0
  BY <1>0 DEF UseStore, CacheInv, StoresOK, InstancesOK, RequestsOK, TypeOK, Config
<1>2. PICK b \in Buckets, i \in Users : b = BucketFor(on[r], got[r]) /\ i = got[r].id
  BY <1>0, <1>1 DEF BucketFor, TypeOK, Config
<1>3. /\ instance' = [instance EXCEPT ![on[r]][i] = b]
      /\ acted' = [acted EXCEPT ![r] = b]
      /\ pc' = [pc EXCEPT ![r] = "done"]
      /\ UNCHANGED <<files, now, cache, on, user, got, seen>>
      /\ pc[r] = "configured"
  BY <1>1, <1>2 DEF UseStore
<1>4. Given(i, b)
  <2>1. got[r] = [id |-> i, bucket |-> got[r].bucket]
    BY <1>1, <1>2 DEF Config
  <2> QED
    BY <1>1, <1>2, <2>1 DEF BucketFor, CacheInv, StoresOK, InstancesOK, RequestsOK, Given
<1>5. SeenOK' /\ EntriesOK'
  BY <1>3 DEF CacheInv, SeenOK, EntriesOK, EntryOK, Load, LoadFromFile, LoadFromEnv
<1>6. StoresOK'
  <2>1. ASSUME NEW q \in Replicas, NEW v \in Users, instance'[q][v] # None
        PROVE  Given(v, instance[q][v])'
    <3>1. instance'[q][v] = IF q = on[r] /\ v = i THEN b ELSE instance[q][v]
      BY <1>0, <1>1, <1>3 DEF TypeOK
    <3> QED
      BY <1>3, <1>4, <2>1, <3>1 DEF CacheInv, StoresOK, InstancesOK, RequestsOK, Given
  <2>2. \A s \in Requests : pc'[s] = IF s = r THEN "done" ELSE pc[s]
    BY <1>0, <1>3 DEF TypeOK
  <2>3. \A s \in Requests : s # r => acted'[s] = acted[s]
    BY <1>0, <1>3 DEF TypeOK
  <2> QED
    BY <1>1, <1>3, <2>1, <2>2, <2>3 DEF CacheInv, StoresOK, InstancesOK, RequestsOK
<1>7. BucketWasGiven'
  <2>1. \A s \in Requests : acted'[s] = IF s = r THEN b ELSE acted[s]
    BY <1>0, <1>3 DEF TypeOK
  <2> QED
    BY <1>2, <1>3, <1>4, <2>1 DEF CacheInv, BucketWasGiven, Given
<1> QED
  BY <1>0, <1>3, <1>5, <1>6, <1>7 DEF CacheInv

(* Time passing and deployments. *)
LEMMA ForwardStep ==
  ASSUME CacheInv, TypeOK', now' >= now, seen' = Noted,
         UNCHANGED <<cache, instance, pc, on, user, got, acted>>
  PROVE  CacheInv'
<1>0. TypeOK /\ SeenOK /\ now \in Int /\ now' \in Int /\ Ttl \in Nat
  <2>1. now \in 0 .. MaxTime /\ now' \in 0 .. MaxTime
    BY DEF CacheInv, TypeOK
  <2>2. TypeOK /\ SeenOK
    BY DEF CacheInv
  <2> QED
    BY <2>1, <2>2, TimeAssumption
<1>1. SeenOK' /\ \A u \in Users, c \in Config \cup {None} : seen'[u][c] >= seen[u][c]
  BY <1>0, NotedEffect
<1>2. ASSUME NEW u \in Users, NEW c \in Config \cup {None}
      PROVE  /\ seen'[u][c] >= seen[u][c]
             /\ seen[u][c] \in Int /\ seen'[u][c] \in Int
  <2>1. seen \in [Users -> [Config \cup {None} -> -1 .. MaxTime]]
        /\ seen' \in [Users -> [Config \cup {None} -> -1 .. MaxTime]] /\ MaxTime \in Nat
    BY TimeAssumption DEF CacheInv, TypeOK
  <2>2. seen[u][c] \in -1 .. MaxTime /\ seen'[u][c] \in -1 .. MaxTime
    BY <2>1
  <2> QED
    BY <1>1, <2>1, <2>2
<1>3. EntriesOK'
  <2>1. ASSUME NEW rep \in Replicas, NEW u \in Users, cache[rep][u] # None
        PROVE  EntryOK(u, cache[rep][u])'
    <3>1. EntryOK(u, cache[rep][u]) /\ cache[rep][u] \in Entry
      BY <2>1 DEF CacheInv, TypeOK, EntriesOK
    <3>2. cache[rep][u].expires \in Nat /\ cache[rep][u].config \in Config \cup {None}
      BY <3>1 DEF Entry
    <3>3. cache'[rep][u] = cache[rep][u]
      OBVIOUS
    <3> QED
      BY <1>0, <1>2, <2>1, <3>1, <3>2, <3>3 DEF EntryOK
  <2> QED
    BY <2>1 DEF EntriesOK, EntryOK
<1>4. ASSUME NEW i \in Users, NEW b \in Buckets, Given(i, b) PROVE Given(i, b)'
  <2>1. [id |-> i, bucket |-> b] \in Config
    BY DEF Config
  <2> QED
    BY <1>2, <1>4, <2>1 DEF Given
<1>5. StoresOK'
  <2>1. ASSUME NEW r \in Requests, pc[r] = "configured"
        PROVE  seen'[user[r]][got[r]] >= 0
    <3>1. user[r] \in Users /\ got[r] \in Config /\ seen[user[r]][got[r]] >= 0
      BY <2>1 DEF CacheInv, StoresOK, InstancesOK, RequestsOK, TypeOK
    <3> QED
      BY <1>2, <3>1
  <2>2. \A rep \in Replicas, u \in Users :
          instance[rep][u] # None => instance[rep][u] \in Buckets /\ Given(u, instance[rep][u])
    BY DEF CacheInv, StoresOK, InstancesOK, RequestsOK, TypeOK
  <2>3. \A rep \in Replicas, u \in Users :
          instance[rep][u] # None => Given(u, instance[rep][u])'
    BY <1>4, <2>2 DEF Given
  <2>4. InstancesOK'
    BY <2>3 DEF InstancesOK, Given
  <2>5. ASSUME NEW r \in Requests, acted[r] # None
        PROVE  seen'[user[r]][got[r]] >= 0
    <3>1. user[r] \in Users /\ got[r] \in Config /\ seen[user[r]][got[r]] >= 0
      BY <2>5 DEF CacheInv, StoresOK, InstancesOK, RequestsOK, TypeOK
    <3> QED
      BY <1>2, <3>1
  <2> QED
    <3>1. RequestsOK'
      BY <2>1, <2>5 DEF CacheInv, StoresOK, InstancesOK, RequestsOK
    <3> QED
      BY <2>4, <3>1 DEF StoresOK
<1>6. BucketWasGiven'
  <2>1. ASSUME NEW r \in Requests, acted[r] # None
        PROVE  Given(got[r].id, acted[r])'
    <3>1. acted[r] \in Buckets /\ got[r].id \in Users /\ Given(got[r].id, acted[r])
      BY <2>1 DEF CacheInv, StoresOK, InstancesOK, RequestsOK, TypeOK, BucketWasGiven, Config
    <3> QED
      BY <1>4, <3>1 DEF Given
  <2> QED
    BY <2>1 DEF BucketWasGiven
<1> QED
  BY <1>1, <1>3, <1>5, <1>6 DEF CacheInv

LEMMA RestartStep ==
  ASSUME CacheInv, NEW rep \in Replicas, Restart(rep)
  PROVE  CacheInv' /\ \A r \in Requests : pc[r] = "idle" => pc'[r] = "idle"
<1>0. TypeOK /\ TypeOK'
  BY NextType DEF CacheInv, Next
<1>1. SeenOK' /\ BucketWasGiven'
  BY DEF Restart, CacheInv, SeenOK, BucketWasGiven, Given, Load, LoadFromFile, LoadFromEnv
<1>2. \A q \in Replicas, u \in Users :
        cache'[q][u] \in {None, cache[q][u]} /\ instance'[q][u] \in {None, instance[q][u]}
  BY <1>0 DEF Restart, TypeOK
<1>3. EntriesOK'
  BY <1>2 DEF Restart, CacheInv, EntriesOK, EntryOK
<1>4. \A r \in Requests : pc'[r] = pc[r] \/ (pc'[r] = "lost" /\ pc[r] = "configured")
  BY DEF Restart
<1>5. StoresOK'
  BY <1>2, <1>4 DEF Restart, CacheInv, StoresOK, InstancesOK, RequestsOK, Given
<1> QED
  BY <1>0, <1>1, <1>3, <1>4, <1>5 DEF CacheInv

LEMMA NextCache ==
  ASSUME CacheInv, [Next]_vars
  PROVE  /\ CacheInv'
         /\ \A r \in Requests : Answers(r) =>
              LET at == seen[user'[r]][got'[r]] IN at >= 0 /\ at + Ttl >= now
<1>1. CASE UNCHANGED vars
  BY <1>1 DEF vars, CacheInv, TypeOK, SeenOK, EntriesOK, EntryOK, StoresOK, InstancesOK, RequestsOK,
              BucketWasGiven, Given, Load, LoadFromFile, LoadFromEnv, Answers
<1>2. ASSUME NEW r \in Requests, GetConfig(r)
      PROVE  /\ CacheInv'
             /\ \A s \in Requests : Answers(s) =>
                  LET at == seen[user'[s]][got'[s]] IN at >= 0 /\ at + Ttl >= now
  BY <1>2, GetStep DEF Answers, CacheInv, TypeOK
<1>3. ASSUME NEW r \in Requests, UseStore(r)
      PROVE  CacheInv' /\ \A s \in Requests : ~Answers(s)
  BY <1>3, UseStep DEF Answers, CacheInv, TypeOK
<1>4. ASSUME NEW u \in Users, Deploy(u) PROVE CacheInv' /\ \A s \in Requests : ~Answers(s)
  <2>1. TypeOK'
    BY <1>4, NextType DEF CacheInv, Next
  <2>2. now' >= now /\ UNCHANGED <<cache, instance, pc, on, user, got, acted>> /\ seen' = Noted
    BY <1>4, TimeAssumption DEF Deploy, CacheInv, TypeOK
  <2> QED
    BY <2>1, <2>2, ForwardStep DEF Answers
<1>5. CASE Tick
  <2>1. TypeOK'
    BY <1>5, NextType DEF CacheInv, Next
  <2>2. now' >= now /\ UNCHANGED <<cache, instance, pc, on, user, got, acted>> /\ seen' = Noted
    BY <1>5, TimeAssumption DEF Tick, CacheInv, TypeOK
  <2>3. CacheInv'
    BY <2>1, <2>2, ForwardStep
  <2> QED
    BY <2>2, <2>3 DEF Answers
<1>6. ASSUME NEW rep \in Replicas, Restart(rep)
      PROVE  CacheInv' /\ \A s \in Requests : ~Answers(s)
  BY <1>6, RestartStep DEF Answers
<1> QED
  BY <1>1, <1>2, <1>3, <1>4, <1>5, <1>6 DEF Next, Quiesce

LEMMA InitCache == Init => CacheInv
<1> SUFFICES ASSUME Init PROVE CacheInv
  OBVIOUS
<1>1. files \in [Users -> Seq(Config \cup {Broken})]
  BY DeployAssumption DEF Init
<1>2. \A u \in Users : Load(u) \in Config \cup {None}
  BY <1>1, EnvAssumption DEF Load, LoadFromFile, LoadFromEnv
<1>3. SeenOK /\ seen \in [Users -> [Config \cup {None} -> -1 .. MaxTime]]
  BY <1>2, TimeAssumption DEF Init, SeenOK
<1>4. TypeOK
  BY <1>1, <1>3, TimeAssumption DEF Init, TypeOK
<1> QED
  BY <1>1, <1>3, <1>4 DEF Init, CacheInv, EntriesOK, EntryOK, StoresOK, InstancesOK, RequestsOK,
                              BucketWasGiven

(* No handler ever receives a config that stopped being the deployed one     *)
(* more than Ttl before.                                                     *)
THEOREM ConfigIsRecentAlways == Spec => ConfigIsRecent
<1>1. CacheInv /\ [Next]_vars =>
        [\A r \in Requests : Answers(r) =>
           LET at == seen[user'[r]][got'[r]] IN at >= 0 /\ at + Ttl >= now]_vars
  BY NextCache
<1>2. CacheInv /\ [Next]_vars => CacheInv'
  BY NextCache
<1> QED
  BY <1>1, <1>2, InitCache, PTL DEF Spec, ConfigIsRecent

(* The types of the caches and of what the replicas have noted, for any      *)
(* number of callers and replicas: every expiry is a time, every cached      *)
(* entry a config or the note that none was found.                           *)
THEOREM CacheTypes == Spec => []TypeOK
<1>1. CacheInv /\ [Next]_vars => CacheInv'
  BY NextCache
<1>2. CacheInv => TypeOK
  BY DEF CacheInv
<1> QED
  BY <1>1, <1>2, InitCache, PTL DEF Spec

(* A request only works in a bucket that some config gave to the client id   *)
(* its own config holds, whatever ids the deployed files hold.               *)
THEOREM BucketWasGivenAlways == Spec => []BucketWasGiven
<1>1. CacheInv /\ [Next]_vars => CacheInv'
  BY NextCache
<1>2. CacheInv => BucketWasGiven
  BY DEF CacheInv
<1> QED
  BY <1>1, <1>2, InitCache, PTL DEF Spec

(* So a caller works in buckets that its own config gave it, unless a file    *)
(* named after someone else has held its client id, or its own file another. *)
THEOREM OwnBucketAlways == Spec => []OwnBucketOnly
<1>1. CacheInv /\ [Next]_vars => CacheInv'
  BY NextCache
<1>2. CacheInv => OwnBucketOnly
  <2> SUFFICES ASSUME CacheInv, NEW r \in Requests, acted[r] # None, IdIsPrivate(user[r])
               PROVE  seen[user[r]][[id |-> user[r], bucket |-> acted[r]]] >= 0
    BY DEF OwnBucketOnly
  <2>1. /\ user[r] \in Users /\ got[r] \in Config /\ acted[r] \in Buckets
        /\ seen[user[r]][got[r]] >= 0
    BY DEF CacheInv, StoresOK, InstancesOK, RequestsOK, TypeOK
  <2>2. got[r].id = user[r]
    BY <2>1 DEF IdIsPrivate
  <2>3. PICK u \in Users : seen[u][[id |-> user[r], bucket |-> acted[r]]] >= 0
    BY <2>2 DEF CacheInv, BucketWasGiven, Given
  <2>4. [id |-> user[r], bucket |-> acted[r]] \in Config
    BY <2>1 DEF Config
  <2>5. u = user[r]
    BY <2>3, <2>4 DEF IdIsPrivate
  <2> QED
    BY <2>3, <2>5
<1> QED
  BY <1>1, <1>2, InitCache, PTL DEF Spec

(* A request is answered only by getting its config. *)
LEMMA AnswersGet ==
  ASSUME CacheInv, [Next]_vars, NEW r \in Requests, Answers(r)
  PROVE  GetConfig(r)
<1>1. ASSUME NEW s \in Requests, GetConfig(s) \/ UseStore(s)
      PROVE  GetConfig(r)
  <2>1. pc' = [pc EXCEPT ![s] = pc'[s]] /\ (UseStore(s) => pc[s] # "idle")
    BY <1>1, GetStep, UseStep DEF CacheInv, TypeOK
  <2>2. s = r
    BY <2>1 DEF Answers, CacheInv, TypeOK
  <2> QED
    BY <1>1, <2>1, <2>2 DEF Answers
<1>2. ASSUME NEW rep \in Replicas, Restart(rep)
      PROVE  FALSE
  BY <1>2 DEF Restart, Answers
<1>3. ASSUME NEW u \in Users, Deploy(u)
      PROVE  FALSE
  BY <1>3 DEF Deploy, Answers
<1>4. CASE Tick \/ Quiesce \/ UNCHANGED vars
  BY <1>4 DEF Tick, Quiesce, vars, Answers
<1> QED
  BY <1>1, <1>2, <1>3, <1>4 DEF Next

LEMMA RefusalStep ==
  ASSUME CacheInv, [Next]_vars, NEW r \in Requests, Answers(r), pc'[r] = "refused"
  PROVE  Load(user'[r]) = None
<1>1. TypeOK /\ GetConfig(r)
  BY AnswersGet DEF CacheInv
<1>2. PICK rep \in Replicas, u \in Users, c \in Config \cup {None} :
        /\ c = ConfigOf(cache[rep][u], u)
        /\ user' = [user EXCEPT ![r] = u]
        /\ pc' = [pc EXCEPT ![r] = IF c = None THEN "refused" ELSE "configured"]
  BY <1>1, GetEffect
<1>3. user'[r] = u /\ c = None
  BY <1>1, <1>2 DEF TypeOK
<1>4. Load(u) = None
  BY <1>2, <1>3 DEF ConfigOf
<1> QED
  BY <1>3, <1>4

(* No caller is refused for a config that was missing earlier: a lookup that *)
(* found nothing leaves an entry which the next request does not trust.      *)
THEOREM RefusalIsCurrentAlways == Spec => RefusalIsCurrent
<1>1. CacheInv /\ [Next]_vars =>
        [\A r \in Requests : Answers(r) /\ pc'[r] = "refused" => Load(user'[r]) = None]_vars
  BY RefusalStep
<1>2. CacheInv /\ [Next]_vars => CacheInv'
  BY NextCache
<1> QED
  BY <1>1, <1>2, InitCache, PTL DEF Spec, RefusalIsCurrent

=============================================================================
