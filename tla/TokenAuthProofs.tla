--------------------------- MODULE TokenAuthProofs ---------------------------
(***************************************************************************)
(* For every set of keys and every Ttl: a key the provider has withdrawn    *)
(* stops working within Ttl.  The invariant says that what the cache holds  *)
(* was true at most Ttl before its expiry.                                  *)
(***************************************************************************)
EXTENDS TokenAuth, TLAPS

(* last is the time each key was published last. *)
LastOK == /\ \A k \in Keys : last[k] <= now
          /\ \A k \in published : last[k] = now

(* Every key in the cache was published Ttl before the entry's expiry, or    *)
(* later.                                                                   *)
Recent(entry) == entry.reply \in SUBSET Keys
                   => \A k \in entry.reply : last[k] + Ttl >= entry.expires

AuthInv == TypeOK /\ LastOK /\ Recent(jwks)

(* One use of a cache whose entry is as it should be leaves it so. *)
LEMMA KeptType ==
  ASSUME NEW entry, entry.expires \in 0 .. MaxTime + Ttl, now \in 0 .. MaxTime,
         NEW reply
  PROVE  Kept(entry, reply).reply = reply
         /\ Kept(entry, reply).expires \in 0 .. MaxTime + Ttl
<1>1. now + Ttl \in 0 .. MaxTime + Ttl /\ 0 \in 0 .. MaxTime + Ttl
  BY TimeAssumption
<1>2. Expiry(entry) \in 0 .. MaxTime + Ttl
  BY <1>1 DEF Expiry
<1>3. CASE reply = None
  <2>1. Kept(entry, reply) = [reply |-> None, expires |-> 0]
    BY <1>3 DEF Kept, Empty
  <2> QED
    BY <1>1, <1>3, <2>1
<1>4. CASE reply # None
  <2>1. Kept(entry, reply) = [reply |-> reply, expires |-> Expiry(entry)]
    BY <1>4 DEF Kept
  <2> QED
    BY <1>2, <2>1
<1> QED
  BY <1>3, <1>4

(* What the provider said goes to the cache with the time it is good for,    *)
(* what the cache said stays as it was.                                      *)
LEMMA KeptRecent ==
  ASSUME AuthInv, NEW reply, Gives(jwks, published, reply)
  PROVE  Recent(Kept(jwks, reply))
<1>1. SUFFICES ASSUME Kept(jwks, reply).reply \in SUBSET Keys,
                      NEW k \in Kept(jwks, reply).reply
               PROVE  last[k] + Ttl >= Kept(jwks, reply).expires
  BY DEF Recent
<1>2. reply # None
  BY <1>1, NoneAssumption DEF Kept, Empty
<1>3. Kept(jwks, reply) = [reply |-> reply, expires |-> Expiry(jwks)]
  BY <1>2 DEF Kept
<1>4. reply \in SUBSET Keys /\ k \in reply
  BY <1>1, <1>3
<1>5. CASE Live(jwks)
  <2>1. reply = jwks.reply /\ Expiry(jwks) = jwks.expires
    BY <1>5 DEF Gives, Expiry
  <2> QED
    BY <1>3, <1>4, <2>1 DEF AuthInv, Recent
<1>6. CASE ~Live(jwks)
  <2>1. reply = published
    BY <1>2, <1>4, <1>6, NoneAssumption DEF Gives
  <2>2. last[k] = now /\ Expiry(jwks) = now + Ttl
    BY <1>4, <1>6, <2>1 DEF AuthInv, LastOK, Expiry
  <2>3. now \in Int
    BY DEF AuthInv, TypeOK
  <2> QED
    BY <1>3, <2>2, <2>3, TimeAssumption
<1> QED
  BY <1>5, <1>6

LEMMA InitAuth == Init => AuthInv
<1> SUFFICES ASSUME Init PROVE AuthInv
  OBVIOUS
<1>1. Empty.reply = None /\ Empty.expires = 0
  BY DEF Empty
<1>2. 0 \in 0 .. MaxTime + Ttl /\ 0 \in 0 .. MaxTime /\ -1 \in -1 .. MaxTime /\ 0 \in -1 .. MaxTime
  BY TimeAssumption
<1>3. TypeOK
  BY <1>1, <1>2 DEF Init, TypeOK
<1>4. LastOK
  BY DEF Init, LastOK
<1>5. Recent(jwks)
  BY <1>1, NoneAssumption DEF Init, Recent
<1> QED
  BY <1>3, <1>4, <1>5 DEF AuthInv

(* Only time and rotations touch what is published, and they keep it noted.  *)
LEMMA ProviderStep ==
  ASSUME AuthInv, TypeOK', jwks' = jwks,
         now' >= now, now' \in Int,
         last' = [k \in Keys |-> IF k \in published' THEN now' ELSE last[k]]
  PROVE  AuthInv'
<1>1. \A k \in Keys : last[k] \in Int /\ last'[k] \in Int /\ last[k] <= now /\ last'[k] >= last[k]
  BY DEF AuthInv, TypeOK, LastOK
<1>2. LastOK'
  BY DEF AuthInv, TypeOK, LastOK
<1>3. jwks.expires \in Int /\ Ttl \in Int
  BY TimeAssumption DEF AuthInv, TypeOK
<1>4. Recent(jwks)'
  BY <1>1, <1>3 DEF AuthInv, Recent
<1> QED
  BY <1>2, <1>4 DEF AuthInv

(* The process touches neither. *)
LEMMA ProcessStep ==
  ASSUME AuthInv, TypeOK', Recent(jwks'), UNCHANGED <<published, now, last>>
  PROVE  AuthInv'
BY DEF AuthInv, LastOK, Recent

LEMMA NextType == TypeOK /\ [Next]_vars => TypeOK'
<1> SUFFICES ASSUME TypeOK, [Next]_vars PROVE TypeOK'
  OBVIOUS
<1>0. /\ now \in 0 .. MaxTime
      /\ oidc.expires \in 0 .. MaxTime + Ttl /\ jwks.expires \in 0 .. MaxTime + Ttl
  BY DEF TypeOK
<1>1. 0 \in 0 .. MaxTime /\ now \in -1 .. MaxTime /\ 0 \in 0 .. MaxTime + Ttl
  BY <1>0, TimeAssumption
<1>2. Empty.reply = None /\ Empty.expires = 0
  BY DEF Empty
<1>3. CASE Authenticate
  <2>1. PICK t \in Tokens \cup {Absent, OtherScheme} :
          CASE t = Absent      -> End("anonymous")
            [] t = OtherScheme -> End("401")
            [] OTHER           -> token' = t /\ pc' = "oidc" /\ verdict' = "none"
    BY <1>3 DEF Authenticate
  <2>2. /\ token' \in Tokens \cup {Absent, OtherScheme} /\ pc' \in {"idle", "oidc"}
        /\ verdict' \in {"none", "anonymous", "401"}
    BY <2>1 DEF End
  <2> QED
    BY <1>3, <2>2 DEF Authenticate, TypeOK
<1>4. CASE FetchOidcConfig
  <2>1. PICK reply \in {Oidc, {Junk}, None} :
          /\ oidc' = Kept(oidc, reply) /\ Noted(oidc, reply)
          /\ IF reply = Oidc THEN pc' = "jwks" /\ UNCHANGED <<verdict, token>> ELSE End("401")
    BY <1>4 DEF FetchOidcConfig
  <2>2. oidc'.reply \in {Oidc, {Junk}, None} /\ oidc'.expires \in 0 .. MaxTime + Ttl
    BY <1>0, <2>1, KeptType
  <2>3. failed' \in -1 .. MaxTime
    BY <1>1, <2>1 DEF Noted, TypeOK
  <2>4. /\ token' \in Tokens \cup {Absent, OtherScheme} /\ pc' \in {"idle", "jwks"}
        /\ verdict' \in {"none", "anonymous", "user", "401", "403", "500"}
    BY <2>1 DEF End, TypeOK
  <2> QED
    BY <1>4, <2>2, <2>3, <2>4 DEF FetchOidcConfig, TypeOK
<1>5. CASE ValidateToken
  <2>1. PICK reply \in {None, {Junk}, published} \cup {jwks.reply} :
          /\ jwks' = Kept(jwks, reply) /\ Noted(jwks, reply)
          /\ End(IF reply = None THEN "401" ELSE VerdictOn(reply, token))
    BY <1>5 DEF ValidateToken
  <2>2. reply \in {None, {Junk}} \cup SUBSET Keys
    BY <2>1 DEF TypeOK
  <2>3. jwks'.reply \in {None, {Junk}} \cup SUBSET Keys /\ jwks'.expires \in 0 .. MaxTime + Ttl
    BY <1>0, <2>1, <2>2, KeptType
  <2>4. failed' \in -1 .. MaxTime
    BY <1>1, <2>1 DEF Noted, TypeOK
  <2>5. VerdictOn(reply, token) \in {"user", "401", "403", "500"}
    BY DEF VerdictOn
  <2>6. /\ token' = Absent /\ pc' = "idle"
        /\ verdict' \in {"none", "anonymous", "user", "401", "403", "500"}
    BY <2>1, <2>5 DEF End
  <2> QED
    BY <1>5, <2>3, <2>4, <2>6 DEF ValidateToken, TypeOK
<1>6. CASE ReportStatus
  <2>1. PICK reply \in {Oidc, {Junk}, None} :
          /\ oidc' = Kept(oidc, reply) /\ Noted(oidc, reply)
    BY <1>6 DEF ReportStatus
  <2>2. oidc'.reply \in {Oidc, {Junk}, None} /\ oidc'.expires \in 0 .. MaxTime + Ttl
    BY <1>0, <2>1, KeptType
  <2>3. failed' \in -1 .. MaxTime
    BY <1>1, <2>1 DEF Noted, TypeOK
  <2> QED
    BY <1>6, <2>1, <2>2, <2>3 DEF ReportStatus, TypeOK
<1>7. CASE Rotate
  <2>1. PICK keys \in SUBSET Keys \ {published, {}} :
          /\ published' = keys
          /\ since' = [k \in Keys |-> CASE k \notin keys -> 0
                                        [] k \in keys \ published -> now
                                        [] OTHER -> since[k]]
          /\ last' = [k \in Keys |-> IF k \in keys THEN now ELSE last[k]]
    BY <1>7 DEF Rotate
  <2>2. since' \in [Keys -> 0 .. MaxTime] /\ last' \in [Keys -> -1 .. MaxTime]
    BY <1>0, <1>1, <2>1 DEF TypeOK
  <2> QED
    BY <1>7, <2>1, <2>2 DEF Rotate, TypeOK
<1>8. CASE Tick
  <2>1. now' \in 0 .. MaxTime /\ now' \in -1 .. MaxTime
    BY <1>0, <1>8, TimeAssumption DEF Tick
  <2>2. last' \in [Keys -> -1 .. MaxTime]
    BY <1>8, <2>1 DEF Tick, TypeOK
  <2> QED
    BY <1>8, <2>1, <2>2 DEF Tick, TypeOK
<1>9. CASE Restart
  BY <1>1, <1>2, <1>9 DEF Restart, End, TypeOK
<1>10. CASE UNCHANGED vars
  BY <1>10 DEF vars, TypeOK
<1> QED
  BY <1>3, <1>4, <1>5, <1>6, <1>7, <1>8, <1>9, <1>10 DEF Next

LEMMA NextAuth == AuthInv /\ [Next]_vars => AuthInv'
<1> SUFFICES ASSUME AuthInv, [Next]_vars PROVE AuthInv'
  OBVIOUS
<1>1. TypeOK'
  BY NextType DEF AuthInv
<1>2. now \in Int /\ last \in [Keys -> -1 .. MaxTime]
  BY DEF AuthInv, TypeOK
<1>3. CASE ValidateToken
  <2>1. PICK reply : Gives(jwks, published, reply) /\ jwks' = Kept(jwks, reply)
    BY <1>3 DEF ValidateToken
  <2>2. Recent(jwks')
    BY <2>1, KeptRecent
  <2>3. UNCHANGED <<published, now, last>>
    BY <1>3 DEF ValidateToken
  <2> QED
    BY <1>1, <2>2, <2>3, ProcessStep
<1>4. CASE Rotate
  <2>1. jwks' = jwks /\ now' = now
    BY <1>4 DEF Rotate
  <2>2. last' = [k \in Keys |-> IF k \in published' THEN now' ELSE last[k]]
    BY <1>4, <2>1 DEF Rotate
  <2> QED
    BY <1>1, <1>2, <2>1, <2>2, ProviderStep
<1>5. CASE Tick
  <2>1. jwks' = jwks /\ published' = published /\ now' = now + 1
    BY <1>5 DEF Tick
  <2>2. last' = [k \in Keys |-> IF k \in published' THEN now' ELSE last[k]]
    BY <1>5, <2>1 DEF Tick
  <2> QED
    BY <1>1, <1>2, <2>1, <2>2, ProviderStep
<1>6. CASE Restart
  <2>1. jwks' = Empty /\ UNCHANGED <<published, now, last>>
    BY <1>6 DEF Restart
  <2>2. Recent(jwks')
    BY <2>1, NoneAssumption DEF Recent, Empty
  <2> QED
    BY <1>1, <2>1, <2>2, ProcessStep
<1>7. CASE Authenticate \/ FetchOidcConfig \/ ReportStatus \/ UNCHANGED vars
  <2>1. jwks' = jwks /\ UNCHANGED <<published, now, last>>
    BY <1>7 DEF Authenticate, FetchOidcConfig, ReportStatus, vars
  <2>2. Recent(jwks')
    BY <2>1 DEF AuthInv
  <2> QED
    BY <1>1, <2>1, <2>2, ProcessStep
<1> QED
  BY <1>3, <1>4, <1>5, <1>6, <1>7 DEF Next

(* The keys a token is accepted with were live in the cache or came straight *)
(* from the provider.                                                        *)
LEMMA AcceptStep ==
  ASSUME AuthInv, [Next]_vars, Ends, verdict' = "user"
  PROVE  last[token.kid] + Ttl > now
<1>1. ValidateToken
  BY DEF Ends, Next, Authenticate, FetchOidcConfig, ReportStatus, Rotate, Tick, Restart, End, vars
<1>2. PICK reply \in {None, {Junk}, published} \cup {jwks.reply} :
        /\ Gives(jwks, published, reply)
        /\ verdict' = IF reply = None THEN "401" ELSE VerdictOn(reply, token)
  BY <1>1 DEF ValidateToken, End
<1>3. reply # None /\ VerdictOn(reply, token) = "user"
  BY <1>2
<1>4. reply # {Junk} /\ token.kid \in reply
  BY <1>3 DEF VerdictOn
<1>5. reply \in SUBSET Keys
  BY <1>2, <1>3, <1>4 DEF AuthInv, TypeOK
<1>6. now \in Int /\ jwks.expires \in Int /\ Ttl \in Nat \ {0} /\ last[token.kid] \in Int
  BY <1>4, <1>5, TimeAssumption DEF AuthInv, TypeOK
<1>7. CASE Live(jwks)
  <2>1. reply = jwks.reply /\ now < jwks.expires
    BY <1>2, <1>7 DEF Gives, Live
  <2>2. last[token.kid] + Ttl >= jwks.expires
    BY <1>4, <1>5, <2>1 DEF AuthInv, Recent
  <2> QED
    BY <1>6, <2>1, <2>2
<1>8. CASE ~Live(jwks)
  <2>1. reply = published
    BY <1>2, <1>3, <1>4, <1>8 DEF Gives
  <2>2. last[token.kid] = now
    BY <1>4, <2>1 DEF AuthInv, LastOK
  <2> QED
    BY <1>6, <2>2
<1> QED
  BY <1>7, <1>8

(* RetiredKeysLapse, for every set of keys, every Ttl and every rotation: a  *)
(* token is let in only with a key published less than Ttl ago.              *)
THEOREM RetiredKeysLapseAlways == Spec => RetiredKeysLapse
<1>1. AuthInv /\ [Next]_vars => [Ends /\ verdict' = "user" => last[token.kid] + Ttl > now]_vars
  BY AcceptStep
<1> QED
  BY <1>1, InitAuth, NextAuth, PTL DEF Spec, RetiredKeysLapse

(* The types, whatever the provider says and however often it rotates its    *)
(* keys: what the caches hold is a reply the provider may give, kept for at   *)
(* most Ttl.                                                                 *)
THEOREM TokenTypes == Spec => []TypeOK
<1>1. AuthInv => TypeOK
  BY DEF AuthInv
<1> QED
  BY <1>1, InitAuth, NextAuth, PTL DEF Spec

------------------------------------------------------------------------------
(* What the caches remember of failures and of keys they have missed. *)

(* A useless reply in a cache is a failure of the provider at most Ttl before *)
(* the entry's expiry.                                                       *)
FailureNoted(entry) ==
  entry.reply = {Junk} => failed >= 0 /\ failed + Ttl >= entry.expires

(* A key that is published and not in the cache was published later than the *)
(* cache was filled.                                                         *)
MissesOnlyNew(entry) ==
  entry.reply \in SUBSET Keys =>
    \A k \in published \ entry.reply : since[k] + Ttl >= entry.expires

SoundInv ==
  /\ failed <= now
  /\ FailureNoted(oidc) /\ oidc.expires <= now + Ttl
  /\ FailureNoted(jwks) /\ jwks.expires <= now + Ttl
  /\ MissesOnlyNew(jwks)

(* One use of a cache: what it gives and what is noted of it. *)
LEMMA UseNoted ==
  ASSUME TypeOK, failed <= now, NEW entry, entry.expires \in 0 .. MaxTime + Ttl,
         entry.expires <= now + Ttl, FailureNoted(entry),
         NEW reply, NEW fresh, fresh # {Junk}, fresh # None,
         Gives(entry, fresh, reply), Noted(entry, reply)
  PROVE  /\ failed' \in Int /\ failed' >= failed /\ failed' <= now
         /\ Kept(entry, reply).expires <= now + Ttl
         /\ Kept(entry, reply).reply = {Junk} =>
              failed' >= 0 /\ failed' + Ttl >= Kept(entry, reply).expires
         /\ reply \in {{Junk}, None} => failed' >= 0 /\ failed' + Ttl > now
<1>0. /\ now \in Int /\ now >= 0 /\ failed \in Int /\ Ttl \in Int /\ Ttl > 0
      /\ entry.expires \in Int
  BY TimeAssumption DEF TypeOK
<1>1. Kept(entry, reply).reply = reply
      /\ Kept(entry, reply).expires = IF reply = None THEN 0 ELSE Expiry(entry)
  <2>1. CASE reply = None
    BY <2>1 DEF Kept, Empty
  <2>2. CASE reply # None
    BY <2>2 DEF Kept
  <2> QED
    BY <2>1, <2>2
<1>2. CASE Live(entry)
  <2>1. reply = entry.reply /\ reply # None /\ now < entry.expires
        /\ Expiry(entry) = entry.expires
    BY <1>2 DEF Gives, Live, Expiry
  <2>2. failed' = failed
    BY <1>2 DEF Noted
  <2> QED
    BY <1>0, <1>1, <2>1, <2>2 DEF FailureNoted
<1>3. CASE ~Live(entry)
  <2>1. Expiry(entry) = now + Ttl
    BY <1>3 DEF Expiry
  <2>2. failed' = IF reply \in {{Junk}, None} THEN now ELSE failed
    BY <1>3 DEF Noted
  <2> QED
    BY <1>0, <1>1, <2>1, <2>2
<1> QED
  BY <1>2, <1>3

(* No reply of the provider's that is useful looks like one that is not.     *)
LEMMA UsefulReplies ==
  ASSUME TypeOK
  PROVE  /\ Oidc # {Junk} /\ Oidc # None /\ published # {Junk} /\ published # None
         /\ None \notin SUBSET Keys /\ {Junk} \notin SUBSET Keys
<1>1. published \in SUBSET Keys /\ Junk \notin Keys
  BY NoneAssumption DEF TypeOK
<1>2. Oidc # {Junk}
  BY DEF Oidc, Junk
<1>3. None \notin SUBSET (Keys \cup {Junk, "jwks_uri"})
  BY NoneAssumption
<1> QED
  BY <1>1, <1>2, <1>3 DEF Oidc

LEMMA SoundInit == Init => SoundInv
<1> SUFFICES ASSUME Init PROVE SoundInv
  OBVIOUS
<1>1. TypeOK /\ Empty.reply = None /\ Empty.expires = 0
  BY InitAuth DEF AuthInv, Empty
<1>2. None # {Junk} /\ None \notin SUBSET Keys
  BY NoneAssumption
<1> QED
  BY <1>1, <1>2, TimeAssumption DEF Init, SoundInv, FailureNoted, MissesOnlyNew

LEMMA SoundStep == TypeOK /\ SoundInv /\ [Next]_vars => SoundInv'
<1> SUFFICES ASSUME TypeOK, SoundInv, [Next]_vars PROVE SoundInv'
  OBVIOUS
<1>0. /\ now \in Int /\ now >= 0 /\ failed \in Int /\ Ttl \in Int /\ Ttl > 0
      /\ oidc.expires \in Int /\ jwks.expires \in Int
      /\ oidc.expires \in 0 .. MaxTime + Ttl /\ jwks.expires \in 0 .. MaxTime + Ttl
      /\ since \in [Keys -> 0 .. MaxTime] /\ published \in SUBSET Keys
  BY TimeAssumption DEF TypeOK
<1>1. CASE FetchOidcConfig \/ ReportStatus
  <2>1. PICK reply \in {Oidc, {Junk}, None} :
          Gives(oidc, Oidc, reply) /\ oidc' = Kept(oidc, reply) /\ Noted(oidc, reply)
    BY <1>1 DEF FetchOidcConfig, ReportStatus
  <2>2. UNCHANGED <<published, now, jwks, since>>
    BY <1>1 DEF FetchOidcConfig, ReportStatus
  <2>3. /\ failed' \in Int /\ failed' >= failed /\ failed' <= now
        /\ oidc'.expires <= now + Ttl
        /\ oidc'.reply = {Junk} => failed' >= 0 /\ failed' + Ttl >= oidc'.expires
    BY <1>0, <2>1, UseNoted, UsefulReplies DEF SoundInv
  <2> QED
    BY <1>0, <2>2, <2>3 DEF SoundInv, FailureNoted, MissesOnlyNew
<1>2. CASE ValidateToken
  <2>1. PICK reply \in {None, {Junk}, published} \cup {jwks.reply} :
          Gives(jwks, published, reply) /\ jwks' = Kept(jwks, reply) /\ Noted(jwks, reply)
    BY <1>2 DEF ValidateToken
  <2>2. UNCHANGED <<published, now, oidc, since>>
    BY <1>2 DEF ValidateToken
  <2>3. /\ failed' \in Int /\ failed' >= failed /\ failed' <= now
        /\ jwks'.expires <= now + Ttl
        /\ jwks'.reply = {Junk} => failed' >= 0 /\ failed' + Ttl >= jwks'.expires
    BY <1>0, <2>1, UseNoted, UsefulReplies DEF SoundInv
  <2>4. MissesOnlyNew(jwks')
    <3>1. CASE Live(jwks)
      <4>1. reply = jwks.reply /\ reply # None
        BY <2>1, <3>1 DEF Gives, Live
      <4>2. jwks'.reply = jwks.reply /\ jwks'.expires = jwks.expires
        BY <2>1, <3>1, <4>1 DEF Kept, Expiry
      <4> QED
        BY <4>2 DEF SoundInv, MissesOnlyNew
    <3>2. CASE ~Live(jwks)
      <4>1. reply \in {published, {Junk}, None}
        BY <2>1, <3>2 DEF Gives
      <4>2. jwks'.reply = reply
        BY <2>1 DEF Kept, Empty
      <4> QED
        BY <4>1, <4>2, UsefulReplies DEF MissesOnlyNew
    <3> QED
      BY <3>1, <3>2
  <2> QED
    BY <1>0, <2>2, <2>3, <2>4 DEF SoundInv, FailureNoted, MissesOnlyNew
<1>3. CASE Rotate
  <2>1. PICK keys \in SUBSET Keys :
          /\ published' = keys
          /\ since' = [k \in Keys |-> CASE k \notin keys -> 0
                                        [] k \in keys \ published -> now
                                        [] OTHER -> since[k]]
    BY <1>3 DEF Rotate
  <2>2. UNCHANGED <<now, oidc, jwks, failed>>
    BY <1>3 DEF Rotate
  <2>3. \A k \in keys : since'[k] = IF k \in published THEN since[k] ELSE now
    BY <2>1
  <2>4. MissesOnlyNew(jwks)'
    BY <1>0, <2>1, <2>2, <2>3 DEF SoundInv, MissesOnlyNew
  <2> QED
    BY <2>2, <2>4 DEF SoundInv, FailureNoted
<1>4. CASE Tick
  BY <1>0, <1>4 DEF Tick, SoundInv, FailureNoted, MissesOnlyNew
<1>5. CASE Restart
  <2>1. oidc'.reply = None /\ jwks'.reply = None /\ oidc'.expires = 0 /\ jwks'.expires = 0
    BY <1>5 DEF Restart, Empty
  <2>2. None # {Junk}
    BY NoneAssumption
  <2> QED
    BY <1>0, <1>5, <2>1, <2>2, UsefulReplies DEF Restart, SoundInv, FailureNoted, MissesOnlyNew
<1>6. CASE Authenticate \/ UNCHANGED vars
  BY <1>6 DEF Authenticate, vars, SoundInv, FailureNoted, MissesOnlyNew
<1> QED
  BY <1>1, <1>2, <1>3, <1>4, <1>5, <1>6 DEF Next

LEMMA PassStep ==
  ASSUME TypeOK, SoundInv, [Next]_vars, Ends, token.fault = "none",
         token.kid \in published, since[token.kid] + Ttl <= now
  PROVE  verdict' = "user" \/ (failed' >= 0 /\ failed' + Ttl > now)
<1>0. /\ now \in Int /\ Ttl \in Int /\ jwks.expires \in Int /\ token.kid \in Keys
      /\ since[token.kid] \in Int
      /\ oidc.expires \in 0 .. MaxTime + Ttl /\ jwks.expires \in 0 .. MaxTime + Ttl
  BY TimeAssumption DEF TypeOK
<1>1. FetchOidcConfig \/ ValidateToken
  BY DEF Ends, Next, Authenticate, ReportStatus, Rotate, Tick, Restart, End, vars
<1>2. CASE FetchOidcConfig
  <2>1. PICK reply \in {Oidc, {Junk}, None} :
          /\ Gives(oidc, Oidc, reply) /\ Noted(oidc, reply)
          /\ IF reply = Oidc THEN pc' = "jwks" /\ UNCHANGED <<verdict, token>> ELSE End("401")
    BY <1>2 DEF FetchOidcConfig
  <2>2. reply \in {{Junk}, None}
    BY <2>1 DEF Ends
  <2> QED
    BY <1>0, <2>1, <2>2, UseNoted, UsefulReplies DEF SoundInv
<1>3. CASE ValidateToken
  <2>1. PICK reply \in {None, {Junk}, published} \cup {jwks.reply} :
          /\ Gives(jwks, published, reply) /\ Noted(jwks, reply)
          /\ verdict' = IF reply = None THEN "401" ELSE VerdictOn(reply, token)
    BY <1>3 DEF ValidateToken, End
  <2>2. CASE reply \in {{Junk}, None}
    BY <1>0, <2>1, <2>2, UseNoted, UsefulReplies DEF SoundInv
  <2>3. CASE reply \notin {{Junk}, None}
    <3>1. token.kid \in reply
      <4>1. CASE Live(jwks)
        <5>1. reply = jwks.reply /\ now < jwks.expires
          BY <2>1, <4>1 DEF Gives, Live
        <5>2. reply \in SUBSET Keys
          BY <2>3, <5>1 DEF TypeOK
        <5> QED
          BY <1>0, <5>1, <5>2 DEF SoundInv, MissesOnlyNew
      <4>2. CASE ~Live(jwks)
        BY <2>1, <2>3, <4>2 DEF Gives
      <4> QED
        BY <4>1, <4>2
    <3>2. token.kid # NoKid
      BY <1>0, NoneAssumption
    <3>3. VerdictOn(reply, token) = "user"
      BY <2>3, <3>1, <3>2 DEF VerdictOn
    <3> QED
      BY <2>1, <2>3, <3>3
  <2> QED
    BY <2>2, <2>3
<1> QED
  BY <1>1, <1>2, <1>3

(* A sound token of a key that has been published for Ttl is refused only    *)
(* when the provider has failed less than Ttl ago: neither a rotation nor a  *)
(* useless reply is remembered for longer.                                   *)
THEOREM SoundTokensPassAlways == Spec => SoundTokensPass
<1>1. AuthInv => TypeOK
  BY DEF AuthInv
<1>2. TypeOK /\ SoundInv /\ [Next]_vars =>
        [(Ends /\ token.fault = "none" /\ token.kid \in published
          /\ since[token.kid] + Ttl <= now)
         => \/ verdict' = "user"
            \/ failed' >= 0 /\ failed' + Ttl > now]_vars
  BY PassStep
<1> QED
  BY <1>1, <1>2, InitAuth, NextAuth, SoundInit, SoundStep, PTL DEF Spec, SoundTokensPass

==============================================================================
