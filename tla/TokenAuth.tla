------------------------------ MODULE TokenAuth ------------------------------
(***************************************************************************)
(* BearerTokenAuthBackend in one process: a request is let in when its     *)
(* token is signed with a key the identity provider publishes.  The        *)
(* provider is asked for its configuration (OIDC) and its keys (JWKS), and *)
(* both replies are kept for Ttl (cachetools' TTLCache), whatever they     *)
(* say: a reply that is JSON but not what was asked for is kept as well.   *)
(* The provider rotates its keys, fails and recovers at any time.          *)
(*                                                                         *)
(* authenticate never yields to the event loop, so a process works on one  *)
(* token at a time; time passes while it waits for the provider.  Replicas *)
(* share nothing here, one is enough.  LOCAL_CONFIG_SKIP_AUTH, a switch for *)
(* local development, is off.                                              *)
(***************************************************************************)
EXTENDS Integers, FiniteSets

CONSTANTS
  Keys,     \* signing keys, present and future
  Ttl,      \* 3600 s in the code
  MaxTime,  \* bound on the clock
  NoKid,    \* a token whose header names no key
  None

ASSUME TimeAssumption == Ttl \in Nat \ {0} /\ MaxTime \in Nat

(* What is wrong with a token: nothing; it is no JWT; its time is over; its  *)
(* signature, its audience or issuer, its azp claim, its roles.              *)
Faults == {"none", "malformed", "expired", "signature", "claims", "noAzp", "noRole"}
Tokens == [kid : Keys \cup {NoKid}, fault : Faults]

(* Requests with no Authorization header, or one that is not a bearer's or   *)
(* has no token.                                                             *)
Absent == [kid |-> NoKid, fault |-> "absent"]
OtherScheme == [kid |-> NoKid, fault |-> "otherScheme"]

Junk == "junk"  \* a reply that is JSON but not what was asked for

ASSUME NoneAssumption == /\ NoKid \notin Keys /\ Junk \notin Keys
                         /\ \A keys \in SUBSET (Keys \cup {Junk, "jwks_uri"}) : None # keys

VARIABLES
  published,  \* the keys the provider publishes now
  now,
  oidc,       \* fetch_oidc_config's cache: None or [reply, expires]
  jwks,       \* fetch_jwks' cache: None or [reply, expires]
  pc, token,  \* the request being worked on
  verdict,    \* how the last one ended
  since,      \* history: since when a key is published, if it is
  last,       \* history: when a key was published last, -1 if never
  failed      \* history: when the provider failed us last, -1 if never

vars == <<published, now, oidc, jwks, pc, token, verdict, since, last, failed>>

------------------------------------------------------------------------------
(* TTLCache: an entry is there while the time is before its expiry, counted  *)
(* from when it was stored, not from when it was used.                       *)
Live(entry) == entry.reply # None /\ now < entry.expires

(* Mistakes: every use of an entry prolongs it; by Ttl each time. *)
ExpiryOnUse(entry) == now + Ttl
ExpiryAddsUp(entry) == entry.expires + Ttl
Expiry(entry) == IF Live(entry) THEN entry.expires ELSE now + Ttl

Empty == [reply |-> None, expires |-> 0]

(* One use of a cached fetch: from the cache, from the provider, or an       *)
(* exception, which caches nothing (reply None).                             *)
(* Mistake: entries are never dropped. *)
GivesForever(entry, fresh, reply) ==
  IF entry.reply # None THEN reply = entry.reply ELSE reply \in {fresh, {Junk}, None}
Gives(entry, fresh, reply) ==
  IF Live(entry) THEN reply = entry.reply ELSE reply \in {fresh, {Junk}, None}

Kept(entry, reply) ==
  IF reply = None THEN Empty ELSE [reply |-> reply, expires |-> Expiry(entry)]

Noted(entry, reply) ==
  failed' = IF ~Live(entry) /\ reply \in {{Junk}, None} THEN now ELSE failed

(* The one tenant's OIDC configuration is taken to be always the same. *)
Oidc == {"jwks_uri"}

------------------------------------------------------------------------------
(* authenticate, up to the call of validate_token. *)
End(v) == verdict' = v /\ pc' = "idle" /\ token' = Absent

Authenticate ==
  /\ pc = "idle"
  /\ \E t \in Tokens \cup {Absent, OtherScheme} :
       CASE t = Absent      -> End("anonymous")
         [] t = OtherScheme -> End("401")
         [] OTHER           -> token' = t /\ pc' = "oidc" /\ verdict' = "none"
  /\ UNCHANGED <<published, now, oidc, jwks, since, last, failed>>

FetchOidcConfig ==
  /\ pc = "oidc"
  /\ \E reply \in {Oidc, {Junk}, None} :
       /\ Gives(oidc, Oidc, reply)
       /\ oidc' = Kept(oidc, reply)
       /\ Noted(oidc, reply)
       /\ IF reply = Oidc THEN pc' = "jwks" /\ UNCHANGED <<verdict, token>> ELSE End("401")
  /\ UNCHANGED <<published, now, jwks, since, last>>

(* fetch_jwks, get_unverified_header, the search for the key, jwt.decode and *)
(* the claims, without a pause.  The search is outside the try: a reply with *)
(* no keys, or a header with no kid, raises a KeyError, which is a 500.      *)
VerdictOn(keys, t) ==
  CASE t.fault = "malformed"                                    -> "401"
    [] t.fault # "malformed" /\ (keys = {Junk} \/ t.kid = NoKid) -> "500"
    [] t.fault # "malformed" /\ keys # {Junk} /\ t.kid # NoKid
         /\ t.kid \notin keys                                   -> "401"
    [] OTHER -> CASE t.fault \in {"expired", "signature"}          -> "401"
                  [] t.fault \in {"claims", "noAzp", "noRole"}     -> "403"
                  [] OTHER                                         -> "user"

ValidateToken ==
  /\ pc = "jwks"
  /\ \E reply \in {None, {Junk}, published} \cup {jwks.reply} :
       /\ Gives(jwks, published, reply)
       /\ jwks' = Kept(jwks, reply)
       /\ Noted(jwks, reply)
       /\ End(IF reply = None THEN "401" ELSE VerdictOn(reply, token))
  /\ UNCHANGED <<published, now, oidc, since, last>>

(* AuthServiceStatusReporter: reachable if fetch_oidc_config returns, cached  *)
(* or not; what it leaves behind is the cache entry.                         *)
ReportStatus ==
  /\ pc = "idle"
  /\ \E reply \in {Oidc, {Junk}, None} :
       /\ Gives(oidc, Oidc, reply)
       /\ oidc' = Kept(oidc, reply)
       /\ Noted(oidc, reply)
  /\ UNCHANGED <<published, now, jwks, pc, token, verdict, since, last>>

------------------------------------------------------------------------------
(* Around the process *)
Rotate ==
  /\ \E keys \in SUBSET Keys \ {published, {}} :
       /\ published' = keys
       /\ since' = [k \in Keys |-> CASE k \notin keys -> 0 [] k \in keys \ published -> now [] OTHER -> since[k]]
       /\ last' = [k \in Keys |-> IF k \in keys THEN now ELSE last[k]]
  /\ UNCHANGED <<now, oidc, jwks, pc, token, verdict, failed>>

Tick ==
  /\ now < MaxTime
  /\ now' = now + 1
  /\ last' = [k \in Keys |-> IF k \in published THEN now' ELSE last[k]]
  /\ UNCHANGED <<published, oidc, jwks, pc, token, verdict, since, failed>>

Restart ==
  /\ oidc' = Empty /\ jwks' = Empty
  /\ End("none")
  /\ UNCHANGED <<published, now, since, last, failed>>

Init ==
  /\ published \in SUBSET Keys \ {{}}
  /\ now = 0
  /\ oidc = Empty /\ jwks = Empty
  /\ pc = "idle" /\ token = Absent /\ verdict = "none"
  /\ since = [k \in Keys |-> 0]
  /\ last = [k \in Keys |-> IF k \in published THEN 0 ELSE -1]
  /\ failed = -1

Next == Authenticate \/ FetchOidcConfig \/ ValidateToken \/ ReportStatus
          \/ Rotate \/ Tick \/ Restart

Spec == Init /\ [][Next]_vars

------------------------------------------------------------------------------
TypeOK ==
  /\ published \in SUBSET Keys \ {{}}
  /\ now \in 0 .. MaxTime
  /\ oidc.reply \in {None, {Junk}, Oidc} /\ oidc.expires \in 0 .. MaxTime + Ttl
  /\ jwks.reply \in {None, {Junk}} \cup SUBSET Keys /\ jwks.expires \in 0 .. MaxTime + Ttl
  /\ pc \in {"idle", "oidc", "jwks"}
  /\ token \in Tokens \cup {Absent, OtherScheme}
  /\ verdict \in {"none", "anonymous", "user", "401", "403", "500"}
  /\ since \in [Keys -> 0 .. MaxTime] /\ last \in [Keys -> -1 .. MaxTime]
  /\ failed \in -1 .. MaxTime

Ends == pc # "idle" /\ pc' = "idle" /\ verdict' # "none"

(* A token is let in only with a key that was published less than Ttl ago:   *)
(* a key the provider withdraws stops working within Ttl of its withdrawal,  *)
(* however busy the process is.                                              *)
RetiredKeysLapse ==
  [][Ends /\ verdict' = "user" => last[token.kid] + Ttl > now]_vars

(* A sound token signed with a key that has been published for Ttl or longer *)
(* is let in, unless the provider has failed us less than Ttl ago: neither a *)
(* rotation nor a failure is remembered for longer.                          *)
SoundTokensPass ==
  [][(Ends /\ token.fault = "none" /\ token.kid \in published
       /\ since[token.kid] + Ttl <= now)
     => \/ verdict' = "user"
        \/ failed' >= 0 /\ failed' + Ttl > now]_vars

==============================================================================
