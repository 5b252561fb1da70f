-------------------------- MODULE SharedCacheProofs --------------------------
(***************************************************************************)
(* A shared cache in front of the catalogue, for any list of allowed       *)
(* origins, any max-age and any number of caches: seen from the API it is  *)
(* a client like any other, and it never hands the grant of one origin to  *)
(* another.                                                                *)
(***************************************************************************)
EXTENDS SharedCache, CatalogApiProofs

(* ------------------- a cache is a client of the API -------------------- *)

LEMMA CacheStepIsApiStep ==
    ASSUME [CacheNext]_cacheVars
    PROVE  [ApiNext]_apiVars
<1>1. CASE Beside
  BY <1>1 DEF Beside, ApiNext
<1>2. ASSUME NEW c \in Client, Fill(c) \/ Drop(c) PROVE ApiNext
  BY <1>2 DEF Fill, Drop, ApiNext
<1>3. ASSUME NEW c \in Client, NEW origin, Forward(c, origin) \/ Revalidate(c, origin)
      PROVE  ApiNext
  BY <1>3 DEF Forward, Revalidate, ApiNext
<1>4. CASE UNCHANGED cacheVars
  BY <1>4 DEF cacheVars
<1> QED BY <1>1, <1>2, <1>3, <1>4 DEF CacheNext

(* What a cache does to the API and its tables is what some client does, so  *)
(* that all that is proved of the API holds with caches in front of it.      *)
THEOREM CacheIsClient == CacheSpec => ApiSpec
<1>1. CacheInit => ApiInit
  BY DEF CacheInit
<1>2. [CacheNext]_cacheVars => [ApiNext]_apiVars
  BY CacheStepIsApiStep
<1> QED BY <1>1, <1>2, PTL DEF CacheSpec, ApiSpec

(* In particular a settled copy, in whichever cache, is validated by its     *)
(* ETag only while the table still holds what it says, and by its date too   *)
(* if it has rows.                                                           *)
THEOREM CachedCopyTrue ==
    ASSUME IsFiniteSet(Object)
    PROVE  CacheSpec => []SettledCopyIsCurrent
BY CacheIsClient, SettledCopyTrue, PTL

(* --------------------------- grants of origins ------------------------- *)

(* A stored grant comes with a Vary and belongs to the origin it names. *)
GrantInv ==
    /\ headers = [c \in Client |->
          [allow |-> headers[c].allow, vary |-> headers[c].vary,
           origin |-> headers[c].origin, at |-> headers[c].at]]
    /\ \A c \in Client :
          headers[c].allow # NoOrigin => headers[c].vary /\ headers[c].origin = headers[c].allow

LEMMA GrantInit == CacheInit => GrantInv
BY DEF CacheInit, GrantInv, NoHeaders

(* The header set of one cache is replaced by one that keeps the invariant.  *)
LEMMA GrantKept ==
    ASSUME GrantInv, NEW c \in Client, NEW allow, NEW vary, NEW origin, NEW at,
           allow # NoOrigin => vary /\ origin = allow,
           headers' = [headers EXCEPT ![c] =
               [allow |-> allow, vary |-> vary, origin |-> origin, at |-> at]]
    PROVE  GrantInv'
<1> DEFINE new == [allow |-> allow, vary |-> vary, origin |-> origin, at |-> at]
<1>1. headers'[c] = new /\ \A d \in Client \ {c} : headers'[d] = headers[d]
  BY DEF GrantInv
<1>2. headers' = [d \in Client |-> headers'[d]]
  BY DEF GrantInv
<1>3. \A d \in Client : headers'[d] = [allow |-> headers'[d].allow, vary |-> headers'[d].vary,
                                       origin |-> headers'[d].origin, at |-> headers'[d].at]
  <2>1. new = [allow |-> new.allow, vary |-> new.vary, origin |-> new.origin, at |-> new.at]
    OBVIOUS
  <2>2. \A d \in Client : headers[d] = [allow |-> headers[d].allow, vary |-> headers[d].vary,
                                        origin |-> headers[d].origin, at |-> headers[d].at]
    BY DEF GrantInv
  <2> HIDE DEF new
  <2> QED BY <1>1, <2>1, <2>2
<1>4. \A d \in Client :
         headers'[d].allow # NoOrigin => headers'[d].vary /\ headers'[d].origin = headers'[d].allow
  <2>1. new.allow # NoOrigin => new.vary /\ new.origin = new.allow
    OBVIOUS
  <2> HIDE DEF new
  <2> QED BY <1>1, <2>1 DEF GrantInv
<1> QED BY <1>2, <1>3, <1>4 DEF GrantInv

LEMMA GrantStep ==
    ASSUME GrantInv, [CacheNext]_cacheVars
    PROVE  GrantInv'
<1>1. CASE UNCHANGED headers
  BY <1>1 DEF GrantInv
<1>2. ASSUME NEW c \in Client, Fill(c) PROVE GrantInv'
  <2> DEFINE cors == CorsHeaders(requester[c])
  <2>1. headers' = [headers EXCEPT ![c] =
           [allow |-> cors.allow, vary |-> cors.vary, origin |-> requester[c], at |-> now]]
    BY <1>2 DEF Fill
  <2>2. cors.allow # NoOrigin => cors.vary /\ requester[c] = cors.allow
    BY DEF CorsHeaders
  <2> HIDE DEF cors
  <2> QED BY <2>1, <2>2, GrantKept
<1>3. ASSUME NEW c \in Client, NEW origin, Revalidate(c, origin) PROVE GrantInv'
  <2>1. CASE CorsHeaders(origin).vary
    <3>1. headers' = [headers EXCEPT ![c] =
             [allow |-> origin, vary |-> TRUE, origin |-> origin, at |-> now]]
      BY <1>3, <2>1 DEF Revalidate
    <3> QED BY <3>1, GrantKept
  <2>2. CASE ~ CorsHeaders(origin).vary
    <3> DEFINE h == headers[c]
    <3>1. headers' = [headers EXCEPT ![c] = [h EXCEPT !.at = now]]
      BY <1>3, <2>2 DEF Revalidate
    <3>2. h = [allow |-> h.allow, vary |-> h.vary, origin |-> h.origin, at |-> h.at]
      BY DEF GrantInv
    <3>3. [h EXCEPT !.at = now] = [allow |-> h.allow, vary |-> h.vary, origin |-> h.origin, at |-> now]
      <4> HIDE DEF h
      <4> QED BY <3>2
    <3>4. h.allow # NoOrigin => h.vary /\ h.origin = h.allow
      BY DEF GrantInv
    <3>5. headers' = [headers EXCEPT ![c] =
             [allow |-> h.allow, vary |-> h.vary, origin |-> h.origin, at |-> now]]
      BY <3>1, <3>3
    <3> HIDE DEF h
    <3> QED BY <3>4, <3>5, GrantKept
  <2> QED BY <2>1, <2>2
<1> QED BY <1>1, <1>2, <1>3 DEF CacheNext, cacheVars, Beside, Drop, Forward

(* Through fills, refreshes by other pages' requests and expiry, an answer   *)
(* that names an origin is handed to that origin only.                       *)
THEOREM GrantsStayHome == CacheSpec => []GrantsReachTheirOrigin
<1>1. GrantInv /\ [CacheNext]_cacheVars => GrantInv'
  BY GrantStep
<1>2. GrantInv => GrantsReachTheirOrigin
  BY DEF GrantInv, GrantsReachTheirOrigin, Reusable, Matches
<1> QED BY <1>1, <1>2, GrantInit, PTL DEF CacheSpec
=============================================================================
