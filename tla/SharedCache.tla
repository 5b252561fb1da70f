----------------------------- MODULE SharedCache -----------------------------
(***************************************************************************)
(* Browsers read the catalogue through a cache that obeys HTTP: "Cache-    *)
(* Control: public, max-age=86400" lets it answer for a day without        *)
(* asking, a Vary header restricts a stored answer to requests with the    *)
(* same Origin, and a 304 refreshes the headers of what is stored.  Each   *)
(* client of CatalogApi is such a cache, one stored answer at a time, be   *)
(* it a proxy or the browser's own.                                        *)
(*                                                                         *)
(* CorsMiddleware::after_handle adds the CORS headers to every answer      *)
(* according to the Origin of the request that the answer is for.          *)
(***************************************************************************)
EXTENDS CatalogApi, Sequences

CONSTANTS
    Origin,             \* origins of pages whose scripts read the catalogue
    DefaultOrigin,      \* the list compiled in
    CorsAllowedOrigins, \* the environment variable: its items, trimmed, or Unset
    Unset,              \* it is not there, or empty
    Blank,              \* an item of blanks only
    NoOrigin,           \* no Origin header, or no Access-Control-Allow-Origin
    MaxAge              \* max-age, in ticks of the clock

ASSUME OriginAssumption == NoOrigin \notin Origin /\ DefaultOrigin \subseteq Origin
ASSUME MaxAgeAssumption == MaxAge \in Nat \ {0}

VARIABLES
    requester,          \* the Origin header of the request each cache has in the handler
    headers             \* of each cache's copy: what CORS adds, whose request, how old

cacheVars == <<apiVars, requester, headers>>

-----------------------------------------------------------------------------
(* parse_origin_list: items of blanks are dropped. *)
ParseOriginList(items) == {items[i] : i \in DOMAIN items} \ {Blank}

(* allowed_origins_from_env: the defaults count only if nothing was set. *)
AllowedOrigins ==
    IF CorsAllowedOrigins = Unset THEN DefaultOrigin ELSE ParseOriginList(CorsAllowedOrigins)

OriginAllowed(origin) == origin # NoOrigin /\ origin \in AllowedOrigins

(* Mutant of CorsHeaders: no Vary. *)
CorsHeadersNoVary(origin) ==
    [allow |-> IF OriginAllowed(origin) THEN origin ELSE NoOrigin, vary |-> FALSE]

(* The two headers after_handle makes depend on the request. *)
CorsHeaders(origin) ==
    IF OriginAllowed(origin) THEN [allow |-> origin, vary |-> TRUE]
                             ELSE [allow |-> NoOrigin, vary |-> FALSE]

NoHeaders == [allow |-> NoOrigin, vary |-> FALSE, origin |-> NoOrigin, at |-> 0]

(* A stored answer may serve a request its Vary does not exclude ...        *)
Matches(c, origin) ==
    copy[c] # NoCopy /\ (headers[c].vary => headers[c].origin = origin)

(* ... without asking the API while it is fresh. *)
Reusable(c, origin) == Matches(c, origin) /\ now < headers[c].at + MaxAge

-----------------------------------------------------------------------------
CacheInit ==
    /\ ApiInit
    /\ requester = [c \in Client |-> NoOrigin]
    /\ headers = [c \in Client |-> NoHeaders]

(* A request the cache cannot answer, or a reload, goes to the API, with    *)
(* the validators of a stored answer that matches, if there is one.  An     *)
(* answer out of the cache changes nothing and is no step.                  *)
Forward(c, origin) ==
    /\ ReadMeta(c)
    /\ requester' = [requester EXCEPT ![c] = origin]
    /\ UNCHANGED headers

(* A 304: the headers it carries replace those of the stored answer, which  *)
(* keeps the ones it does not carry and is fresh again.                     *)
Revalidate(c, origin) ==
    /\ Matches(c, origin)
    /\ AnswerNotModified(c)
    /\ headers' = [headers EXCEPT ![c] =
           IF CorsHeaders(origin).vary
           THEN [allow |-> origin, vary |-> TRUE, origin |-> origin, at |-> now]
           ELSE [@ EXCEPT !.at = now]]
    /\ UNCHANGED requester

(* A 200 takes the place of what was stored. *)
Fill(c) ==
    /\ ReadRows(c)
    /\ LET cors == CorsHeaders(requester[c])
       IN  headers' = [headers EXCEPT ![c] =
               [allow |-> cors.allow, vary |-> cors.vary, origin |-> requester[c], at |-> now]]
    /\ requester' = [requester EXCEPT ![c] = NoOrigin]

(* A 500 is not stored. *)
Drop(c) ==
    /\ AnswerError(c)
    /\ requester' = [requester EXCEPT ![c] = NoOrigin]
    /\ UNCHANGED headers

Beside == (Tick \/ StampAndStart \/ Import \/ Surroundings) /\ UNCHANGED <<requester, headers>>

CacheNext ==
    \/ Beside
    \/ \E c \in Client : Fill(c) \/ Drop(c)
    \/ \E c \in Client, origin \in Origin \cup {NoOrigin} :
          Forward(c, origin) \/ Revalidate(c, origin)

CacheSpec == CacheInit /\ [][CacheNext]_cacheVars

-----------------------------------------------------------------------------
(* Properties. *)

(* An answer that names the origin of one page is never served to another:  *)
(* through fills, refreshes by other pages' requests and expiry, the cache  *)
(* hands out an Access-Control-Allow-Origin only to the origin it names.    *)
GrantsReachTheirOrigin ==
    \A c \in Client, origin \in Origin \cup {NoOrigin} :
        Reusable(c, origin) => headers[c].allow \in {origin, NoOrigin}

(* cors_middleware.hpp speaks of "this service's need to allow the          *)
(* production frontend, Vercel preview deployments, and local dev all at    *)
(* once", by reflecting the Origin "when it's in the allowlist".  So a page *)
(* of an allowed origin may read whatever answer it is served.              *)
AllowedOriginsCanRead ==
    \A c \in Client, origin \in AllowedOrigins :
        Reusable(c, origin) => headers[c].allow = origin
=============================================================================
