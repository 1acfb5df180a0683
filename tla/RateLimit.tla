----------------------------- MODULE RateLimit -----------------------------
(***************************************************************************)
(* The two layers in front of the auth routes (auth/rate_limit.py): a      *)
(* window per client address, which the route decorators check, and a      *)
(* window per key of the request's body, which the handlers check.  A      *)
(* window is the set of the hits that still count.                         *)
(***************************************************************************)
EXTENDS Naturals, Sequences, FiniteSets

CONSTANTS
  TrustEdge,  \* trust_cloudflare_edge
  Arrivals,   \* how requests arrive: with which headers, from which peer
  Addresses,  \* what ip_address accepts
  IpLimit,    \* hits a window admits, per route and address
  KeyLimit    \* and per route and body key

ASSUME LimitsOK ==
  /\ TrustEdge \in BOOLEAN /\ IpLimit \in Nat /\ KeyLimit \in Nat
  /\ \A a \in Arrivals : a = [cf |-> a.cf, xff |-> a.xff, peer |-> a.peer]

VARIABLES
  hits,  \* the windows: [route, key, n], the n-th hit of a key
  tried  \* history: the accounts that admitted requests reached, in the same form

windows == <<hits, tried>>

Parses(x) == x \in Addresses

\* get_client_ip: CF-Connecting-IP, or the rightmost address of
\* X-Forwarded-For, or the peer; without a trusted edge the peer alone.
ClientIp(a) ==
  LET named == <<a.peer>> \o (IF TrustEdge THEN SelectSeq(a.xff \o <<a.cf>>, Parses) ELSE <<>>)
  IN  named[Len(named)]

Count(entries, route, key) == Cardinality({h \in entries : h.route = route /\ h.key = key})
Add(entries, route, key) ==
  entries \cup {[route |-> route, key |-> key, n |-> Count(entries, route, key) + 1]}

IpAllows(route, a) == Count(hits, route, ClientIp(a)) < IpLimit
KeyAllows(route, key) == Count(hits, route, key) < KeyLimit

WindowsInit == hits = {} /\ tried = {}

\* Routes with the decorator alone.
PassIp(route) ==
  \E a \in Arrivals :
    /\ IpAllows(route, a)
    /\ hits' = Add(hits, route, ClientIp(a))
    /\ UNCHANGED tried

\* Routes that check the key of the body as well, before they look an account up.
PassBoth(route, key, accounts) ==
  \E a \in Arrivals :
    /\ IpAllows(route, a) /\ KeyAllows(route, key)
    /\ hits' = Add(Add(hits, route, ClientIp(a)), route, key)
    /\ tried' = tried \cup
         {[route |-> route, key |-> u, n |-> Count(tried, route, u) + 1] : u \in accounts}

\* The decorator has counted a request that the handler refuses.
RefusedByKey(route, key) ==
  \E a \in Arrivals :
    /\ IpAllows(route, a) /\ ~KeyAllows(route, key)
    /\ hits' = Add(hits, route, ClientIp(a))
    /\ UNCHANGED tried

\* Time passes: no hit counts any more.
WindowPasses == hits # {} /\ hits' = {} /\ tried' = {}
=============================================================================
