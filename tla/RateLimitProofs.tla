-------------------------- MODULE RateLimitProofs --------------------------
(***************************************************************************)
(* The windows of RateLimit bound how often the requests that Accounts     *)
(* lets pass reach one account.                                            *)
(***************************************************************************)
EXTENDS AccountsProofs

-----------------------------------------------------------------------------
(* Windows as sets of numbered hits                                         *)

Hits(E, route, key) == {h \in E : h.route = route /\ h.key = key}

\* The hits of a key are numbered by their order.
Numbered(E) ==
  /\ IsFiniteSet(E)
  /\ \A h \in E : h.n \in Nat /\ h.n <= Count(E, h.route, h.key)

\* Adding a hit adds one to the window of its key and leaves every other window.
LEMMA AddCounts ==
  ASSUME NEW E, Numbered(E), NEW route, NEW key
  PROVE  /\ Numbered(Add(E, route, key))
         /\ \A k, s : Count(E, s, k) \in Nat
         /\ Count(Add(E, route, key), route, key) = Count(E, route, key) + 1
         /\ \A k, s : s # route \/ k # key => Count(Add(E, route, key), s, k) = Count(E, s, k)
<1> DEFINE new == [route |-> route, key |-> key, n |-> Count(E, route, key) + 1]
           F == Add(E, route, key)
<1>1. F = E \cup {new}
  BY DEF Add
<1>2. ASSUME NEW k, NEW s
      PROVE  IsFiniteSet(Hits(E, s, k)) /\ Count(E, s, k) = Cardinality(Hits(E, s, k))
             /\ Count(E, s, k) \in Nat
  <2>1. IsFiniteSet(Hits(E, s, k))
    BY FS_Subset DEF Hits, Numbered
  <2> QED
    BY <2>1, FS_CardinalityType DEF Hits, Count
<1>3. new.route = route /\ new.key = key /\ new.n = Count(E, route, key) + 1
  OBVIOUS
<1>4. new \notin E
  BY <1>2, <1>3 DEF Numbered
<1> HIDE DEF new, F
<1>5. Count(F, route, key) = Count(E, route, key) + 1
  <2>1. Hits(F, route, key) = Hits(E, route, key) \cup {new}
    BY <1>1, <1>3 DEF Hits
  <2>2. new \notin Hits(E, route, key)
    BY <1>4 DEF Hits
  <2>3. Cardinality(Hits(F, route, key)) = Cardinality(Hits(E, route, key)) + 1
    BY <1>2, <2>1, <2>2, FS_AddElement
  <2> QED
    BY <1>2, <2>3 DEF Count, Hits
<1>6. ASSUME NEW k, NEW s, s # route \/ k # key
      PROVE  Count(F, s, k) = Count(E, s, k)
  <2>1. Hits(F, s, k) = Hits(E, s, k)
    BY <1>1, <1>3, <1>6 DEF Hits
  <2> QED
    BY <2>1 DEF Count, Hits
<1>7. IsFiniteSet(F)
  BY <1>1, FS_AddElement DEF Numbered
<1>8. ASSUME NEW h \in F PROVE h.n \in Nat /\ h.n <= Count(F, h.route, h.key)
  <2>1. CASE h = new
    BY <1>2, <1>3, <1>5, <2>1
  <2>2. CASE h \in E
    <3>1. h.n \in Nat /\ h.n <= Count(E, h.route, h.key)
      BY <2>2 DEF Numbered
    <3>2. CASE h.route = route /\ h.key = key
      BY <1>2, <1>5, <3>1, <3>2
    <3>3. CASE h.route # route \/ h.key # key
      BY <1>6, <3>1, <3>3
    <3> QED
      BY <3>2, <3>3
  <2> QED
    BY <1>1, <2>1, <2>2
<1>9. Numbered(F)
  BY <1>7, <1>8 DEF Numbered
<1> QED
  BY <1>2, <1>5, <1>6, <1>9 DEF F

-----------------------------------------------------------------------------
(* The windows and the accounts that were tried                             *)

KeyRoutes == {"login", "forgot", "request_verify"}

\* What was tried on an account is no more than the window of its mailbox holds.
Covered(H, T, u) ==
  \A route \in KeyRoutes :
    /\ Count(T, route, u) <= Count(H, route, Mailbox[users[u].email])
    /\ Count(T, route, u) <= KeyLimit

Bounded(H, T) ==
  /\ Numbered(H) /\ Numbered(T)
  /\ \A t \in T : t.key \in Ids
  /\ \A u \in Ids : Covered(H, T, u)

\* A hit more, of an address or of a body key, leaves the bounds as they are.
LEMMA HitAdded ==
  ASSUME NEW H, NEW T, Bounded(H, T), NEW route, NEW key
  PROVE  Bounded(Add(H, route, key), T)
<1> DEFINE G == Add(H, route, key)
<1>1. /\ Numbered(G)
      /\ \A k, s : Count(H, s, k) \in Nat
      /\ Count(G, route, key) = Count(H, route, key) + 1
      /\ \A k, s : s # route \/ k # key => Count(G, s, k) = Count(H, s, k)
  BY AddCounts DEF Bounded
<1> HIDE DEF G
<1>2. \A k, s : Count(H, s, k) <= Count(G, s, k)
  <2> SUFFICES ASSUME NEW k, NEW s PROVE Count(H, s, k) <= Count(G, s, k)
    OBVIOUS
  <2>1. CASE s = route /\ k = key
    BY <1>1, <2>1
  <2>2. CASE s # route \/ k # key
    BY <1>1, <2>2
  <2> QED
    BY <2>1, <2>2
<1>3. \A k, s : Count(T, s, k) \in Nat /\ Count(G, s, k) \in Nat
  BY <1>1, AddCounts DEF Bounded
<1>4. ASSUME NEW u \in Ids PROVE Covered(G, T, u)
  <2>1. Covered(H, T, u)
    BY DEF Bounded
  <2> QED
    BY <1>1, <1>2, <1>3, <2>1 DEF Covered
<1>5. Bounded(G, T)
  BY <1>1, <1>4 DEF Bounded
<1> QED
  BY <1>5 DEF G

\* A hit of an account's mailbox, and the account with it while it has tries left.
LEMMA TryAdded ==
  ASSUME LimitsOK, NEW H, NEW T, Bounded(H, T), NEW route, NEW u \in Ids,
         Count(T, route, u) < KeyLimit
  PROVE  Bounded(Add(H, route, Mailbox[users[u].email]), Add(T, route, u))
<1> DEFINE key == Mailbox[users[u].email]
           G == Add(H, route, key)
           S == Add(T, route, u)
<1>0. Bounded(G, T)
  BY HitAdded
<1>1. /\ \A k, s : Count(H, s, k) \in Nat
      /\ Count(G, route, key) = Count(H, route, key) + 1
  BY AddCounts DEF Bounded
<1>2. /\ Numbered(S)
      /\ \A k, s : Count(T, s, k) \in Nat
      /\ Count(S, route, u) = Count(T, route, u) + 1
      /\ \A k, s : s # route \/ k # u => Count(S, s, k) = Count(T, s, k)
  BY AddCounts DEF Bounded
<1>3. \A t \in S : t.key \in Ids
  BY DEF Add, Bounded
<1> HIDE DEF G, S
<1>5. ASSUME NEW v \in Ids, NEW s \in KeyRoutes
      PROVE  /\ Count(S, s, v) <= Count(G, s, Mailbox[users[v].email])
             /\ Count(S, s, v) <= KeyLimit
  <2>1. /\ Count(T, s, v) <= Count(G, s, Mailbox[users[v].email])
        /\ Count(T, s, v) <= KeyLimit
    BY <1>0 DEF Bounded, Covered
  <2>2. Count(T, s, v) <= Count(H, s, Mailbox[users[v].email])
    BY DEF Bounded, Covered
  <2>3. CASE s = route /\ v = u
    <3>1. Count(T, route, u) <= Count(H, route, key)
      BY <2>2, <2>3
    <3> HIDE DEF key
    <3>2. Count(S, route, u) <= Count(G, route, key) /\ Count(S, route, u) <= KeyLimit
      BY <1>1, <1>2, <3>1 DEF LimitsOK
    <3> QED
      BY <2>3, <3>2 DEF key
  <2>4. CASE s # route \/ v # u
    BY <1>2, <2>1, <2>4
  <2> QED
    BY <2>3, <2>4
<1>6. Bounded(G, S)
  BY <1>0, <1>2, <1>3, <1>5 DEF Bounded, Covered
<1> QED
  BY <1>6 DEF G, S

\* What one request does to the windows; it reaches one account or none.
LEMMA RequestAdded ==
  ASSUME LimitsOK, Bounded(hits, tried), NEW route, NEW key, NEW accounts,
         PassIp(route) \/ PassBoth(route, key, accounts) \/ RefusedByKey(route, key),
         \/ accounts = {}
         \/ route \in KeyRoutes /\ \E u \in Ids : accounts = {u} /\ key = Mailbox[users[u].email]
  PROVE  Bounded(hits', tried')
<1>1. CASE PassIp(route) \/ RefusedByKey(route, key)
  <2>1. PICK a \in Arrivals : hits' = Add(hits, route, ClientIp(a)) /\ tried' = tried
    BY <1>1 DEF PassIp, RefusedByKey
  <2> QED
    BY <2>1, HitAdded
<1>2. CASE PassBoth(route, key, accounts)
  <2>1. PICK a \in Arrivals :
          /\ KeyAllows(route, key)
          /\ hits' = Add(Add(hits, route, ClientIp(a)), route, key)
          /\ tried' = tried \cup
               {[route |-> route, key |-> u, n |-> Count(tried, route, u) + 1] : u \in accounts}
    BY <1>2 DEF PassBoth
  <2>2. Bounded(Add(hits, route, ClientIp(a)), tried)
    BY HitAdded
  <2>3. CASE accounts = {}
    BY <2>1, <2>2, <2>3, HitAdded
  <2>4. ASSUME NEW u \in Ids, accounts = {u}, key = Mailbox[users[u].email], route \in KeyRoutes
        PROVE  Bounded(hits', tried')
    <3>1. tried' = Add(tried, route, u)
      BY <2>1, <2>4 DEF Add
    <3>2. Count(tried, route, u) <= Count(hits, route, key)
      BY <2>4 DEF Bounded, Covered
    <3>3. Count(tried, route, u) \in Nat /\ Count(hits, route, key) \in Nat
      BY AddCounts DEF Bounded
    <3>4. Count(tried, route, u) < KeyLimit
      BY <2>1, <3>2, <3>3 DEF KeyAllows, LimitsOK
    <3> QED
      <4> DEFINE H == Add(hits, route, ClientIp(a))
      <4>1. hits' = Add(H, route, Mailbox[users[u].email]) /\ Bounded(H, tried)
        BY <2>1, <2>2, <2>4
      <4> HIDE DEF H
      <4> QED
        BY <3>1, <3>4, <4>1, TryAdded
  <2> QED
    BY <2>3, <2>4
<1> QED
  BY <1>1, <1>2

-----------------------------------------------------------------------------
(* The steps of Accounts                                                    *)

AttemptsInv == Shape /\ Bounded(hits, tried)

\* A new account has not been tried yet, and the others keep their address.
LEMMA AccountsAdded ==
  ASSUME LimitsOK, Shape, Bounded(hits, tried), Kept, UNCHANGED windows
  PROVE  Bounded(hits, tried)'
<1>1. hits' = hits /\ tried' = tried
  BY DEF windows
<1>2. \A k, s : Count(hits, s, k) \in Nat
  BY AddCounts DEF Bounded
<1>3. Ids \subseteq Ids' /\ \A u \in Ids : users'[u].email = users[u].email
  BY DEF Kept, Ids
<1>4. ASSUME NEW u \in Ids', u \notin Ids, NEW route \in KeyRoutes
      PROVE  Count(tried, route, u) = 0
  <2>1. {t \in tried : t.route = route /\ t.key = u} = {}
    BY <1>4 DEF Bounded
  <2> QED
    BY <2>1, FS_EmptySet DEF Count
<1>5. ASSUME NEW u \in Ids', NEW route \in KeyRoutes
      PROVE  /\ Count(tried, route, u) <= Count(hits, route, Mailbox[users'[u].email])
             /\ Count(tried, route, u) <= KeyLimit
  <2>1. CASE u \in Ids
    BY <1>3, <2>1 DEF Bounded, Covered
  <2>2. CASE u \notin Ids
    BY <1>2, <1>4, <2>2 DEF LimitsOK
  <2> QED
    BY <2>1, <2>2
<1> QED
  BY <1>1, <1>3, <1>5 DEF Bounded, Covered, Numbered, Count

LEMMA AttemptsStep ==
  ASSUME AttemptsInv, [Next]_vars
  PROVE  Bounded(hits, tried)'
<1> USE LimitsOK DEF AttemptsInv
<1>1. ASSUME UNCHANGED users, Bounded(hits', tried')
      PROVE  Bounded(hits, tried)'
  BY <1>1 DEF Bounded, Covered, Numbered, Count, Ids
<1>2. CASE UNCHANGED windows
  BY <1>2, AccountsAdded, RowsKept
<1>3. CASE WindowPasses
  <2>1. hits' = {} /\ tried' = {}
    BY <1>3 DEF WindowPasses
  <2>2. \A k, s : Count({}, s, k) = 0
    BY FS_EmptySet DEF Count
  <2>3. Numbered({})
    BY FS_EmptySet DEF Numbered
  <2> QED
    BY <2>1, <2>2, <2>3 DEF Bounded, Covered, LimitsOK, Numbered, Count, Ids
<1>4. ASSUME NEW r \in Replicas, Limited(r)
      PROVE  Bounded(hits, tried)'
  <2>1. UNCHANGED users
    BY <1>4 DEF Limited, Register, Login, ForgotPassword, RequestVerify, ResetPassword,
                OidcCallback, TooManyRequests, tables
  <2>2. ASSUME NEW route \in KeyRoutes, NEW e \in Emails, Attempt(r, route, e)
        PROVE  Bounded(hits', tried')
    <3>1. \/ Found(e) = {}
          \/ \E u \in Ids : Found(e) = {u} /\ BodyKey(e) = Mailbox[users[u].email]
      BY DEF Found, ByEmail, BodyKey
    <3> QED
      BY <2>2, <3>1, RequestAdded DEF Attempt
  <2>3. ASSUME NEW route, NEW key, PassIp(route) \/ PassBoth(route, key, {})
                                   \/ RefusedByKey(route, key)
        PROVE  Bounded(hits', tried')
    BY <2>3, RequestAdded
  <2>4. Bounded(hits', tried')
    BY <1>4, <2>2, <2>3
    DEF Limited, Register, Login, ForgotPassword, RequestVerify, ResetPassword, OidcCallback,
        TooManyRequests, KeyRoutes
  <2> QED
    BY <1>1, <2>1, <2>4
<1> QED
  BY <1>2, <1>3, <1>4 DEF Next, vars

\* Nobody tries one account more often than its window admits, on each route
\* (AttemptsBounded), whatever the spellings, the limits and the headers are:
\* the key of a window is what the lookup compares, the window is charged before
\* the lookup, and an account keeps its address.
THEOREM AttemptsStayBounded == Spec => []AttemptsBounded
<1>1. Init => AttemptsInv
  <2> SUFFICES ASSUME Init PROVE AttemptsInv
    OBVIOUS
  <2>1. hits = {} /\ tried = {} /\ Ids = {}
    BY EmptySeq DEF Init, WindowsInit, Ids
  <2>2. Numbered({})
    BY FS_EmptySet DEF Numbered
  <2> QED
    BY <2>1, <2>2, ShapeInit DEF AttemptsInv, Bounded
<1>2. AttemptsInv /\ [Next]_vars => AttemptsInv'
  BY ShapeStep, AttemptsStep DEF AttemptsInv
<1>3. AttemptsInv => AttemptsBounded
  BY DEF AttemptsInv, Bounded, Covered, AttemptsBounded, KeyRoutes
<1> QED
  BY <1>1, <1>2, <1>3, PTL DEF Spec
=============================================================================
