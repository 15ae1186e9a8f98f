---------------------------- MODULE SignInProofs ----------------------------
(***************************************************************************)
(* Sign-ins that cross no other, for any number of tabs, pages and logins: *)
(* proofs about SignIn.  The invariant follows such a sign-in through each *)
(* request and answer, with the cookie that it then has to itself.         *)
(***************************************************************************)
EXTENDS SignIn, FiniteSetTheorems, TLAPS

-----------------------------------------------------------------------------
(* The invariant.                                                          *)

Steps == {"page", "problem", "login", "nextcloud", "callback", "exchange", "answer", "logout"}

\* What each request and answer carries, and the cookies.
Carried(r) ==
  /\ r.at \in Steps
  /\ r.at = "nextcloud" => r.state \in Nonces
  /\ r.at = "callback" =>
       r \in [at: {"callback"}, cookie: Pending \cup {None}, state: Nonces \cup {None}]
  /\ r.at = "exchange" => r.cookie \in Pending
  /\ r.at = "login" => r.dest \in Paths
  /\ r.at = "page" => r.path \in Paths
  /\ r.at = "answer" =>
       \/ r.pending \in Pending /\ r.next = Authorize(r.pending.nonce)
       \/ r.pending \in {None, Gone} /\ r.next \in {Problem} \cup {Page(p) : p \in Paths}

Types ==
  /\ DOMAIN tab = Tabs /\ DOMAIN asked = Tabs /\ DOMAIN trouble = Tabs
  /\ jar = [pending |-> jar.pending, session |-> jar.session]
  /\ jar.pending \in Pending \cup {None}
  /\ \A t \in Tabs : Carried(tab[t])

\* From GET /login to the answer that takes the pending login away.
SigningIn(t) ==
  \/ tab[t].at \in {"login", "nextcloud", "callback", "exchange"}
  \/ tab[t].at = "answer" /\ tab[t].pending # None

\* A sign-in that crosses no other is the only one, and has the cookie to itself.
Alone ==
  \A t, u \in Tabs :
    t # u /\ SigningIn(t) /\ "crossed" \notin trouble[t] => ~SigningIn(u)

\* It leads where it was to lead, at every step.
Heading(r, dest) ==
  /\ r.at = "page" => r.path = dest
  /\ r.at = "login" => r.dest = dest
  /\ r.at = "answer" =>
       IF r.pending \in Pending THEN r.pending.dest = dest
                                ELSE r.next \in {Page(dest), Problem}
  /\ r.at = "nextcloud" /\ jar.pending # None => jar.pending.dest = dest
  /\ r.at \in {"callback", "exchange"} /\ r.cookie # None => r.cookie.dest = dest
  /\ r.at = "logout" => dest = Root

\* Left alone, it has its nonce in the cookie, and is sent round once at most:
\* by then Nextcloud knows the browser.
Smooth(r) ==
  /\ r.at # "problem"
  /\ r.at = "answer" =>
       r.next # Problem /\ (r.pending \in Pending /\ r.pending.retried => nc)
  /\ r.at = "nextcloud" =>
       /\ jar.pending # None /\ jar.pending.nonce = r.state
       /\ jar.pending.retried => nc
  /\ r.at = "callback" =>
       /\ nc /\ r.cookie # None
       /\ IF r.state = None THEN ~r.cookie.retried ELSE r.state = r.cookie.nonce

Good(t) ==
  /\ "crossed" \notin trouble[t] => Heading(tab[t], asked[t])
  /\ trouble[t] = {} => Smooth(tab[t])

Undisturbed == \A t \in Tabs : Good(t)

SignInInv == Types /\ Alone /\ Undisturbed

-----------------------------------------------------------------------------
(* Nonces.                                                                 *)

NoncesInUse == NonceOf(jar.pending) \cup UNION {NoncesAt(t) : t \in Tabs}

\* A tab has two at the most.
LEMMA TwoNonces ==
  ASSUME NEW t
  PROVE  \E h : NoncesAt(t) \subseteq {h[1], h[2]}
<1>1. \A x : \E n : NonceOf(x) \subseteq {n}
  BY DEF NonceOf
<1>2. \E a, b : NoncesAt(t) \subseteq {a, b}
  <2>1. CASE tab[t].at = "callback"
    <3>1. NoncesAt(t) = {tab[t].state} \cup NonceOf(tab[t].cookie)
      BY <2>1 DEF NoncesAt
    <3> QED BY <1>1, <3>1
  <2>2. CASE tab[t].at = "nextcloud"
    BY <2>2 DEF NoncesAt
  <2>3. CASE tab[t].at = "exchange"
    BY <1>1, <2>3 DEF NoncesAt
  <2>4. CASE tab[t].at = "answer"
    BY <1>1, <2>4 DEF NoncesAt
  <2>5. CASE tab[t].at \notin {"callback", "nextcloud", "exchange", "answer"}
    BY <2>5 DEF NoncesAt
  <2> QED BY <2>1, <2>2, <2>3, <2>4, <2>5
<1>3. PICK a, b : NoncesAt(t) \subseteq {a, b}
  BY <1>2
<1>4. <<a, b>>[1] = a /\ <<a, b>>[2] = b
  OBVIOUS
<1> QED BY <1>3, <1>4

\* So there is always a fresh one.
LEMMA FreshNonceIsOne == FreshNonce \in Nonces
<1> DEFINE P == Tabs \X {1, 2}
           g == [t \in Tabs |-> CHOOSE h : NoncesAt(t) \subseteq {h[1], h[2]}]
           f == [p \in P |-> g[p[1]][p[2]]]
           T == {f[p] : p \in P}
<1>1. UNION {NoncesAt(t) : t \in Tabs} \subseteq T
  <2> SUFFICES ASSUME NEW n \in UNION {NoncesAt(t) : t \in Tabs} PROVE n \in T
    OBVIOUS
  <2>0. PICK t \in Tabs : n \in NoncesAt(t)
    OBVIOUS
  <2>1. NoncesAt(t) \subseteq {g[t][1], g[t][2]}
    BY TwoNonces
  <2>2. PICK i \in {1, 2} : n = g[t][i]
    BY <2>0, <2>1
  <2>3. <<t, i>> \in P /\ f[<<t, i>>] = g[t][i]
    OBVIOUS
  <2> QED BY <2>2, <2>3
<1>2. f \in Surjection(P, T)
  BY DEF Surjection
<1>3. IsFiniteSet(P) /\ Cardinality(P) = Cardinality(Tabs) * 2
  <2>1. IsFiniteSet({1}) /\ Cardinality({1}) = 1 /\ {1, 2} = {1} \cup {2} /\ 2 \notin {1}
    BY FS_Singleton
  <2>2. IsFiniteSet({1} \cup {2}) /\ Cardinality({1} \cup {2}) = 1 + 1
    BY <2>1, FS_AddElement
  <2>3. IsFiniteSet({1, 2}) /\ Cardinality({1, 2}) = 2
    BY <2>1, <2>2
  <2> QED BY <2>3, FS_Product, NoncesAssumption
<1> HIDE DEF P, g, f, T
<1>4. IsFiniteSet(T) /\ Cardinality(T) <= Cardinality(Tabs) * 2
  BY <1>2, <1>3, FS_Surjection
<1>5. PICK n : NonceOf(jar.pending) \subseteq {n}
  BY DEF NonceOf
<1>6. IsFiniteSet(T \cup {n}) /\ Cardinality(T \cup {n}) <= 2 * Cardinality(Tabs) + 1
  <2>1. /\ IsFiniteSet(T \cup {n})
        /\ Cardinality(T \cup {n}) = Cardinality(T) \/ Cardinality(T \cup {n}) = Cardinality(T) + 1
    BY <1>4, FS_AddElement
  <2>2. Cardinality(T) \in Nat /\ Cardinality(Tabs) \in Nat
    BY <1>4, NoncesAssumption, FS_CardinalityType
  <2> QED BY <1>4, <2>1, <2>2
<1>7. NoncesInUse \subseteq T \cup {n}
  BY <1>1, <1>5 DEF NoncesInUse
<1>8. \E k \in Nonces : k \notin NoncesInUse
  <2> SUFFICES ASSUME Nonces \subseteq NoncesInUse PROVE FALSE
    OBVIOUS
  <2>1. IsFiniteSet(Nonces) /\ Cardinality(Nonces) <= Cardinality(T \cup {n})
    BY <1>6, <1>7, FS_Subset
  <2>2. /\ Cardinality(Nonces) \in Nat /\ Cardinality(Tabs) \in Nat
        /\ Cardinality(T \cup {n}) \in Nat
    BY <1>6, <2>1, NoncesAssumption, FS_CardinalityType
  <2> QED BY <1>6, <2>1, <2>2, NoncesAssumption
<1> QED BY <1>8 DEF FreshNonce, NoncesInUse

-----------------------------------------------------------------------------
(* What a step leaves alone.                                               *)

LEMMA Shapes ==
  /\ \A n : Authorize(n).at = "nextcloud" /\ Authorize(n).state = n
  /\ \A p : Page(p).at = "page" /\ Page(p).path = p
  /\ Problem.at = "problem"
  /\ \A x, y, z : /\ Answer(x, y, z).at = "answer" /\ Answer(x, y, z).pending = x
                  /\ Answer(x, y, z).next = z
  BY DEF Authorize, Page, Problem, Answer

LEMMA TypesKept ==
  ASSUME Types, NEW t, NEW r, Carried(r), tab' = [tab EXCEPT ![t] = r], jar' = jar,
         DOMAIN asked' = Tabs, DOMAIN trouble' = Tabs
  PROVE  Types'
  BY DEF Types

LEMMA AloneKept ==
  ASSUME Alone,
         \A u \in Tabs : SigningIn(u)' =>
           SigningIn(u) /\ ("crossed" \in trouble[u] => "crossed" \in trouble'[u])
  PROVE  Alone'
  BY DEF Alone

\* A tab that a step does not touch stays as good as it was.
LEMMA GoodElsewhere ==
  ASSUME NEW u \in Tabs, Good(u), tab'[u] = tab[u], asked'[u] = asked[u],
         trouble[u] \subseteq trouble'[u],
         jar'.pending = jar.pending \/ tab[u].at # "nextcloud" \/ "crossed" \in trouble[u],
         nc' \/ ~nc \/ Resting(u) \/ trouble'[u] # {}
  PROVE  Good(u)'
  BY DEF Good, Heading, Smooth, Resting

-----------------------------------------------------------------------------
(* The steps.                                                              *)

LEMMA SignInInit == Init => SignInInv
<1> SUFFICES ASSUME Init PROVE SignInInv
  OBVIOUS
<1>1. /\ DOMAIN tab = Tabs /\ jar = [pending |-> None, session |-> None]
      /\ DOMAIN asked = Tabs /\ DOMAIN trouble = Tabs
  BY DEF Init
<1>2. ASSUME NEW t \in Tabs
      PROVE  tab[t].at = "page" /\ tab[t].path \in Paths /\ asked[t] = tab[t].path
  BY Shapes DEF Init
<1>3. Types
  BY <1>1, <1>2 DEF Types, Carried, Steps
<1>4. Alone
  BY <1>2 DEF Alone, SigningIn
<1>5. Undisturbed
  BY <1>2 DEF Undisturbed, Good, Heading, Smooth
<1> QED BY <1>3, <1>4, <1>5 DEF SignInInv

\* A tab leaves for /login: its sign-in crosses the others, and theirs cross it.
LEMMA LeaveStep ==
  ASSUME SignInInv, NEW t \in Tabs, NEW dest \in Paths, Resting(t), Leave(t, dest), jar' = jar, nc' = nc
  PROVE  SignInInv'
<1> USE DEF SignInInv
<1> DEFINE r == [at |-> "login", dest |-> dest]
           others == {u \in Tabs \ {t} : ~Resting(u)}
<1>1. /\ tab' = [tab EXCEPT ![t] = r] /\ asked' = [asked EXCEPT ![t] = dest]
      /\ trouble' = [u \in Tabs |-> IF u \in others THEN trouble[u] \cup {"crossed"}
                                    ELSE IF u = t /\ others # {} THEN {"crossed"}
                                    ELSE IF u = t THEN {}
                                    ELSE trouble[u]]
  BY DEF Leave
<1>2. r.at = "login" /\ r.dest = dest
  OBVIOUS
<1> HIDE DEF r
<1>3. Carried(r) /\ DOMAIN asked' = Tabs /\ DOMAIN trouble' = Tabs
  BY <1>1, <1>2 DEF Carried, Steps, Types
<1>4. Types'
  BY <1>1, <1>3, TypesKept
<1>5. Alone'
  <2> SUFFICES ASSUME NEW u \in Tabs, NEW v \in Tabs, u # v, SigningIn(u)', SigningIn(v)'
               PROVE  "crossed" \in trouble'[u]
    BY DEF Alone
  <2>1. \A w \in Tabs \ {t} : tab'[w] = tab[w]
    BY <1>1 DEF Types
  <2>2. \A w \in Tabs \ {t} : SigningIn(w)' => w \in others
    BY <2>1 DEF SigningIn, Resting
  <2> QED BY <1>1, <2>2
<1>6. ASSUME NEW u \in Tabs PROVE Good(u)'
  <2>1. CASE u = t
    <3>1. tab'[u] = r /\ asked'[u] = dest
      BY <1>1, <2>1 DEF Types
    <3> QED BY <1>2, <3>1 DEF Good, Heading, Smooth
  <2>2. CASE u # t
    <3>1. tab'[u] = tab[u] /\ asked'[u] = asked[u] /\ trouble[u] \subseteq trouble'[u]
      BY <1>1, <2>2 DEF Types
    <3> QED BY <3>1, GoodElsewhere DEF Undisturbed
  <2> QED BY <2>1, <2>2
<1> QED BY <1>4, <1>5, <1>6 DEF Undisturbed

\* A step of tab t alone, that leaves the pending login in the jar.
LEMMA TabStep ==
  ASSUME SignInInv, NEW t \in Tabs, NEW r, Carried(r),
         tab' = [tab EXCEPT ![t] = r], jar' = jar, nc => nc',
         DOMAIN asked' = Tabs, DOMAIN trouble' = Tabs,
         \A u \in Tabs \ {t} : asked'[u] = asked[u] /\ trouble'[u] = trouble[u],
         SigningIn(t)' => SigningIn(t) /\ trouble[t] \subseteq trouble'[t],
         Good(t)'
  PROVE  SignInInv'
<1> USE DEF SignInInv
<1>1. \A u \in Tabs \ {t} : tab'[u] = tab[u]
  BY DEF Types
<1>2. Types'
  BY TypesKept
<1>3. Alone'
  <2>1. ASSUME NEW u \in Tabs \ {t} PROVE SigningIn(u)' => SigningIn(u) /\ trouble[u] \subseteq trouble'[u]
    BY <1>1 DEF SigningIn
  <2> QED BY <2>1, AloneKept
<1>4. ASSUME NEW u \in Tabs \ {t} PROVE Good(u)'
  BY <1>1, GoodElsewhere DEF Undisturbed
<1> QED BY <1>2, <1>3, <1>4 DEF Undisturbed

LEMMA LoginStep ==
  ASSUME SignInInv, NEW t \in Tabs, Login(t)
  PROVE  SignInInv'
<1> USE DEF SignInInv
<1> DEFINE n == FreshNonce
           r == Answer(Issue(tab[t].dest), None, Authorize(n))
<1>1. /\ tab[t].at = "login" /\ tab' = [tab EXCEPT ![t] = r]
      /\ UNCHANGED <<jar, nc, asked, trouble>>
  BY DEF Login
<1>2. /\ r.at = "answer" /\ r.next = Authorize(n) /\ r.pending \in Pending
      /\ r.pending.nonce = n /\ r.pending.dest = tab[t].dest /\ ~r.pending.retried
      /\ n \in Nonces
  <2>1. tab[t].dest \in Paths /\ n \in Nonces
    BY <1>1, FreshNonceIsOne DEF Types, Carried
  <2>2. r.at = "answer" /\ r.next = Authorize(n) /\ r.pending = Issue(tab[t].dest)
    BY Shapes
  <2> HIDE DEF n, r
  <2> QED BY <2>1, <2>2 DEF Issue, Pending, n
<1> HIDE DEF n, r
<1>3. Carried(r)
  BY <1>2 DEF Carried, Steps
<1>4. tab'[t] = r
  BY <1>1 DEF Types
<1>5. Good(t)'
  <2>1. Good(t) /\ Authorize(n).at # Problem.at
    BY Shapes DEF Undisturbed
  <2> QED BY <1>1, <1>2, <1>4, <2>1 DEF Good, Heading, Smooth
<1> QED BY <1>1, <1>3, <1>5, TabStep DEF Types, SigningIn

LEMMA GrantStep ==
  ASSUME SignInInv, NEW t \in Tabs, Grant(t)
  PROVE  SignInInv'
<1> USE DEF SignInInv
<1> DEFINE r == [at |-> "callback", cookie |-> jar.pending,
                 state |-> IF nc THEN tab[t].state ELSE None]
<1>1. /\ tab[t].at = "nextcloud" /\ tab' = [tab EXCEPT ![t] = r]
      /\ UNCHANGED <<jar, asked, trouble>> /\ nc' = TRUE
  BY DEF Grant
<1>2. /\ r.at = "callback" /\ r.cookie = jar.pending
      /\ r.state = IF nc THEN tab[t].state ELSE None
  OBVIOUS
<1>3. Carried(r)
  BY <1>1 DEF Carried, Steps, Types
<1> HIDE DEF r
<1>4. tab'[t] = r
  BY <1>1 DEF Types
<1>5. Good(t)'
  <2>1. Good(t) /\ tab[t].state \in Nonces /\ None \notin Nonces
    BY <1>1, NoneAssumption DEF Undisturbed, Types, Carried
  <2> QED BY <1>1, <1>2, <1>4, <2>1 DEF Good, Heading, Smooth
<1> QED BY <1>1, <1>3, <1>5, TabStep DEF Types, SigningIn

LEMMA CallbackStep ==
  ASSUME SignInInv, NEW t \in Tabs, Callback(t)
  PROVE  SignInInv'
<1> USE DEF SignInInv
<1> DEFINE cookie == tab[t].cookie
           next == Decide(cookie, tab[t].state)
           n == FreshNonce
           retry == Answer(Retry(cookie), None, Authorize(n))
<1>1. /\ tab[t].at = "callback" /\ Carried(tab[t]) /\ Good(t)
      /\ UNCHANGED <<jar, nc, asked, trouble>>
      /\ DOMAIN asked = Tabs /\ DOMAIN trouble = Tabs /\ DOMAIN tab = Tabs
  BY DEF Callback, Types, Undisturbed
<1>2. cookie \in Pending \cup {None} /\ None \notin Pending
  BY <1>1, NoneAssumption DEF Carried
<1>3. PICK r : /\ tab' = [tab EXCEPT ![t] = r]
               /\ r = CASE next = "refuse" -> Answer(None, None, Problem)
                        [] next = "retry"  -> retry
                        [] next = "accept" -> [at |-> "exchange", cookie |-> cookie]
  BY DEF Callback
<1>4. tab'[t] = r /\ SigningIn(t)
  BY <1>1, <1>3 DEF SigningIn
<1>5. CASE next = "refuse"
  <2>1. r.at = "answer" /\ r.pending = None /\ r.next = Problem
    BY <1>3, <1>5, Shapes
  <2>2. Carried(r)
    BY <2>1 DEF Carried, Steps
  <2>3. trouble[t] # {}
    BY <1>1, <1>2, <1>5 DEF Decide, Good, Smooth
  <2>4. Good(t)'
    BY <1>1, <1>2, <1>4, <2>1, <2>3 DEF Good, Heading
  <2> QED BY <1>1, <1>3, <1>4, <2>2, <2>4, TabStep
<1>6. CASE next = "retry"
  <2>1. cookie \in Pending
    BY <1>2, <1>6 DEF Decide
  <2>2. n \in Nonces
    BY FreshNonceIsOne
  <2>3. r.at = "answer" /\ r.pending = Retry(cookie) /\ r.next = Authorize(n)
    BY <1>3, <1>6, Shapes
  <2> HIDE DEF n
  <2>4. r.pending \in Pending /\ r.pending.dest = cookie.dest /\ r.pending.nonce = n
    BY <2>1, <2>2, <2>3 DEF Retry, Pending, n
  <2>5. Carried(r)
    BY <2>2, <2>3, <2>4 DEF Carried, Steps
  <2>6. Authorize(n).at # Problem.at
    BY Shapes
  <2>7. Good(t)'
    BY <1>1, <1>2, <1>4, <2>1, <2>3, <2>4, <2>6 DEF Good, Heading, Smooth
  <2> QED BY <1>1, <1>3, <1>4, <2>5, <2>7, TabStep
<1>7. CASE next = "accept"
  <2>1. cookie \in Pending
    BY <1>2, <1>7 DEF Decide
  <2>2. r.at = "exchange" /\ r.cookie = cookie
    BY <1>3, <1>7
  <2>3. Carried(r)
    BY <2>1, <2>2 DEF Carried, Steps
  <2>4. Good(t)'
    BY <1>1, <1>2, <1>4, <2>1, <2>2 DEF Good, Heading, Smooth
  <2> QED BY <1>1, <1>3, <1>4, <2>3, <2>4, TabStep
<1>8. next \in {"refuse", "retry", "accept"}
  BY DEF Decide
<1> QED BY <1>5, <1>6, <1>7, <1>8

\* The answer changes the cookie of a sign-in only if it is that sign-in's own.
LEMMA ReceiveStep ==
  ASSUME SignInInv, NEW t \in Tabs, Receive(t)
  PROVE  SignInInv'
<1> USE DEF SignInInv
<1>1. /\ tab[t].at = "answer" /\ tab' = [tab EXCEPT ![t] = tab[t].next]
      /\ jar' = [pending |-> Applied(jar.pending, tab[t].pending),
                 session |-> Applied(jar.session, tab[t].session)]
      /\ UNCHANGED <<nc, asked, trouble>>
  BY DEF Receive
<1>2. /\ tab[t].pending \in Pending \cup {None, Gone} /\ None \notin Pending /\ Gone \notin Pending
      /\ \/ tab[t].pending \in Pending /\ tab[t].next = Authorize(tab[t].pending.nonce)
         \/ tab[t].pending \in {None, Gone}
            /\ tab[t].next \in {Problem} \cup {Page(p) : p \in Paths}
  BY <1>1, NoneAssumption DEF Types, Carried
<1>3. /\ jar'.pending = Applied(jar.pending, tab[t].pending)
      /\ jar'.pending \in Pending \cup {None}
      /\ jar' = [pending |-> jar'.pending, session |-> jar'.session]
  BY <1>1, <1>2 DEF Applied, Types
<1>4. /\ tab'[t] = tab[t].next /\ Carried(tab'[t])
      /\ \A u \in Tabs \ {t} : tab'[u] = tab[u]
  <2>1. Carried(tab[t].next)
    BY <1>2, Shapes DEF Carried, Steps, Pending
  <2> QED BY <1>1, <2>1 DEF Types
<1>5. Types'
  BY <1>1, <1>3, <1>4 DEF Types
<1>6. Good(t) /\ (tab[t].pending = None => tab[t].next.at \in {"page", "problem"})
  BY <1>2, Shapes DEF Undisturbed
<1>7. Alone'
  <2>1. \A u \in Tabs \ {t} : SigningIn(u)' => SigningIn(u)
    BY <1>4 DEF SigningIn
  <2>2. SigningIn(t)' => SigningIn(t)
    BY <1>1, <1>2, <1>4, <1>6, Shapes DEF SigningIn
  <2> QED BY <1>1, <2>1, <2>2, AloneKept
<1>8. Good(t)'
  <2>1. CASE "crossed" \in trouble[t]
    BY <1>1, <2>1 DEF Good
  <2>2. CASE "crossed" \notin trouble[t] /\ tab[t].pending \in Pending
    <3>1. /\ tab[t].next = Authorize(tab[t].pending.nonce)
          /\ tab[t].pending.dest = asked[t] /\ jar'.pending = tab[t].pending
      BY <1>1, <1>2, <1>3, <1>6, <2>2 DEF Good, Heading, Applied
    <3>2. tab'[t].at = "nextcloud" /\ tab'[t].state = tab[t].pending.nonce
      BY <1>4, <3>1, Shapes
    <3> QED BY <1>1, <1>2, <1>6, <2>2, <3>1, <3>2 DEF Good, Heading, Smooth
  <2>3. CASE "crossed" \notin trouble[t] /\ tab[t].pending \notin Pending
    <3>1. tab[t].next \in {Page(asked[t]), Problem}
      BY <1>1, <1>6, <2>3 DEF Good, Heading
    <3>2. \/ tab'[t].at = "page" /\ tab'[t].path = asked[t]
          \/ tab'[t].at = "problem" /\ tab[t].next = Problem
      BY <1>4, <3>1, Shapes
    <3> QED BY <1>1, <1>6, <3>2 DEF Good, Heading, Smooth
  <2> QED BY <2>1, <2>2, <2>3
<1>9. ASSUME NEW u \in Tabs \ {t} PROVE Good(u)'
  <2>1. jar'.pending = jar.pending \/ SigningIn(t)
    BY <1>1, <1>3 DEF Applied, SigningIn
  <2>2. tab[u].at = "nextcloud" /\ "crossed" \notin trouble[u] => ~SigningIn(t)
    BY DEF Alone, SigningIn
  <2> QED BY <1>1, <1>4, <2>1, <2>2, GoodElsewhere DEF Undisturbed
<1> QED BY <1>5, <1>7, <1>8, <1>9 DEF Undisturbed

\* An answer that is lost or an error upsets the sign-in that it ends.
LEMMA UpsetStep ==
  ASSUME SignInInv, NEW t \in Tabs, Lose(t) \/ ExchangeFails(t) \/ LogoutFails(t)
  PROVE  SignInInv'
<1> USE DEF SignInInv
<1>1. PICK r \in {Problem, Answer(None, None, Problem)} : tab' = [tab EXCEPT ![t] = r]
  BY DEF Lose, ExchangeFails, LogoutFails
<1>2. /\ UNCHANGED <<jar, nc, asked>> /\ trouble' = [trouble EXCEPT ![t] = @ \cup {"upset"}]
      /\ DOMAIN tab = Tabs /\ DOMAIN asked = Tabs /\ DOMAIN trouble = Tabs
  BY DEF Lose, ExchangeFails, LogoutFails, UpsetOne, Types
<1>3. r.at = "problem" \/ (r.at = "answer" /\ r.pending = None /\ r.next = Problem)
  BY <1>1, Shapes
<1>4. Carried(r)
  BY <1>3 DEF Carried, Steps
<1>5. tab'[t] = r /\ trouble'[t] = trouble[t] \cup {"upset"}
  BY <1>1, <1>2
<1>6. Good(t)'
  BY <1>2, <1>3, <1>5, NoneAssumption DEF Good, Heading
<1>7. ~SigningIn(t)'
  BY <1>3, <1>5 DEF SigningIn
<1> QED BY <1>1, <1>2, <1>4, <1>5, <1>6, <1>7, TabStep

LEMMA ExchangeStep ==
  ASSUME SignInInv, NEW t \in Tabs, Exchange(t)
  PROVE  SignInInv'
<1> USE DEF SignInInv
<1> DEFINE dest == tab[t].cookie.dest
<1>1. PICK r : /\ tab[t].at = "exchange" /\ tab' = [tab EXCEPT ![t] = r]
               /\ r = Answer(Gone, FreshSession, Page(dest))
               /\ UNCHANGED <<jar, nc, asked, trouble>>
  BY DEF Exchange
<1>2. /\ tab[t].cookie \in Pending /\ dest \in Paths /\ None \notin Pending /\ Gone \notin Pending
      /\ Good(t) /\ DOMAIN tab = Tabs /\ DOMAIN asked = Tabs /\ DOMAIN trouble = Tabs
  BY <1>1, NoneAssumption DEF Types, Carried, Pending, Undisturbed
<1>3. r.at = "answer" /\ r.pending = Gone /\ r.next = Page(dest)
  BY <1>1, Shapes
<1>4. Carried(r)
  BY <1>2, <1>3 DEF Carried, Steps
<1>5. tab'[t] = r /\ SigningIn(t)
  BY <1>1, <1>2 DEF SigningIn
<1>6. Page(dest).at # Problem.at
  BY Shapes
<1>7. Good(t)'
  BY <1>1, <1>2, <1>3, <1>5, <1>6 DEF Good, Heading, Smooth
<1> QED BY <1>1, <1>2, <1>4, <1>5, <1>7, TabStep

\* /dev-login and logging out lead to the root, and take no part in a sign-in.
LEMMA ToRootStep ==
  ASSUME SignInInv, NEW t \in Tabs, DevLogin(t) \/ LeaveForLogout(t) \/ Logout(t)
  PROVE  SignInInv'
<1> USE DEF SignInInv
<1>1. Good(t) /\ DOMAIN tab = Tabs /\ DOMAIN asked = Tabs /\ DOMAIN trouble = Tabs
  BY DEF Types, Undisturbed
<1>2. PICK r :
        /\ tab' = [tab EXCEPT ![t] = r]
        /\ (r.at = "answer" /\ r.pending = None /\ r.next = Page(Root)) \/ r.at = "logout"
  BY Shapes DEF DevLogin, LeaveForLogout, Logout
<1>3. /\ UNCHANGED <<jar, nc>> /\ DOMAIN asked' = Tabs /\ DOMAIN trouble' = Tabs
      /\ \A u \in Tabs \ {t} : asked'[u] = asked[u] /\ trouble'[u] = trouble[u]
      /\ asked'[t] = Root \/ "crossed" \in trouble'[t]
  <2>1. CASE DevLogin(t) \/ LeaveForLogout(t)
    BY <1>1, <2>1 DEF DevLogin, LeaveForLogout
  <2>2. CASE Logout(t)
    BY <1>1, <2>2 DEF Logout, Good, Heading
  <2> QED BY <2>1, <2>2
<1>4. Carried(r) /\ Page(Root).at # Problem.at
  BY <1>2, Shapes, RootAssumption DEF Carried, Steps
<1>5. tab'[t] = r
  BY <1>1, <1>2
<1>6. Good(t)'
  BY <1>2, <1>3, <1>4, <1>5, NoneAssumption DEF Good, Heading, Smooth
<1>7. ~SigningIn(t)'
  BY <1>2, <1>5 DEF SigningIn
<1> QED BY <1>2, <1>3, <1>4, <1>6, <1>7, TabStep

\* The pending login lapses, in the jar and in the requests that carry it.
LEMMA LapseStep == SignInInv /\ LapsePending => SignInInv'
<1> SUFFICES ASSUME SignInInv, LapsePending PROVE SignInInv'
  OBVIOUS
<1> USE DEF SignInInv
<1>1. /\ jar' = [jar EXCEPT !.pending = None] /\ UNCHANGED <<nc, asked>>
      /\ trouble' = [u \in Tabs |-> IF Resting(u) THEN trouble[u] ELSE trouble[u] \cup {"upset"}]
      /\ DOMAIN tab' = Tabs
      /\ \A u \in Tabs : tab'[u] = IF tab[u].at = "callback" /\ tab[u].cookie = jar.pending
                                   THEN [tab[u] EXCEPT !.cookie = None] ELSE tab[u]
  BY DEF LapsePending, Upset
<1>2. jar'.pending = None /\ jar' = [pending |-> jar'.pending, session |-> jar'.session]
  BY <1>1 DEF Types
<1>3. ASSUME NEW u \in Tabs
      PROVE  \/ tab'[u] = tab[u]
             \/ /\ tab[u].at = "callback" /\ tab'[u].at = "callback"
                /\ tab'[u].cookie = None /\ Carried(tab'[u])
  BY <1>1 DEF Types, Carried, Steps
<1>4. Types'
  BY <1>1, <1>2, <1>3 DEF Types
<1>5. Alone'
  <2>1. ASSUME NEW u \in Tabs
        PROVE  /\ SigningIn(u)' => SigningIn(u)
               /\ "crossed" \in trouble[u] => "crossed" \in trouble'[u]
    BY <1>1, <1>3 DEF SigningIn
  <2> QED BY <2>1, AloneKept
<1>6. ASSUME NEW u \in Tabs PROVE Good(u)'
  <2>1. /\ Good(u) /\ trouble[u] \subseteq trouble'[u] /\ asked'[u] = asked[u]
        /\ trouble'[u] # {} \/ Resting(u)
    BY <1>1 DEF Undisturbed
  <2> QED BY <1>2, <1>3, <2>1 DEF Good, Heading, Smooth, Resting
<1> QED BY <1>4, <1>5, <1>6 DEF Undisturbed

LEMMA ForgetStep == SignInInv /\ NcForgets => SignInInv'
<1> SUFFICES ASSUME SignInInv, NcForgets PROVE SignInInv'
  OBVIOUS
<1> USE DEF SignInInv
<1>1. /\ UNCHANGED <<tab, jar, asked>>
      /\ trouble' = [u \in Tabs |-> IF Resting(u) THEN trouble[u] ELSE trouble[u] \cup {"upset"}]
  BY DEF NcForgets, Upset
<1>2. Types'
  BY <1>1 DEF Types
<1>3. ASSUME NEW u \in Tabs
      PROVE  /\ SigningIn(u)' => SigningIn(u)
             /\ trouble[u] \subseteq trouble'[u] /\ (Resting(u) \/ trouble'[u] # {})
  BY <1>1 DEF SigningIn
<1>4. Alone'
  BY <1>3, AloneKept
<1>5. ASSUME NEW u \in Tabs PROVE Good(u)'
  BY <1>1, <1>3, GoodElsewhere DEF Undisturbed
<1> QED BY <1>2, <1>4, <1>5 DEF Undisturbed

LEMMA SignInStep == SignInInv /\ [Next]_vars => SignInInv'
<1> SUFFICES ASSUME SignInInv, [Next]_vars PROVE SignInInv'
  OBVIOUS
<1>1. CASE UNCHANGED <<tab, jar, nc, asked, trouble>>
  BY <1>1 DEF SignInInv, Types, Alone, SigningIn, Undisturbed, Good, Heading, Smooth
<1>2. ASSUME NEW t \in Tabs, Bounce(t) PROVE SignInInv'
  <2>1. tab[t].path \in Paths /\ Resting(t) /\ Leave(t, tab[t].path) /\ UNCHANGED <<jar, nc>>
    BY <1>2 DEF Bounce, SignInInv, Types, Carried, Resting
  <2>2. PICK dest \in Paths : Leave(t, dest)
    BY <2>1
  <2> QED BY <2>1, <2>2, LeaveStep
<1>3. ASSUME NEW t \in Tabs, TryAgain(t) PROVE SignInInv'
  <2>1. Root \in Paths /\ Resting(t) /\ Leave(t, Root) /\ UNCHANGED <<jar, nc>>
    BY <1>3, RootAssumption DEF TryAgain, Resting
  <2> QED BY <2>1, LeaveStep
<1>4. ASSUME NEW t \in Tabs, DevLogin(t) \/ LeaveForLogout(t) \/ Onward(t) \/ Lose(t)
      PROVE  SignInInv'
  BY <1>4, LoginStep, ReceiveStep, GrantStep, CallbackStep, ExchangeStep, UpsetStep, ToRootStep
     DEF Onward
<1>5. CASE LapsePending \/ NcForgets
  BY <1>5, LapseStep, ForgetStep
<1>6. CASE Sweep \/ \E s \in Sessions : Expire(s)
  BY <1>1, <1>6 DEF Sweep, Expire
<1>7. CASE UNCHANGED vars
  BY <1>1, <1>7 DEF vars
<1> QED BY <1>2, <1>3, <1>4, <1>5, <1>6, <1>7 DEF Next

THEOREM SignInIsInvariant == Spec => []SignInInv
  BY SignInInit, SignInStep, PTL DEF Spec

-----------------------------------------------------------------------------
(* What the invariant promises.                                            *)

\* A sign-in that crosses no other, and that nothing befalls, does not fail,
\* the detour through Nextcloud's login included (pending_login.rs:2-5).
THEOREM SoloSignInsFinish == Spec => []SoloSignInFinishes
<1>1. SignInInv => SoloSignInFinishes
  BY DEF SignInInv, Undisturbed, Good, Smooth, SoloSignInFinishes
<1> QED BY <1>1, SignInIsInvariant, PTL

\* A sign-in that crosses no other returns to the page that it was started
\* from, retried or not, after whatever lapses or fails (pending_login.rs:97).
THEOREM SignInsReturn == Spec => []ReturnsHere
<1>1. SignInInv => ReturnsHere
  BY DEF SignInInv, Undisturbed, Good, Heading, ReturnsHere
<1> QED BY <1>1, SignInIsInvariant, PTL
=============================================================================
