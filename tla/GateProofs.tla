------------------------------ MODULE GateProofs ------------------------------
(***************************************************************************)
(* Proofs about Gate and Profiles: what is let through, and what it shows. *)
(* The middlewares that a request still has before it say what it may rely *)
(* on: what its route promises it has seen to be so, or it still has the   *)
(* middleware that asks (OnTheWay).  The entry of a limit is the last      *)
(* window of what was let through under its key, and windows do not        *)
(* overlap (RateInv).  What a page has read is what would be found now     *)
(* while nothing moved, or at least not the player (ViewInv).              *)
(***************************************************************************)
EXTENDS Gate, Profiles, FiniteSetTheorems, WellFoundedInduction, TLAPS

-----------------------------------------------------------------------------
(* Sequences of middlewares: s has x; every y in s comes after one of X.           *)

Has(s, x) == \E i \in 1 .. Len(s) : s[i] = x
Guarded(s, y, X) == \A i \in 1 .. Len(s) : s[i] = y => \E j \in 1 .. i - 1 : s[j] \in X

\* What a sequence has is its head or in its tail.
LEMMA HasHeadTail ==
  ASSUME NEW S, NEW s \in Seq(S), s # <<>>, NEW x
  PROVE  /\ Tail(s) \in Seq(S) /\ Head(s) \in S
         /\ Has(s, x) <=> (x = Head(s) \/ Has(Tail(s), x))
<1>1. Len(s) \in Nat /\ Len(s) > 0 /\ Head(s) = s[1] /\ Head(s) \in S
  OBVIOUS
<1>2. Tail(s) \in Seq(S) /\ Len(Tail(s)) = Len(s) - 1
  OBVIOUS
<1>3. \A i \in 1 .. Len(s) - 1 : Tail(s)[i] = s[i + 1]
  OBVIOUS
<1>4. ASSUME NEW i \in 1 .. Len(s), s[i] = x PROVE x = Head(s) \/ Has(Tail(s), x)
  <2>1. CASE i = 1
    BY <1>1, <1>4, <2>1
  <2>2. CASE i # 1
    <3>1. i - 1 \in 1 .. Len(s) - 1 /\ (i - 1) + 1 = i
      BY <1>1, <2>2
    <3>2. Tail(s)[i - 1] = x
      BY <1>3, <1>4, <3>1
    <3> QED
      BY <1>2, <3>1, <3>2 DEF Has
  <2> QED
    BY <2>1, <2>2
<1>5. ASSUME NEW i \in 1 .. Len(Tail(s)), Tail(s)[i] = x PROVE Has(s, x)
  <2>1. i + 1 \in 1 .. Len(s) /\ s[i + 1] = x
    BY <1>1, <1>2, <1>3, <1>5
  <2> QED
    BY <2>1 DEF Has
<1>6. x = Head(s) => Has(s, x)
  BY <1>1 DEF Has
<1> QED
  BY <1>1, <1>2, <1>4, <1>5, <1>6 DEF Has

\* What two sequences after each other have.
LEMMA HasBefore ==
  ASSUME NEW S, NEW s \in Seq(S), NEW t \in Seq(S), NEW x
  PROVE  /\ s \o t \in Seq(S)
         /\ Has(s \o t, x) <=> (Has(s, x) \/ Has(t, x))
<1>1. s \o t \in Seq(S) /\ Len(s \o t) = Len(s) + Len(t) /\ Len(s) \in Nat /\ Len(t) \in Nat
  OBVIOUS
<1>2. \A i \in 1 .. Len(s) + Len(t) : (s \o t)[i] = IF i <= Len(s) THEN s[i] ELSE t[i - Len(s)]
  OBVIOUS
<1>3. ASSUME NEW i \in 1 .. Len(s \o t), (s \o t)[i] = x PROVE Has(s, x) \/ Has(t, x)
  <2>1. CASE i <= Len(s)
    BY <1>1, <1>2, <1>3, <2>1 DEF Has
  <2>2. CASE ~(i <= Len(s))
    <3>1. i - Len(s) \in 1 .. Len(t) /\ t[i - Len(s)] = x
      BY <1>1, <1>2, <1>3, <2>2
    <3> QED
      BY <3>1 DEF Has
  <2> QED
    BY <2>1, <2>2
<1>4. ASSUME NEW i \in 1 .. Len(s), s[i] = x PROVE Has(s \o t, x)
  <2>1. i \in 1 .. Len(s \o t) /\ (s \o t)[i] = x
    BY <1>1, <1>2, <1>4
  <2> QED
    BY <2>1 DEF Has
<1>5. ASSUME NEW i \in 1 .. Len(t), t[i] = x PROVE Has(s \o t, x)
  <2>1. i + Len(s) \in 1 .. Len(s \o t) /\ ~(i + Len(s) <= Len(s)) /\ (i + Len(s)) - Len(s) = i
    BY <1>1
  <2>2. (s \o t)[i + Len(s)] = x
    BY <1>1, <1>2, <1>5, <2>1
  <2> QED
    BY <2>1, <2>2 DEF Has
<1> QED
  BY <1>1, <1>3, <1>4, <1>5 DEF Has

\* What is guarded does not come first, and stays guarded until a guard has its turn.
LEMMA GuardedTail ==
  ASSUME NEW S, NEW s \in Seq(S), s # <<>>, NEW y, NEW X, Guarded(s, y, X)
  PROVE  /\ Head(s) # y
         /\ Head(s) \in X \/ Guarded(Tail(s), y, X)
<1>1. Len(s) \in Nat /\ Len(s) > 0 /\ Head(s) = s[1]
  OBVIOUS
<1>2. Tail(s) \in Seq(S) /\ Len(Tail(s)) = Len(s) - 1
  OBVIOUS
<1>3. \A i \in 1 .. Len(s) - 1 : Tail(s)[i] = s[i + 1]
  OBVIOUS
<1>4. Head(s) # y
  BY <1>1 DEF Guarded
<1>5. ASSUME Head(s) \notin X, NEW i \in 1 .. Len(Tail(s)), Tail(s)[i] = y
      PROVE  \E j \in 1 .. i - 1 : Tail(s)[j] \in X
  <2>1. i + 1 \in 1 .. Len(s) /\ s[i + 1] = y
    BY <1>1, <1>2, <1>3, <1>5
  <2>2. PICK j \in 1 .. (i + 1) - 1 : s[j] \in X
    BY <2>1 DEF Guarded
  <2>3. j # 1
    BY <1>1, <1>5, <2>2
  <2>4. j - 1 \in 1 .. i - 1 /\ j - 1 \in 1 .. Len(s) - 1 /\ (j - 1) + 1 = j
    BY <1>1, <1>2, <2>2, <2>3
  <2>5. Tail(s)[j - 1] \in X
    BY <1>3, <2>2, <2>4
  <2> QED
    BY <2>4, <2>5
<1> QED
  BY <1>4, <1>5 DEF Guarded

\* More steps before the rest keep it guarded, or bring a guard with them.
LEMMA GuardedBefore ==
  ASSUME NEW S, NEW s \in Seq(S), NEW t \in Seq(S), NEW y, NEW X,
         Guarded(s, y, X), Guarded(t, y, X) \/ \E x \in X : Has(s, x)
  PROVE  Guarded(s \o t, y, X)
<1>1. s \o t \in Seq(S) /\ Len(s \o t) = Len(s) + Len(t) /\ Len(s) \in Nat /\ Len(t) \in Nat
  OBVIOUS
<1>2. \A i \in 1 .. Len(s) + Len(t) : (s \o t)[i] = IF i <= Len(s) THEN s[i] ELSE t[i - Len(s)]
  OBVIOUS
<1> SUFFICES ASSUME NEW i \in 1 .. Len(s \o t), (s \o t)[i] = y
             PROVE  \E j \in 1 .. i - 1 : (s \o t)[j] \in X
  BY DEF Guarded
<1>3. CASE i <= Len(s)
  <2>1. i \in 1 .. Len(s) /\ s[i] = y
    BY <1>1, <1>2, <1>3
  <2>2. PICK j \in 1 .. i - 1 : s[j] \in X
    BY <2>1 DEF Guarded
  <2>3. j \in 1 .. Len(s) + Len(t) /\ j <= Len(s)
    BY <1>1, <1>3, <2>2
  <2>4. (s \o t)[j] = s[j]
    BY <1>2, <2>3
  <2> QED
    BY <2>2, <2>4
<1>4. CASE ~(i <= Len(s)) /\ \E x \in X : Has(s, x)
  <2>1. PICK j \in 1 .. Len(s) : s[j] \in X
    BY <1>4 DEF Has
  <2>2. j \in 1 .. i - 1 /\ j \in 1 .. Len(s) + Len(t) /\ j <= Len(s)
    BY <1>1, <1>4, <2>1
  <2>3. (s \o t)[j] = s[j]
    BY <1>2, <2>2
  <2> QED
    BY <2>1, <2>2, <2>3
<1>5. CASE ~(i <= Len(s)) /\ Guarded(t, y, X)
  <2>1. i - Len(s) \in 1 .. Len(t) /\ t[i - Len(s)] = y
    BY <1>1, <1>2, <1>5
  <2>2. PICK j \in 1 .. (i - Len(s)) - 1 : t[j] \in X
    BY <1>5, <2>1 DEF Guarded
  <2>3. j + Len(s) \in 1 .. i - 1 /\ j + Len(s) \in 1 .. Len(s) + Len(t)
        /\ ~(j + Len(s) <= Len(s)) /\ (j + Len(s)) - Len(s) = j
    BY <1>1, <2>2
  <2>4. (s \o t)[j + Len(s)] = t[j]
    BY <1>2, <2>3
  <2> QED
    BY <2>2, <2>3, <2>4
<1> QED
  BY <1>3, <1>4, <1>5

\* The same of the middlewares left when the first one puts more before the rest.
LEMMA LeftMoves ==
  ASSUME NEW S, NEW s \in Seq(S), s # <<>>, NEW more \in Seq(S)
  PROVE  /\ Head(s) \in S /\ Tail(s) \in Seq(S) /\ more \o Tail(s) \in Seq(S)
         /\ \A x : Has(s, x) <=> (x = Head(s) \/ Has(Tail(s), x))
         /\ \A x : Has(more \o Tail(s), x) <=> (Has(more, x) \/ Has(Tail(s), x))
         /\ \A y, X : Guarded(s, y, X) => Head(s) # y
         /\ \A y, X : Guarded(s, y, X) /\ Guarded(more, y, X)
                        /\ (Head(s) \in X => \E x \in X : Has(more, x))
                      => Guarded(more \o Tail(s), y, X)
<1>1. Tail(s) \in Seq(S) /\ Head(s) \in S
  OBVIOUS
<1>2. \A x : Has(s, x) <=> (x = Head(s) \/ Has(Tail(s), x))
  BY HasHeadTail
<1>3. more \o Tail(s) \in Seq(S)
  BY <1>1, HasBefore
<1>4. \A x : Has(more \o Tail(s), x) <=> (Has(more, x) \/ Has(Tail(s), x))
  BY <1>1, HasBefore
<1>5. \A y, X : Guarded(s, y, X) => Head(s) # y
  BY GuardedTail
<1>6. ASSUME NEW y, NEW X, Guarded(s, y, X), Guarded(more, y, X),
             Head(s) \in X => \E x \in X : Has(more, x)
      PROVE  Guarded(more \o Tail(s), y, X)
  <2>1. Guarded(Tail(s), y, X) \/ \E x \in X : Has(more, x)
    BY <1>6, GuardedTail
  <2> QED
    BY <1>1, <1>6, <2>1, GuardedBefore
<1> QED
  BY <1>1, <1>2, <1>3, <1>4, <1>5, <1>6

\* What has no y has none that is not guarded.
LEMMA NothingToGuard ==
  ASSUME NEW s, NEW y, NEW X, ~Has(s, y)
  PROVE  Guarded(s, y, X)
BY DEF Has, Guarded

\* What sequences of up to three have.
LEMMA FewSteps ==
  /\ \A x : ~Has(<<>>, x)
  /\ \A a, x : Has(<<a>>, x) <=> x = a
  /\ \A a, b, x : Has(<<a, b>>, x) <=> x \in {a, b}
  /\ \A a, b, c, x : Has(<<a, b, c>>, x) <=> x \in {a, b, c}
<1>1. \A x : ~Has(<<>>, x)
  BY DEF Has
<1>2. \A a, x : Has(<<a>>, x) <=> x = a
  BY DEF Has
<1>3. ASSUME NEW a, NEW b, NEW x PROVE Has(<<a, b>>, x) <=> x \in {a, b}
  <2>1. Len(<<a, b>>) = 2 /\ <<a, b>>[1] = a /\ <<a, b>>[2] = b
    OBVIOUS
  <2> QED
    BY <2>1 DEF Has
<1>4. ASSUME NEW a, NEW b, NEW c, NEW x PROVE Has(<<a, b, c>>, x) <=> x \in {a, b, c}
  <2>1. Len(<<a, b, c>>) = 3 /\ <<a, b, c>>[1] = a /\ <<a, b, c>>[2] = b /\ <<a, b, c>>[3] = c
    OBVIOUS
  <2> QED
    BY <2>1 DEF Has
<1> QED
  BY <1>1, <1>2, <1>3, <1>4

\* What a few steps have, and what they have not.
LEMMA TheSteps ==
  /\ \A a, b : /\ Has(<<a, b>>, a) /\ Has(<<a, b>>, b)
              /\ \A x : x # a /\ x # b => ~Has(<<a, b>>, x)
  /\ \A a, b, c : /\ Has(<<a, b, c>>, a) /\ Has(<<a, b, c>>, b) /\ Has(<<a, b, c>>, c)
                 /\ \A x : x # a /\ x # b /\ x # c => ~Has(<<a, b, c>>, x)
BY FewSteps

\* Whatever comes after the first is guarded by it.
LEMMA SecondGuarded ==
  ASSUME NEW a, NEW b, b # a
  PROVE  /\ Guarded(<<a, b>>, b, {a})
         /\ \A c : c # a /\ c # b => Guarded(<<a, b, c>>, c, {a}) /\ Guarded(<<a, b, c>>, b, {a})
<1>1. Guarded(<<a, b>>, b, {a})
  <2>1. Len(<<a, b>>) = 2 /\ <<a, b>>[1] = a /\ <<a, b>>[2] = b
    OBVIOUS
  <2>2. 1 \in 1 .. 2 - 1
    OBVIOUS
  <2> QED
    BY <2>1, <2>2 DEF Guarded
<1>2. ASSUME NEW c, c # a, c # b
      PROVE  Guarded(<<a, b, c>>, c, {a}) /\ Guarded(<<a, b, c>>, b, {a})
  <2>1. Len(<<a, b, c>>) = 3 /\ <<a, b, c>>[1] = a /\ <<a, b, c>>[2] = b /\ <<a, b, c>>[3] = c
    OBVIOUS
  <2>2. \A i \in 1 .. 3 : i # 1 => 1 \in 1 .. i - 1
    OBVIOUS
  <2> QED
    BY <1>2, <2>1, <2>2 DEF Guarded
<1> QED
  BY <1>1, <1>2

-----------------------------------------------------------------------------
TokenRoute == {"v1", "v1edit", "version"}
SessionRoute == {"login", "register", "admin"}
KnownRoute == TokenRoute \cup SessionRoute \cup {"look"}
Routes == KnownRoute \cup {"badge", "pages", "status"}

\* The routes of the router, by name.
LEMMA RouteNames == Route = Routes
BY DEF Route, Routes, KnownRoute, TokenRoute, SessionRoute, BadgeRoutes, AuthRoutes, MeRoutes,
       PublicRoutes, StaffRoutes, ExternalRoutes, SystemRoutes

\* The middlewares of each route as the router lists them.
LEMMA Chains ==
  /\ Chain("badge") = <<"firebase gate", "badges", "badge">>
  /\ Chain("login") = <<"login", "strict", "log in">>
  /\ Chain("look") = <<"firebase gate", "fast">>
  /\ Chain("register") = <<"firebase gate", "strict", "register">>
  /\ Chain("pages") = <<"firebase gate", "optional", "anonymous">>
  /\ Chain("admin") = <<"firebase gate", "strict", "admin">>
  /\ Chain("v1") = <<"token gate", "token", "v1">>
  /\ Chain("v1edit") = <<"token gate", "token", "v1", "write", "editor">>
  /\ Chain("status") = <<>>
  /\ Chain("version") = <<"token gate", "token", "admin">>
BY DEF Chain, BadgeRoutes, AuthRoutes, MeRoutes, PublicRoutes, StaffRoutes, ExternalRoutes,
       SystemRoutes, FirebaseGate, TokenGate

-----------------------------------------------------------------------------
(* What is known of a request on its way: r is the request, w what has been so.    *)

\* The middlewares that a route can come to.
PlainPart ==
  {"firebase gate", "strict verify", "find", "staff", "strict", "admin", "badges", "badge",
   "login", "register", "anonymous"}
TokenPart ==
  {"token gate", "find token", "find owner", "record use", "staff", "token", "v1", "write",
   "editor", "admin"}
Part(route) ==
  CASE route \in TokenRoute -> TokenPart
    [] route = "login" -> PlainPart \cup {"log in"}
    [] route = "look" -> PlainPart \cup {"fast", "fast verify"}
    [] route = "pages" -> PlainPart \cup {"optional", "fast verify", "find or not"}
    [] OTHER -> PlainPart

Requests(S) ==
  [stage : {"none", "going", "handled", "refused"}, route : Routes, bearer : BOOLEAN,
   left : S, user : AccountRole \cup {Nobody}, token : {"none", "read", "write"}]

Known(r) == r.user # Nobody
RoleKnown(r, w) ==
  Known(r) => /\ "known" \in w
              /\ HasRole(r.user, "editor") => "editor" \in w
              /\ HasRole(r.user, "admin") => "admin" \in w
TokenKnown(r, w) ==
  r.token # "none" => "token" \in w /\ (r.token = "write" => "write" \in w)

\* Who is known by a session has one that is good, where that is promised; the staff that
\* passes the gate has one in any case.
SessionKnown(r, w) ==
  /\ r.route \in SessionRoute => (Known(r) => "session" \in w)
  /\ r.route \in SessionRoute => "session" \in w \/ Guarded(r.left, "find", {"strict verify"})
  /\ r.route \notin TokenRoute => "session" \in w \/ Guarded(r.left, "staff", {"strict verify"})
OwnerKnown(r, w) ==
  r.route \in TokenRoute =>
    /\ Known(r) => "token" \in w
    /\ "token" \in w \/ Guarded(r.left, "find owner", {"find token"})
    /\ Known(r) \/ Guarded(r.left, "v1", {"token", "find owner"})

\* What is promised and has not been seen is still to be asked for.
Finder == {"strict", "fast", "find", "token", "find owner"}
WillKnow(r, w) == r.route \in KnownRoute => Known(r) \/ \E x \in Finder : Has(r.left, x)
WillCheck(r, w) ==
  /\ r.route \in {"admin", "version"} => "admin" \in w \/ Has(r.left, "admin")
  /\ r.route = "v1edit" => "editor" \in w \/ Has(r.left, "editor")
  /\ r.route = "v1edit" => "write" \in w \/ Has(r.left, "write")
StaffSeen(r, w) ==
  "editor" \in w /\ (IF r.route \in TokenRoute THEN "token" \in w ELSE "session" \in w)
Opener == {"firebase gate", "token gate", "staff", "log in"}
WillOpen(r, w) ==
  r.route # "status" =>
    "open" \in w \/ StaffSeen(r, w) \/ \E x \in Opener : Has(r.left, x)

OnTheWay(r, w) ==
  /\ r \in Requests(Seq(Part(r.route))) /\ r.stage = "going"
  /\ RoleKnown(r, w) /\ TokenKnown(r, w) /\ SessionKnown(r, w) /\ OwnerKnown(r, w)
  /\ WillKnow(r, w) /\ WillCheck(r, w) /\ WillOpen(r, w)

\* The request r with more put before what is left behind its first middleware.
Rest(r, more) == [r EXCEPT !.left = more \o Tail(@)]

\* What the first middleware had to see, it has seen or leaves to more.
Leads(r, w, more) ==
  /\ r.route \in SessionRoute => Guarded(more, "find", {"strict verify"})
  /\ r.route \notin TokenRoute => Guarded(more, "staff", {"strict verify"})
  /\ Head(r.left) = "strict verify" => "session" \in w
  /\ Guarded(more, "find owner", {"find token"})
  /\ Head(r.left) = "find token" => "token" \in w
  /\ ~Has(more, "v1")
  /\ Head(r.left) \in Finder /\ r.route \in KnownRoute =>
       Known(r) \/ \E x \in Finder : Has(more, x)
  /\ Head(r.left) \in {"token", "find owner"} => Known(r) \/ Has(more, "find owner")
  /\ Head(r.left) \in {"admin", "editor", "write"} => Head(r.left) \in w
  /\ Head(r.left) \in Opener =>
       "open" \in w \/ StaffSeen(r, w) \/ \E x \in Opener : Has(more, x)

\* A request goes on.
LEMMA GoOn ==
  ASSUME NEW r, NEW w, OnTheWay(r, w), r.left # <<>>, NEW more \in Seq(Part(r.route)),
         Leads(r, w, more)
  PROVE  OnTheWay(Rest(r, more), w)
<1> DEFINE q == Rest(r, more)
<1> DEFINE S == Part(r.route)  left == more \o Tail(r.left)
<1>1. r.left \in Seq(S) /\ r \in Requests(Seq(S)) /\ r.stage = "going"
  BY DEF OnTheWay, Requests
<1>2. /\ left \in Seq(S)
      /\ \A x : Has(r.left, x) <=> (x = Head(r.left) \/ Has(Tail(r.left), x))
      /\ \A x : Has(left, x) <=> (Has(more, x) \/ Has(Tail(r.left), x))
      /\ \A y, X : Guarded(r.left, y, X) /\ Guarded(more, y, X)
                     /\ (Head(r.left) \in X => \E x \in X : Has(more, x))
                   => Guarded(left, y, X)
  BY <1>1, LeftMoves
<1>3. /\ q.left = left /\ q.route = r.route /\ q.user = r.user /\ q.token = r.token
      /\ q.stage = "going" /\ q \in Requests(Seq(S))
  BY <1>1, <1>2 DEF Requests, Rest
<1> HIDE DEF q
<1>4. RoleKnown(q, w) /\ TokenKnown(q, w)
  BY <1>3 DEF OnTheWay, RoleKnown, TokenKnown, Known
<1>5. SessionKnown(q, w)
  <2>1. SessionKnown(r, w)
    BY DEF OnTheWay
  <2>2. ASSUME r.route \in SessionRoute, "session" \notin w
        PROVE  Guarded(left, "find", {"strict verify"})
    <3>1. Guarded(r.left, "find", {"strict verify"})
      BY <2>1, <2>2 DEF SessionKnown
    <3> QED
      BY <1>2, <2>2, <3>1 DEF Leads
  <2>3. ASSUME r.route \notin TokenRoute, "session" \notin w
        PROVE  Guarded(left, "staff", {"strict verify"})
    <3>1. Guarded(r.left, "staff", {"strict verify"})
      BY <2>1, <2>3 DEF SessionKnown
    <3> QED
      BY <1>2, <2>3, <3>1 DEF Leads
  <2> QED
    BY <1>3, <2>1, <2>2, <2>3 DEF SessionKnown, Known
<1>6. OwnerKnown(q, w)
  <2>1. OwnerKnown(r, w)
    BY DEF OnTheWay
  <2>2. ASSUME r.route \in TokenRoute, "token" \notin w
        PROVE  Guarded(left, "find owner", {"find token"})
    <3>1. Guarded(r.left, "find owner", {"find token"})
      BY <2>1, <2>2 DEF OwnerKnown
    <3> QED
      BY <1>2, <2>2, <3>1 DEF Leads
  <2>3. ASSUME r.route \in TokenRoute, ~Known(r)
        PROVE  Guarded(left, "v1", {"token", "find owner"})
    <3>1. Guarded(r.left, "v1", {"token", "find owner"})
      BY <2>1, <2>3 DEF OwnerKnown
    <3>2. Guarded(more, "v1", {"token", "find owner"})
      BY NothingToGuard DEF Leads
    <3>3. Head(r.left) \in {"token", "find owner"} =>
            \E x \in {"token", "find owner"} : Has(more, x)
      BY <2>3 DEF Leads
    <3> QED
      BY <1>2, <3>1, <3>2, <3>3
  <2> QED
    BY <1>3, <2>1, <2>2, <2>3 DEF OwnerKnown, Known
<1>7. WillKnow(q, w)
  <2>1. WillKnow(r, w)
    BY DEF OnTheWay
  <2>2. ASSUME r.route \in KnownRoute, ~Known(r) PROVE \E x \in Finder : Has(left, x)
    <3>1. PICK x \in Finder : Has(r.left, x)
      BY <2>1, <2>2 DEF WillKnow
    <3> QED
      BY <1>2, <2>2, <3>1 DEF Leads
  <2> QED
    BY <1>3, <2>2 DEF WillKnow, Known
<1>8. WillCheck(q, w)
  <2>1. WillCheck(r, w)
    BY DEF OnTheWay
  <2> QED
    BY <1>2, <1>3, <2>1 DEF WillCheck, Leads
<1>9. WillOpen(q, w)
  <2>1. WillOpen(r, w)
    BY DEF OnTheWay
  <2>2. ASSUME r.route # "status", "open" \notin w, ~StaffSeen(r, w)
        PROVE  \E x \in Opener : Has(left, x)
    <3>1. PICK x \in Opener : Has(r.left, x)
      BY <2>1, <2>2 DEF WillOpen
    <3> QED
      BY <1>2, <2>2, <3>1 DEF Leads
  <2> QED
    BY <1>3, <2>2 DEF WillOpen, StaffSeen
<1>10. OnTheWay(q, w)
  BY <1>3, <1>4, <1>5, <1>6, <1>7, <1>8, <1>9 DEF OnTheWay
<1> QED
  BY <1>10 DEF q

\* A user is found: it is known what it was and how.
LEMMA LearnsUser ==
  ASSUME NEW r, NEW w, OnTheWay(r, w), NEW u \in AccountRole, NEW q,
         q = [r EXCEPT !.user = u], "known" \in w,
         HasRole(u, "editor") => "editor" \in w, HasRole(u, "admin") => "admin" \in w,
         r.route \in SessionRoute => "session" \in w,
         r.route \in TokenRoute => "token" \in w
  PROVE  OnTheWay(q, w) /\ Known(q) /\ q.left = r.left /\ q.route = r.route
<1>1. /\ q.left = r.left /\ q.route = r.route /\ q.user = u /\ q.token = r.token
      /\ q.stage = "going" /\ q \in Requests(Seq(Part(q.route)))
  BY DEF OnTheWay, Requests
<1>2. Nobody \notin AccountRole
  BY GateAssumption DEF Nobody
<1>3. Known(q)
  BY <1>1, <1>2 DEF Known
<1>4. RoleKnown(q, w) /\ TokenKnown(q, w)
  BY <1>1 DEF OnTheWay, RoleKnown, TokenKnown
<1>5. SessionKnown(q, w)
  BY <1>1 DEF OnTheWay, SessionKnown
<1>6. OwnerKnown(q, w)
  BY <1>1, <1>3 DEF OnTheWay, OwnerKnown
<1>7. WillKnow(q, w) /\ WillCheck(q, w) /\ WillOpen(q, w)
  BY <1>1, <1>3 DEF OnTheWay, WillKnow, WillCheck, WillOpen, StaffSeen
<1> QED
  BY <1>1, <1>3, <1>4, <1>5, <1>6, <1>7 DEF OnTheWay

\* A token is found.
LEMMA LearnsToken ==
  ASSUME NEW r, NEW w, OnTheWay(r, w), NEW t \in {"read", "write"}, NEW q,
         q = [r EXCEPT !.token = t], "token" \in w, t = "write" => "write" \in w
  PROVE  OnTheWay(q, w) /\ q.left = r.left /\ q.route = r.route /\ q.user = r.user
<1>1. /\ q.left = r.left /\ q.route = r.route /\ q.user = r.user /\ q.token = t
      /\ q.stage = "going" /\ q \in Requests(Seq(Part(q.route)))
  BY DEF OnTheWay, Requests
<1>2. RoleKnown(q, w) /\ TokenKnown(q, w)
  BY <1>1 DEF OnTheWay, RoleKnown, TokenKnown, Known
<1>3. SessionKnown(q, w) /\ OwnerKnown(q, w)
  BY <1>1 DEF OnTheWay, SessionKnown, OwnerKnown, Known
<1>4. WillKnow(q, w) /\ WillCheck(q, w) /\ WillOpen(q, w)
  BY <1>1 DEF OnTheWay, WillKnow, WillCheck, WillOpen, StaffSeen, Known
<1> QED
  BY <1>1, <1>2, <1>3, <1>4 DEF OnTheWay

\* More has been so.
LEMMA SeesMore ==
  ASSUME NEW r, NEW w, NEW v, OnTheWay(r, w), w \subseteq v
  PROVE  OnTheWay(r, v)
BY DEF OnTheWay, RoleKnown, TokenKnown, SessionKnown, OwnerKnown, WillKnow, WillCheck, WillOpen,
       StaffSeen

-----------------------------------------------------------------------------
(* The steps of a request *)

PersonInv ==
  /\ person \in [exists : BOOLEAN, role : AccountRole, session : {"valid", "revoked"},
                 token : {"none", "read", "write"}]
  /\ maintenance \in BOOLEAN

RequestInv ==
  /\ inflight.stage \in {"none", "going", "handled", "refused"}
  /\ inflight.user \in AccountRole \cup {Nobody}
  /\ inflight.stage = "going" => Facts \subseteq was /\ OnTheWay(inflight, was)
  /\ HandledRightly

\* The middleware m has its turn.
LEMMA TurnFacts ==
  ASSUME RequestInv, NEW m, Turn(m)
  PROVE  /\ OnTheWay(inflight, was) /\ Facts \subseteq was
         /\ inflight.left # <<>> /\ Head(inflight.left) = m
         /\ m \in Part(inflight.route) /\ inflight.route \in Routes
         /\ inflight.left \in Seq(Part(inflight.route))
<1>1. /\ OnTheWay(inflight, was) /\ Facts \subseteq was
      /\ inflight.left # <<>> /\ Head(inflight.left) = m
  BY DEF RequestInv, Turn
<1>2. inflight.left \in Seq(Part(inflight.route)) /\ inflight.route \in Routes
  BY <1>1 DEF OnTheWay, Requests
<1> QED
  BY <1>1, <1>2, LeftMoves

\* Which middleware is of which routes.
LEMMA Parts ==
  ASSUME NEW route \in Routes
  PROVE  /\ route \in TokenRoute => Part(route) = TokenPart
         /\ route \notin TokenRoute => PlainPart \subseteq Part(route)
         /\ "log in" \in Part(route) => route = "login"
         /\ "fast" \in Part(route) => route = "look"
         /\ "fast verify" \in Part(route) => route \in {"look", "pages"}
         /\ "optional" \in Part(route) => route = "pages"
         /\ "find or not" \in Part(route) => route = "pages"
         /\ Part(route) \cap {"token gate", "find token", "find owner", "record use", "token", "v1",
                              "write", "editor"} # {} => route \in TokenRoute
         /\ Part(route) \cap {"firebase gate", "strict verify", "find", "strict"} # {} =>
              route \notin TokenRoute
BY DEF Part, TokenPart, PlainPart, TokenRoute, Routes, KnownRoute, SessionRoute

\* A few steps.
LEMMA MoreSteps ==
  ASSUME NEW S
  PROVE  /\ <<>> \in Seq(S) /\ \A y, X : ~Has(<<>>, y) /\ Guarded(<<>>, y, X)
         /\ \A a \in S : <<a>> \in Seq(S) /\ \A y, X : y # a => Guarded(<<a>>, y, X)
         /\ \A a, b \in S : /\ <<a, b>> \in Seq(S)
                            /\ \A y, X : y \notin {a, b} => Guarded(<<a, b>>, y, X)
         /\ \A a, b, c \in S :
              /\ <<a, b, c>> \in Seq(S)
              /\ \A y, X : y \notin {a, b, c} => Guarded(<<a, b, c>>, y, X)
<1>1. <<>> \in Seq(S) /\ \A a \in S : <<a>> \in Seq(S)
  OBVIOUS
<1>2. \A a, b \in S : <<a, b>> \in Seq(S)
  OBVIOUS
<1>3. \A a, b, c \in S : <<a, b, c>> \in Seq(S)
  OBVIOUS
<1>4. \A s, y, X : ~Has(s, y) => Guarded(s, y, X)
  BY NothingToGuard
<1>5. \A y, X : ~Has(<<>>, y) /\ Guarded(<<>>, y, X)
  BY <1>4, FewSteps
<1>6. \A a, y, X : y # a => Guarded(<<a>>, y, X)
  BY <1>4, FewSteps
<1>7. \A a, b, y, X : y \notin {a, b} => Guarded(<<a, b>>, y, X)
  BY <1>4, FewSteps
<1>8. \A a, b, c, y, X : y \notin {a, b, c} => Guarded(<<a, b, c>>, y, X)
  BY <1>4, FewSteps
<1> QED
  BY <1>1, <1>2, <1>3, <1>5, <1>6, <1>7, <1>8

\* Nothing more is to do.
LEMMA Passed ==
  ASSUME NEW r, NEW w, OnTheWay(r, w), r.left # <<>>,
         Head(r.left) = "strict verify" => "session" \in w,
         Head(r.left) = "find token" => "token" \in w,
         Head(r.left) \in Finder => Known(r) \/ r.route \notin KnownRoute,
         Head(r.left) \in {"token", "find owner"} => Known(r),
         Head(r.left) \in {"admin", "editor", "write"} => Head(r.left) \in w,
         Head(r.left) \in Opener => "open" \in w \/ StaffSeen(r, w)
  PROVE  OnTheWay(Rest(r, <<>>), w)
<1>1. /\ <<>> \in Seq(Part(r.route))
      /\ \A y, X : ~Has(<<>>, y) /\ Guarded(<<>>, y, X)
  BY MoreSteps
<1>2. Leads(r, w, <<>>)
  BY <1>1 DEF Leads
<1> QED
  BY <1>1, <1>2, GoOn

\* A middleware that puts nothing before the rest leaves the rest.
LEMMA TailPassed ==
  ASSUME NEW r, NEW w, OnTheWay(r, w), r.left # <<>>
  PROVE  Rest(r, <<>>) = [r EXCEPT !.left = Tail(@)]
<1>1. r.left \in Seq(Part(r.route))
  BY DEF OnTheWay, Requests
<1>2. Tail(r.left) \in Seq(Part(r.route))
  BY <1>1, LeftMoves
<1>3. <<>> \o Tail(r.left) = Tail(r.left)
  BY <1>2
<1> QED
  BY <1>3 DEF Rest

\* GoesOn in the words of GoOn.
LEMMA GoesOnRest ==
  ASSUME NEW more, GoesOn(more)
  PROVE  inflight' = Rest(inflight, more)
BY DEF GoesOn, Rest

\* A middleware does not touch what is around the request.
LEMMA RequestStep ==
  ASSUME RequestInv, inflight.stage = "going", UNCHANGED <<person, maintenance, was>>,
         OnTheWay(inflight', was) \/ Refuses
  PROVE  RequestInv'
<1>1. Facts' = Facts /\ Facts \subseteq was
  BY DEF Facts, RequestInv
<1>2. CASE OnTheWay(inflight', was)
  <2>1. inflight'.stage = "going" /\ inflight'.user \in AccountRole \cup {Nobody}
    BY <1>2 DEF OnTheWay, Requests
  <2> QED
    BY <1>1, <1>2, <2>1 DEF RequestInv, HandledRightly
<1>3. CASE Refuses
  <2>1. inflight'.stage = "refused" /\ inflight'.user = Nobody
    BY <1>3 DEF Refuses, Idle
  <2> QED
    BY <2>1 DEF RequestInv, HandledRightly
<1> QED
  BY <1>2, <1>3

\* FirebaseMaintenanceMiddleware, APITokenMaintenanceMiddleware.
LEMMA GatesStep == ASSUME RequestInv, Gates PROVE RequestInv'
<1>1. PICK gate \in {"firebase gate", "token gate"} :
        /\ Turn(gate)
        /\ IF ~maintenance THEN GoesOn(<<>>)
           ELSE IF inflight.bearer THEN GoesOn(GateSteps(gate)) ELSE Refuses
  BY DEF Gates
<1>2. /\ OnTheWay(inflight, was) /\ Facts \subseteq was /\ inflight.left # <<>>
      /\ Head(inflight.left) = gate /\ gate \in Part(inflight.route) /\ inflight.route \in Routes
  BY <1>1, TurnFacts
<1>0. UNCHANGED <<person, maintenance, was>> /\ inflight.stage = "going"
  BY <1>1 DEF Gates, Unlimited, Turn
<1>3. CASE ~maintenance
  <2>1. "open" \in was
    BY <1>2, <1>3 DEF Facts
  <2>2. OnTheWay(Rest(inflight, <<>>), was)
    BY <1>2, <2>1, Passed DEF Finder
  <2> QED
    BY <1>0, <1>1, <1>3, <2>2, GoesOnRest, RequestStep
<1>4. CASE maintenance /\ inflight.bearer /\ gate = "firebase gate"
  <2> DEFINE more == <<"strict verify", "find", "staff">>
  <2>1. more = GateSteps(gate) /\ inflight.route \notin TokenRoute
    BY <1>2, <1>4, Parts DEF GateSteps
  <2>2. {"strict verify", "find", "staff"} \subseteq Part(inflight.route)
    BY <1>2, <2>1, Parts DEF PlainPart
  <2>3. more \in Seq(Part(inflight.route)) /\ Guarded(more, "find owner", {"find token"})
    BY <2>2, MoreSteps
  <2>4. Has(more, "staff") /\ ~Has(more, "v1")
    <3>1. "v1" # "strict verify" /\ "v1" # "find" /\ "v1" # "staff"
      OBVIOUS
    <3> QED
      BY <3>1, TheSteps
  <2>5. Guarded(more, "find", {"strict verify"}) /\ Guarded(more, "staff", {"strict verify"})
    BY SecondGuarded
  <2>6. inflight' = Rest(inflight, more)
    BY <1>1, <1>4, <2>1, GoesOnRest
  <2> HIDE DEF more
  <2>7. Leads(inflight, was, more)
    BY <1>2, <1>4, <2>3, <2>4, <2>5 DEF Leads, Finder, Opener
  <2>8. OnTheWay(Rest(inflight, more), was)
    BY <1>2, <2>3, <2>7, GoOn
  <2> QED
    BY <1>0, <2>6, <2>8, RequestStep
<1>5. CASE maintenance /\ inflight.bearer /\ gate = "token gate"
  <2> DEFINE more == <<"find token", "find owner", "staff">>
  <2>1. more = GateSteps(gate) /\ inflight.route \in TokenRoute
    BY <1>2, <1>5, Parts DEF GateSteps
  <2>2. {"find token", "find owner", "staff"} \subseteq Part(inflight.route)
    BY <1>2, <2>1, Parts DEF TokenPart
  <2>3. more \in Seq(Part(inflight.route)) /\ Guarded(more, "find", {"strict verify"})
    BY <2>2, MoreSteps
  <2>4. Has(more, "staff") /\ ~Has(more, "v1")
    <3>1. "v1" # "find token" /\ "v1" # "find owner" /\ "v1" # "staff"
      OBVIOUS
    <3> QED
      BY <3>1, TheSteps
  <2>5. Guarded(more, "find owner", {"find token"})
    BY SecondGuarded
  <2>6. inflight' = Rest(inflight, more)
    BY <1>1, <1>5, <2>1, GoesOnRest
  <2> HIDE DEF more
  <2>7. Leads(inflight, was, more)
    BY <1>2, <1>5, <2>1, <2>3, <2>4, <2>5 DEF Leads, Finder, Opener
  <2>8. OnTheWay(Rest(inflight, more), was)
    BY <1>2, <2>3, <2>7, GoOn
  <2> QED
    BY <1>0, <2>6, <2>8, RequestStep
<1>6. CASE maintenance /\ ~inflight.bearer
  BY <1>0, <1>1, <1>6, RequestStep
<1> QED
  BY <1>3, <1>4, <1>5, <1>6

\* FirebaseIDTokenMiddleware, strict and fast.
LEMMA AuthenticatesStep == ASSUME RequestInv, Authenticates PROVE RequestInv'
<1>1. PICK way \in {"strict", "fast"} :
        /\ Turn(way)
        /\ IF inflight.user # Nobody THEN GoesOn(<<>>)
           ELSE IF inflight.bearer THEN GoesOn(<<Verification(way), "find">>) ELSE Refuses
  BY DEF Authenticates
<1>2. /\ OnTheWay(inflight, was) /\ Facts \subseteq was /\ inflight.left # <<>>
      /\ Head(inflight.left) = way /\ way \in Part(inflight.route) /\ inflight.route \in Routes
  BY <1>1, TurnFacts
<1>0. UNCHANGED <<person, maintenance, was>> /\ inflight.stage = "going"
  BY <1>1 DEF Authenticates, Unlimited, Turn
<1>3. CASE Known(inflight)
  <2>1. OnTheWay(Rest(inflight, <<>>), was)
    BY <1>2, <1>3, Passed DEF Opener
  <2> QED
    BY <1>0, <1>1, <1>3, <2>1, GoesOnRest, RequestStep DEF Known
<1>4. CASE ~Known(inflight) /\ inflight.bearer
  <2> DEFINE v == Verification(way)  more == <<v, "find">>
  <2>1. inflight.route \notin TokenRoute /\ (way = "fast" => inflight.route = "look")
    <3>1. CASE way = "strict"
      <4>1. "strict" \in Part(inflight.route) \cap {"firebase gate", "strict verify", "find", "strict"}
        BY <1>2, <3>1
      <4> QED
        BY <1>2, <3>1, <4>1, Parts
    <3>2. CASE way = "fast"
      <4>1. inflight.route = "look"
        BY <1>2, <3>2, Parts
      <4> QED
        BY <4>1 DEF TokenRoute
    <3> QED
      BY <1>1, <3>1, <3>2
  <2>2. /\ v \in {"strict verify", "fast verify"}
        /\ inflight.route \in SessionRoute => v = "strict verify"
    BY <2>1 DEF Verification, SessionRoute
  <2>3. {v, "find"} \subseteq Part(inflight.route)
    BY <1>2, <2>1
       DEF Verification, Part, PlainPart, TokenRoute, Routes, KnownRoute, SessionRoute
  <2>6. inflight' = Rest(inflight, more)
    BY <1>1, <1>4, GoesOnRest DEF Known
  <2> HIDE DEF v
  <2>4. /\ more \in Seq(Part(inflight.route)) /\ Guarded(more, "find owner", {"find token"})
        /\ Guarded(more, "staff", {"strict verify"})
    BY <2>2, <2>3, MoreSteps
  <2>5. /\ inflight.route \in SessionRoute => Guarded(more, "find", {"strict verify"})
        /\ Has(more, "find") /\ ~Has(more, "v1")
    <3>1. v = "strict verify" => Guarded(more, "find", {"strict verify"})
      BY SecondGuarded
    <3>2. Has(more, "find") /\ ~Has(more, "v1")
      <4>1. "v1" # v /\ "v1" # "find"
        BY <2>2
      <4> QED
        BY <4>1, TheSteps
    <3> QED
      BY <2>2, <3>1, <3>2
  <2> HIDE DEF more
  <2>7. Leads(inflight, was, more)
    BY <1>2, <2>4, <2>5 DEF Leads, Finder, Opener
  <2>8. OnTheWay(Rest(inflight, more), was)
    BY <1>2, <2>4, <2>7, GoOn
  <2> QED
    BY <1>0, <2>6, <2>8, RequestStep
<1>5. CASE ~Known(inflight) /\ ~inflight.bearer
  BY <1>0, <1>1, <1>5, RequestStep DEF Known
<1> QED
  BY <1>3, <1>4, <1>5

\* OptionalFirebaseIDTokenMiddleware.
LEMMA AuthenticatesOptionallyStep ==
  ASSUME RequestInv, AuthenticatesOptionally PROVE RequestInv'
<1>1. /\ Turn("optional")
      /\ IF inflight.user # Nobody \/ ~inflight.bearer THEN GoesOn(<<>>)
         ELSE GoesOn(<<"fast verify", "find or not">>)
  BY DEF AuthenticatesOptionally
<1>2. /\ OnTheWay(inflight, was) /\ Facts \subseteq was /\ inflight.left # <<>>
      /\ Head(inflight.left) = "optional" /\ inflight.route = "pages"
  BY <1>1, TurnFacts, Parts
<1>0. UNCHANGED <<person, maintenance, was>> /\ inflight.stage = "going"
  BY <1>1 DEF AuthenticatesOptionally, Unlimited, Turn
<1>3. CASE inflight.user # Nobody \/ ~inflight.bearer
  <2>1. OnTheWay(Rest(inflight, <<>>), was)
    BY <1>2, Passed DEF Opener, Finder
  <2> QED
    BY <1>0, <1>1, <1>3, <2>1, GoesOnRest, RequestStep
<1>4. CASE ~(inflight.user # Nobody \/ ~inflight.bearer)
  <2> DEFINE more == <<"fast verify", "find or not">>
  <2>1. {"fast verify", "find or not"} \subseteq Part(inflight.route)
    BY <1>2 DEF Part, TokenRoute
  <2>2. /\ more \in Seq(Part(inflight.route)) /\ Guarded(more, "find owner", {"find token"})
        /\ Guarded(more, "staff", {"strict verify"}) /\ Guarded(more, "find", {"strict verify"})
    BY <2>1, MoreSteps
  <2>3. ~Has(more, "v1")
    <3>1. "v1" # "fast verify" /\ "v1" # "find or not"
      OBVIOUS
    <3> QED
      BY <3>1, TheSteps
  <2>4. inflight' = Rest(inflight, more)
    BY <1>1, <1>4, GoesOnRest
  <2> HIDE DEF more
  <2>5. Leads(inflight, was, more)
    BY <1>2, <2>2, <2>3 DEF Leads, Finder, Opener
  <2>6. OnTheWay(Rest(inflight, more), was)
    BY <1>2, <2>2, <2>5, GoOn
  <2> QED
    BY <1>0, <2>4, <2>6, RequestStep
<1> QED
  BY <1>3, <1>4

\* Firebase says that the session is good, or was not asked whether it was revoked.
LEMMA VerifiesStep == ASSUME RequestInv, Verifies PROVE RequestInv'
<1>1. CASE Turn("strict verify") /\ IF person.session = "valid" THEN GoesOn(<<>>) ELSE Refuses
  <2>1. /\ OnTheWay(inflight, was) /\ Facts \subseteq was /\ inflight.left # <<>>
        /\ Head(inflight.left) = "strict verify"
    BY <1>1, TurnFacts
  <2>2. UNCHANGED <<person, maintenance, was>> /\ inflight.stage = "going"
    BY <1>1 DEF Verifies, Unlimited, Turn
  <2>3. CASE person.session = "valid"
    <3>1. "session" \in was
      BY <2>1, <2>3 DEF Facts
    <3>2. OnTheWay(Rest(inflight, <<>>), was)
      BY <2>1, <3>1, Passed DEF Opener, Finder
    <3> QED
      BY <1>1, <2>2, <2>3, <3>2, GoesOnRest, RequestStep
  <2>4. CASE person.session # "valid"
    BY <1>1, <2>2, <2>4, RequestStep
  <2> QED
    BY <2>3, <2>4
<1>2. CASE Turn("fast verify") /\ GoesOn(<<>>)
  <2>1. /\ OnTheWay(inflight, was) /\ inflight.left # <<>> /\ Head(inflight.left) = "fast verify"
    BY <1>2, TurnFacts
  <2>2. UNCHANGED <<person, maintenance, was>> /\ inflight.stage = "going"
    BY <1>2 DEF Verifies, Unlimited, Turn
  <2>3. OnTheWay(Rest(inflight, <<>>), was)
    BY <2>1, Passed DEF Opener, Finder
  <2> QED
    BY <1>2, <2>2, <2>3, GoesOnRest, RequestStep
<1> QED
  BY <1>1, <1>2 DEF Verifies

\* What is known of a user that exists.
LEMMA UserFacts ==
  ASSUME PersonInv, person.exists, Facts \subseteq was
  PROVE  /\ person.role \in AccountRole /\ "known" \in was
         /\ HasRole(person.role, "editor") => "editor" \in was
         /\ HasRole(person.role, "admin") => "admin" \in was
BY DEF PersonInv, Facts

\* The user of the account is read: a session was seen before where that is promised.
LEMMA FindsStep == ASSUME PersonInv, RequestInv, Finds PROVE RequestInv'
<1>1. PICK m \in {"find", "find or not"} : Turn(m)
  BY DEF Finds
<1>2. /\ OnTheWay(inflight, was) /\ Facts \subseteq was /\ inflight.left # <<>>
      /\ Head(inflight.left) = m /\ m \in Part(inflight.route) /\ inflight.route \in Routes
      /\ inflight.left \in Seq(Part(inflight.route))
  BY <1>1, TurnFacts
<1>3. inflight.route \notin TokenRoute
  <2>1. CASE m = "find"
    <3>1. m \in Part(inflight.route) \cap {"firebase gate", "strict verify", "find", "strict"}
      BY <1>2, <2>1
    <3> QED
      BY <1>2, <3>1, Parts
  <2>2. CASE m = "find or not"
    <3>1. inflight.route = "pages"
      BY <1>2, <2>2, Parts
    <3> QED
      BY <3>1 DEF TokenRoute
  <2> QED
    BY <1>1, <2>1, <2>2
<1>0. UNCHANGED <<person, maintenance, was>> /\ inflight.stage = "going"
  BY <1>1 DEF Finds, Unlimited, Turn
<1>4. CASE person.exists
  <2> DEFINE q == [inflight EXCEPT !.user = person.role]
  <2>1. inflight.route \in SessionRoute => "session" \in was
    <3>1. m = "find or not" => inflight.route \notin SessionRoute
      BY <1>2, Parts DEF SessionRoute
    <3>2. m = "find" => ~Guarded(inflight.left, "find", {"strict verify"})
      BY <1>2, GuardedTail
    <3> QED
      BY <1>1, <1>2, <3>1, <3>2 DEF OnTheWay, SessionKnown
  <2>2. /\ person.role \in AccountRole /\ "known" \in was
        /\ HasRole(person.role, "editor") => "editor" \in was
        /\ HasRole(person.role, "admin") => "admin" \in was
    BY <1>2, <1>4, UserFacts
  <2>3. OnTheWay(q, was) /\ Known(q) /\ q.left = inflight.left /\ q.route = inflight.route
    BY <1>2, <1>3, <2>1, <2>2, LearnsUser
  <2>4. inflight' = [q EXCEPT !.left = Tail(@)]
    <3>1. inflight' = [inflight EXCEPT !.left = Tail(@), !.user = person.role]
      BY <1>4 DEF Finds
    <3>2. inflight \in Requests(Seq(Part(inflight.route)))
      BY <1>2 DEF OnTheWay
    <3> QED
      BY <3>1, <3>2 DEF Requests
  <2> HIDE DEF q
  <2>5. OnTheWay(Rest(q, <<>>), was) /\ Rest(q, <<>>) = [q EXCEPT !.left = Tail(@)]
    <3>1. q.left # <<>> /\ Head(q.left) = m
      BY <1>2, <2>3
    <3>2. Rest(q, <<>>) = [q EXCEPT !.left = Tail(@)]
      BY <2>3, <3>1, TailPassed
    <3> QED
      BY <1>1, <2>3, <3>1, <3>2, Passed DEF Opener
  <2> QED
    BY <1>0, <2>4, <2>5, RequestStep
<1>5. CASE ~person.exists /\ m = "find or not"
  <2>1. ~Turn("find")
    BY <1>1, <1>5 DEF Turn
  <2>2. OnTheWay(Rest(inflight, <<>>), was)
    BY <1>2, <1>5, Passed DEF Opener, Finder
  <2> QED
    BY <1>0, <1>5, <2>1, <2>2, GoesOnRest, RequestStep DEF Finds
<1>6. CASE ~person.exists /\ m = "find"
  BY <1>0, <1>1, <1>6, RequestStep DEF Finds
<1> QED
  BY <1>1, <1>4, <1>5, <1>6

\* APITokenMiddleware.
LEMMA UsesTokenStep == ASSUME RequestInv, UsesToken PROVE RequestInv'
<1>1. /\ Turn("token")
      /\ IF inflight.user # Nobody THEN GoesOn(<<>>)
         ELSE IF inflight.bearer THEN GoesOn(<<"find token", "find owner">>) ELSE Refuses
  BY DEF UsesToken
<1>2. /\ OnTheWay(inflight, was) /\ Facts \subseteq was /\ inflight.left # <<>>
      /\ Head(inflight.left) = "token" /\ "token" \in Part(inflight.route)
      /\ inflight.route \in Routes
  BY <1>1, TurnFacts
<1>0. UNCHANGED <<person, maintenance, was>> /\ inflight.stage = "going"
  BY <1>1 DEF UsesToken, Unlimited, Turn
<1>3. CASE Known(inflight)
  <2>1. OnTheWay(Rest(inflight, <<>>), was)
    BY <1>2, <1>3, Passed DEF Opener
  <2> QED
    BY <1>0, <1>1, <1>3, <2>1, GoesOnRest, RequestStep DEF Known
<1>4. CASE ~Known(inflight) /\ inflight.bearer
  <2> DEFINE more == <<"find token", "find owner">>
  <2>1. inflight.route \in TokenRoute
    <3>1. "token" \in Part(inflight.route) \cap {"token gate", "find token", "find owner",
                                                 "record use", "token", "v1", "write", "editor"}
      BY <1>2
    <3> QED
      BY <1>2, <3>1, Parts
  <2>2. {"find token", "find owner"} \subseteq Part(inflight.route)
    BY <1>2, <2>1, Parts DEF TokenPart
  <2>3. more \in Seq(Part(inflight.route)) /\ Guarded(more, "find", {"strict verify"})
    BY <2>2, MoreSteps
  <2>4. Has(more, "find owner") /\ ~Has(more, "v1")
    <3>1. "v1" # "find token" /\ "v1" # "find owner"
      OBVIOUS
    <3> QED
      BY <3>1, TheSteps
  <2>5. Guarded(more, "find owner", {"find token"})
    BY SecondGuarded
  <2>6. inflight' = Rest(inflight, more)
    BY <1>1, <1>4, GoesOnRest DEF Known
  <2> HIDE DEF more
  <2>7. Leads(inflight, was, more)
    BY <1>2, <2>1, <2>3, <2>4, <2>5 DEF Leads, Finder, Opener
  <2>8. OnTheWay(Rest(inflight, more), was)
    BY <1>2, <2>3, <2>7, GoOn
  <2> QED
    BY <1>0, <2>6, <2>8, RequestStep
<1>5. CASE ~Known(inflight) /\ ~inflight.bearer
  BY <1>0, <1>1, <1>5, RequestStep DEF Known
<1> QED
  BY <1>3, <1>4, <1>5

\* Validate reads the row of the token.
LEMMA FindsTokenStep == ASSUME PersonInv, RequestInv, FindsToken PROVE RequestInv'
<1>1. PICK m \in {"find token", "record use"} : Turn(m)
  BY DEF FindsToken
<1>2. /\ OnTheWay(inflight, was) /\ Facts \subseteq was /\ inflight.left # <<>>
      /\ Head(inflight.left) = m
  BY <1>1, TurnFacts
<1>0. UNCHANGED <<person, maintenance, was>> /\ inflight.stage = "going"
  BY <1>1 DEF FindsToken, Unlimited, Turn
<1>3. CASE person.token # "none"
  <2> DEFINE q == [inflight EXCEPT !.token = person.token]
  <2>1. /\ person.token \in {"read", "write"} /\ "token" \in was
        /\ person.token = "write" => "write" \in was
    BY <1>2, <1>3 DEF PersonInv, Facts
  <2>2. /\ OnTheWay(q, was) /\ q.left = inflight.left /\ q.route = inflight.route
        /\ q.user = inflight.user
    BY <1>2, <2>1, LearnsToken
  <2>3. inflight' = [q EXCEPT !.left = Tail(@)]
    <3>1. inflight' = [inflight EXCEPT !.left = Tail(@), !.token = person.token]
      BY <1>3 DEF FindsToken
    <3>2. inflight \in Requests(Seq(Part(inflight.route)))
      BY <1>2 DEF OnTheWay
    <3> QED
      BY <3>1, <3>2 DEF Requests
  <2> HIDE DEF q
  <2>4. OnTheWay(Rest(q, <<>>), was) /\ Rest(q, <<>>) = [q EXCEPT !.left = Tail(@)]
    <3>1. q.left # <<>> /\ Head(q.left) = m
      BY <1>2, <2>2
    <3>2. Rest(q, <<>>) = [q EXCEPT !.left = Tail(@)]
      BY <2>2, <3>1, TailPassed
    <3> QED
      BY <1>1, <2>1, <2>2, <3>1, <3>2, Passed DEF Opener, Finder
  <2> QED
    BY <1>0, <2>3, <2>4, RequestStep
<1>4. CASE person.token = "none"
  BY <1>0, <1>4, RequestStep DEF FindsToken
<1> QED
  BY <1>3, <1>4

\* Validate reads the owner: the token has been seen.
LEMMA ValidatesStep == ASSUME PersonInv, RequestInv, Validates PROVE RequestInv'
<1>1. Turn("find owner")
  BY DEF Validates
<1>2. /\ OnTheWay(inflight, was) /\ Facts \subseteq was /\ inflight.left # <<>>
      /\ Head(inflight.left) = "find owner" /\ "find owner" \in Part(inflight.route)
      /\ inflight.route \in Routes /\ inflight.left \in Seq(Part(inflight.route))
  BY <1>1, TurnFacts
<1>3. inflight.route \in TokenRoute
  <2>1. "find owner" \in Part(inflight.route) \cap {"token gate", "find token", "find owner",
                                                    "record use", "token", "v1", "write", "editor"}
    BY <1>2
  <2> QED
    BY <1>2, <2>1, Parts
<1>0. UNCHANGED <<person, maintenance, was>> /\ inflight.stage = "going"
  BY <1>1 DEF Validates, Unlimited, Turn
<1>4. CASE person.exists
  <2> DEFINE q == [inflight EXCEPT !.user = person.role]
  <2>1. PICK due \in BOOLEAN :
          inflight' = [inflight EXCEPT !.user = person.role,
                         !.left = (IF due THEN <<"record use">> ELSE <<>>) \o Tail(@)]
    BY <1>4 DEF Validates
  <2> DEFINE more == IF due THEN <<"record use">> ELSE <<>>
  <2>2. /\ person.role \in AccountRole /\ "known" \in was
        /\ HasRole(person.role, "editor") => "editor" \in was
        /\ HasRole(person.role, "admin") => "admin" \in was
    BY <1>2, <1>4, UserFacts
  <2>3. "token" \in was /\ inflight.route \notin SessionRoute
    <3>1. ~Guarded(inflight.left, "find owner", {"find token"})
      BY <1>2, GuardedTail
    <3> QED
      BY <1>2, <1>3, <3>1 DEF OnTheWay, OwnerKnown, TokenRoute, SessionRoute
  <2>4. OnTheWay(q, was) /\ Known(q) /\ q.left = inflight.left /\ q.route = inflight.route
    BY <1>2, <2>2, <2>3, LearnsUser
  <2>5. /\ more \in Seq(Part(inflight.route)) /\ ~Has(more, "v1")
        /\ Guarded(more, "find owner", {"find token"}) /\ Guarded(more, "find", {"strict verify"})
        /\ Guarded(more, "staff", {"strict verify"})
    <3>1. "record use" \in Part(inflight.route)
      BY <1>2, <1>3, Parts DEF TokenPart
    <3>2. ~Has(<<"record use">>, "v1")
      BY FewSteps
    <3>3. CASE due
      BY <3>1, <3>2, <3>3, MoreSteps
    <3>4. CASE ~due
      BY <3>1, <3>4, MoreSteps
    <3> QED
      BY <3>3, <3>4
  <2> HIDE DEF more
  <2>6. inflight' = Rest(q, more)
    <3>1. inflight \in Requests(Seq(Part(inflight.route)))
      BY <1>2 DEF OnTheWay
    <3>2. inflight' = [inflight EXCEPT !.user = person.role, !.left = more \o Tail(@)]
      BY <2>1 DEF more
    <3> QED
      BY <3>1, <3>2 DEF Requests, Rest
  <2> HIDE DEF q
  <2>7. q.left # <<>> /\ Head(q.left) = "find owner"
    BY <1>2, <2>4
  <2>8. Leads(q, was, more)
    BY <2>3, <2>4, <2>5, <2>7 DEF Leads, Opener
  <2>9. OnTheWay(Rest(q, more), was)
    BY <2>4, <2>5, <2>7, <2>8, GoOn
  <2> QED
    BY <1>0, <2>6, <2>9, RequestStep
<1>5. CASE ~person.exists
  BY <1>0, <1>5, RequestStep DEF Validates
<1> QED
  BY <1>4, <1>5

\* RequireRole and the gates' own check: the role is one the user had since the request came.
LEMMA ChecksRoleStep == ASSUME RequestInv, ChecksRole PROVE RequestInv'
<1>1. PICK check \in {"staff", "editor", "admin"} :
        /\ Turn(check)
        /\ IF HasRole(inflight.user, IF check = "staff" THEN "editor" ELSE check)
           THEN GoesOn(<<>>) ELSE Refuses
  BY DEF ChecksRole
<1>2. /\ OnTheWay(inflight, was) /\ Facts \subseteq was /\ inflight.left # <<>>
      /\ Head(inflight.left) = check /\ check \in Part(inflight.route)
      /\ inflight.route \in Routes /\ inflight.left \in Seq(Part(inflight.route))
  BY <1>1, TurnFacts
<1>0. UNCHANGED <<person, maintenance, was>> /\ inflight.stage = "going"
  BY <1>1 DEF ChecksRole, Unlimited, Turn
<1>3. CASE HasRole(inflight.user, IF check = "staff" THEN "editor" ELSE check)
  <2>1. Known(inflight)
    BY <1>1, <1>3 DEF HasRole, Known, Nobody
  <2>2. RoleKnown(inflight, was)
    BY <1>2 DEF OnTheWay
  <2>3. CASE check = "staff"
    <3>1. "editor" \in was
      BY <1>3, <2>1, <2>2, <2>3 DEF RoleKnown
    <3>2. inflight.route \in TokenRoute => "token" \in was
      BY <1>2, <2>1 DEF OnTheWay, OwnerKnown
    <3>3. inflight.route \notin TokenRoute => "session" \in was
      <4>1. ~Guarded(inflight.left, "staff", {"strict verify"})
        BY <1>2, <2>3, GuardedTail
      <4> QED
        BY <1>2, <4>1 DEF OnTheWay, SessionKnown
    <3>4. StaffSeen(inflight, was)
      BY <3>1, <3>2, <3>3 DEF StaffSeen
    <3>5. OnTheWay(Rest(inflight, <<>>), was)
      BY <1>2, <2>3, <3>4, Passed DEF Finder
    <3> QED
      BY <1>0, <1>1, <1>3, <3>5, GoesOnRest, RequestStep
  <2>4. CASE check # "staff"
    <3>1. check \in {"editor", "admin"} /\ check \in was
      BY <1>1, <1>3, <2>1, <2>2, <2>4 DEF RoleKnown
    <3>2. OnTheWay(Rest(inflight, <<>>), was)
      BY <1>2, <3>1, Passed DEF Finder, Opener
    <3> QED
      BY <1>0, <1>1, <1>3, <3>2, GoesOnRest, RequestStep
  <2> QED
    BY <2>3, <2>4
<1>4. CASE ~HasRole(inflight.user, IF check = "staff" THEN "editor" ELSE check)
  BY <1>0, <1>1, <1>4, RequestStep
<1> QED
  BY <1>3, <1>4

\* RequireAPITokenWrite.
LEMMA ChecksWriteStep == ASSUME RequestInv, ChecksWrite PROVE RequestInv'
<1>1. Turn("write") /\ IF inflight.token = "write" THEN GoesOn(<<>>) ELSE Refuses
  BY DEF ChecksWrite
<1>2. /\ OnTheWay(inflight, was) /\ inflight.left # <<>> /\ Head(inflight.left) = "write"
  BY <1>1, TurnFacts
<1>0. UNCHANGED <<person, maintenance, was>> /\ inflight.stage = "going"
  BY <1>1 DEF ChecksWrite, Unlimited, Turn
<1>3. CASE inflight.token = "write"
  <2>1. "write" \in was
    BY <1>2, <1>3 DEF OnTheWay, TokenKnown
  <2>2. OnTheWay(Rest(inflight, <<>>), was)
    BY <1>2, <2>1, Passed DEF Finder, Opener
  <2> QED
    BY <1>0, <1>1, <1>3, <2>2, GoesOnRest, RequestStep
<1>4. CASE inflight.token # "write"
  BY <1>0, <1>1, <1>4, RequestStep
<1> QED
  BY <1>3, <1>4

\* Login in a maintenance: staff only, known by a session that is good.
LEMMA LogsInStep == ASSUME RequestInv, LogsIn PROVE RequestInv'
<1>1. /\ Turn("log in")
      /\ IF maintenance /\ ~HasRole(inflight.user, "editor") THEN Refuses ELSE GoesOn(<<>>)
  BY DEF LogsIn
<1>2. /\ OnTheWay(inflight, was) /\ Facts \subseteq was /\ inflight.left # <<>>
      /\ Head(inflight.left) = "log in" /\ inflight.route = "login"
  BY <1>1, TurnFacts, Parts
<1>0. UNCHANGED <<person, maintenance, was>> /\ inflight.stage = "going"
  BY <1>1 DEF LogsIn, Unlimited, Turn
<1>3. CASE maintenance /\ ~HasRole(inflight.user, "editor")
  BY <1>0, <1>1, <1>3, RequestStep
<1>4. CASE ~(maintenance /\ ~HasRole(inflight.user, "editor"))
  <2>1. "open" \in was \/ StaffSeen(inflight, was)
    <3>1. CASE ~maintenance
      BY <1>2, <3>1 DEF Facts
    <3>2. CASE HasRole(inflight.user, "editor")
      <4>1. Known(inflight)
        BY <3>2 DEF HasRole, Known, Nobody
      <4>2. "editor" \in was
        BY <1>2, <3>2, <4>1 DEF OnTheWay, RoleKnown
      <4>3. "session" \in was
        BY <1>2, <4>1 DEF OnTheWay, SessionKnown, SessionRoute
      <4> QED
        BY <1>2, <4>2, <4>3 DEF StaffSeen, TokenRoute
    <3> QED
      BY <1>4, <3>1, <3>2
  <2>2. OnTheWay(Rest(inflight, <<>>), was)
    BY <1>2, <2>1, Passed DEF Finder
  <2> QED
    BY <1>0, <1>1, <1>4, <2>2, GoesOnRest, RequestStep
<1> QED
  BY <1>3, <1>4

\* A limit lets the request go on, or refuses it.
LEMMA LimitsStep == ASSUME RequestInv, Limits PROVE RequestInv'
<1>1. PICK store \in Store \cup {"v1"} : Turn(store) /\ (GoesOn(<<>>) \/ Refuses)
  BY DEF Limits
<1>2. /\ OnTheWay(inflight, was) /\ inflight.left # <<>> /\ Head(inflight.left) = store
  BY <1>1, TurnFacts
<1>0. UNCHANGED <<person, maintenance, was>> /\ inflight.stage = "going"
  BY <1>1 DEF Limits, Turn
<1>3. OnTheWay(Rest(inflight, <<>>), was)
  BY <1>1, <1>2, Passed DEF Store, Finder, Opener
<1> QED
  BY <1>0, <1>1, <1>3, GoesOnRest, RequestStep

\* Nothing is left, so all that was promised has been seen.
LEMMA HandlesStep == ASSUME RequestInv, Handles PROVE RequestInv'
<1>1. /\ OnTheWay(inflight, was) /\ Facts \subseteq was /\ inflight.left = <<>>
      /\ inflight.route \in Routes
  BY DEF RequestInv, Handles, OnTheWay, Requests
<1>2. /\ inflight' = [Idle EXCEPT !.stage = "handled", !.route = inflight.route]
      /\ UNCHANGED <<person, maintenance, was>>
  BY DEF Handles, Unlimited
<1>3. /\ inflight'.stage = "handled" /\ inflight'.route = inflight.route
      /\ inflight'.user = Nobody
  BY <1>2 DEF Idle
<1>4. \A x : ~Has(inflight.left, x)
  BY <1>1, FewSteps
<1>5. WillKnow(inflight, was) /\ WillCheck(inflight, was) /\ WillOpen(inflight, was)
      /\ SessionKnown(inflight, was) /\ OwnerKnown(inflight, was) /\ RoleKnown(inflight, was)
  BY <1>1 DEF OnTheWay
<1>6. inflight.route \in KnownRoute => Known(inflight) /\ "known" \in was
  BY <1>4, <1>5 DEF WillKnow, RoleKnown
<1>7. inflight.route \in SessionRoute => "session" \in was
  BY <1>5, <1>6 DEF SessionKnown, KnownRoute
<1>8. inflight.route \in TokenRoute => "token" \in was
  BY <1>5, <1>6 DEF OwnerKnown, KnownRoute
<1>9. /\ inflight.route \in {"admin", "version"} => "admin" \in was
      /\ inflight.route = "v1edit" => "editor" \in was /\ "write" \in was
  BY <1>4, <1>5 DEF WillCheck
<1>10. inflight.route # "status" => "open" \in was \/ StaffSeen(inflight, was)
  BY <1>4, <1>5 DEF WillOpen
<1>11. Promised(inflight.route) \subseteq was
  BY <1>6, <1>7, <1>8, <1>9 DEF Promised, KnownRoute, SessionRoute, TokenRoute
<1>12. DOMAIN ExternalRoutes \cup {"version"} = TokenRoute
  BY DEF ExternalRoutes, TokenRoute
<1>13. HandledRightly'
  BY <1>2, <1>3, <1>10, <1>11, <1>12 DEF HandledRightly, StaffSeen
<1> QED
  BY <1>3, <1>13 DEF RequestInv

\* What a chain of middlewares is to begin with.
Begins(route, chain) ==
  /\ chain \in Seq(Part(route))
  /\ ~Has(chain, "find") /\ ~Has(chain, "staff") /\ ~Has(chain, "find owner")
  /\ Guarded(chain, "v1", {"token", "find owner"})
  /\ route \in KnownRoute => \E x \in Finder : Has(chain, x)
  /\ route \in {"admin", "version"} => Has(chain, "admin")
  /\ route = "v1edit" => Has(chain, "editor") /\ Has(chain, "write")
  /\ route # "status" => \E x \in Opener : Has(chain, x)

\* A request that arrives has seen nothing and has all before it.
LEMMA Arrives ==
  ASSUME NEW r, NEW w, r \in Requests(Seq(Part(r.route))), r.stage = "going", r.user = Nobody,
         r.token = "none", Begins(r.route, r.left)
  PROVE  OnTheWay(r, w)
<1>1. ~Known(r)
  BY DEF Known
<1>2. RoleKnown(r, w) /\ TokenKnown(r, w)
  BY <1>1 DEF RoleKnown, TokenKnown
<1>3. Guarded(r.left, "find", {"strict verify"}) /\ Guarded(r.left, "staff", {"strict verify"})
      /\ Guarded(r.left, "find owner", {"find token"})
  BY NothingToGuard DEF Begins
<1>4. SessionKnown(r, w) /\ OwnerKnown(r, w)
  BY <1>1, <1>3 DEF SessionKnown, OwnerKnown, Begins
<1>5. WillKnow(r, w) /\ WillCheck(r, w) /\ WillOpen(r, w)
  BY DEF WillKnow, WillCheck, WillOpen, Begins
<1> QED
  BY <1>2, <1>4, <1>5 DEF OnTheWay

\* A chain of three begins so.
LEMMA ThreeBegin ==
  ASSUME NEW route \in Routes, route # "status", route # "v1edit",
         NEW a \in Part(route), NEW b \in Part(route), NEW c \in Part(route),
         {a, b, c} \cap {"find", "staff", "find owner"} = {},
         c = "v1" => b = "token", a # "v1", b # "v1",
         route \in KnownRoute => b \in Finder,
         route \in {"admin", "version"} => c = "admin",
         a \in Opener \/ c \in Opener
  PROVE  Begins(route, <<a, b, c>>)
<1> DEFINE chain == <<a, b, c>>
<1>1. chain \in Seq(Part(route))
  BY MoreSteps
<1>2. Has(chain, a) /\ Has(chain, b) /\ Has(chain, c)
      /\ \A x : x # a /\ x # b /\ x # c => ~Has(chain, x)
  BY TheSteps
<1>3. Guarded(chain, "v1", {"token", "find owner"})
  <2>1. Len(chain) = 3 /\ chain[1] = a /\ chain[2] = b /\ chain[3] = c
    OBVIOUS
  <2> HIDE DEF chain
  <2> SUFFICES ASSUME NEW i \in 1 .. Len(chain), chain[i] = "v1"
               PROVE  \E j \in 1 .. i - 1 : chain[j] \in {"token", "find owner"}
    BY DEF Guarded
  <2>2. i = 3
    BY <2>1
  <2>3. chain[2] = "token" /\ 2 \in 1 .. i - 1
    BY <2>1, <2>2
  <2> QED
    BY <2>3
<1>4. /\ "find" # a /\ "find" # b /\ "find" # c /\ "staff" # a /\ "staff" # b /\ "staff" # c
      /\ "find owner" # a /\ "find owner" # b /\ "find owner" # c
  OBVIOUS
<1>5. ~Has(chain, "find") /\ ~Has(chain, "staff") /\ ~Has(chain, "find owner")
  BY <1>2, <1>4
<1> HIDE DEF chain
<1>6. Begins(route, chain)
  BY <1>1, <1>2, <1>3, <1>5 DEF Begins
<1> QED
  BY <1>6 DEF chain

\* The same of a chain of five.
LEMMA FiveSteps ==
  ASSUME NEW P, NEW a \in P, NEW b \in P, NEW c \in P, NEW d \in P, NEW e \in P, NEW y, NEW X,
         a # y, b # y, b \in X
  PROVE  /\ <<a, b, c, d, e>> \in Seq(P)
         /\ Has(<<a, b, c, d, e>>, a) /\ Has(<<a, b, c, d, e>>, b)
         /\ Has(<<a, b, c, d, e>>, d) /\ Has(<<a, b, c, d, e>>, e)
         /\ Guarded(<<a, b, c, d, e>>, y, X)
<1> DEFINE s == <<a, b, c, d, e>>
<1>1. Len(s) = 5 /\ s[1] = a /\ s[2] = b /\ s[3] = c /\ s[4] = d /\ s[5] = e
  OBVIOUS
<1>2. s \in Seq(P)
  OBVIOUS
<1> HIDE DEF s
<1>3. Has(s, a) /\ Has(s, b) /\ Has(s, d) /\ Has(s, e)
  BY <1>1 DEF Has
<1>4. Guarded(s, y, X)
  <2> SUFFICES ASSUME NEW i \in 1 .. Len(s), s[i] = y PROVE \E j \in 1 .. i - 1 : s[j] \in X
    BY DEF Guarded
  <2>1. i >= 3
    BY <1>1
  <2>2. s[2] \in X /\ 2 \in 1 .. i - 1
    BY <1>1, <2>1
  <2> QED
    BY <2>2
<1> QED
  BY <1>2, <1>3, <1>4 DEF s

\* What is none of five is not in a chain of them.
LEMMA NotOfFive ==
  ASSUME NEW a, NEW b, NEW c, NEW d, NEW e, NEW x, x # a, x # b, x # c, x # d, x # e
  PROVE  ~Has(<<a, b, c, d, e>>, x)
<1> DEFINE s == <<a, b, c, d, e>>
<1>1. Len(s) = 5 /\ s[1] = a /\ s[2] = b /\ s[3] = c /\ s[4] = d /\ s[5] = e
  OBVIOUS
<1> HIDE DEF s
<1>2. ~Has(s, x)
  BY <1>1 DEF Has
<1> QED
  BY <1>2 DEF s

\* Every route's chain asks for all that the route promises.
LEMMA AllBegin == \A route \in Routes : Begins(route, Chain(route))
<1>1. ASSUME NEW route \in {"badge", "login", "register", "pages", "admin", "v1", "version"}
      PROVE  Begins(route, Chain(route))
  <2>1. route \in Routes /\ route # "status" /\ route # "v1edit"
    BY <1>1 DEF Routes, KnownRoute, TokenRoute, SessionRoute
  <2> USE DEF Finder, Opener, Part, PlainPart, TokenPart, KnownRoute, TokenRoute, SessionRoute
  <2>2. CASE route = "badge"
    <3>1. Begins(route, <<"firebase gate", "badges", "badge">>)
      BY <2>1, <2>2, ThreeBegin
    <3> QED
      BY <2>2, <3>1, Chains
  <2>3. CASE route = "login"
    <3>1. Begins(route, <<"login", "strict", "log in">>)
      BY <2>1, <2>3, ThreeBegin
    <3> QED
      BY <2>3, <3>1, Chains
  <2>4. CASE route = "register"
    <3>1. Begins(route, <<"firebase gate", "strict", "register">>)
      BY <2>1, <2>4, ThreeBegin
    <3> QED
      BY <2>4, <3>1, Chains
  <2>5. CASE route = "pages"
    <3>1. Begins(route, <<"firebase gate", "optional", "anonymous">>)
      BY <2>1, <2>5, ThreeBegin
    <3> QED
      BY <2>5, <3>1, Chains
  <2>6. CASE route = "admin"
    <3>1. Begins(route, <<"firebase gate", "strict", "admin">>)
      BY <2>1, <2>6, ThreeBegin
    <3> QED
      BY <2>6, <3>1, Chains
  <2>7. CASE route = "v1"
    <3>1. Begins(route, <<"token gate", "token", "v1">>)
      BY <2>1, <2>7, ThreeBegin
    <3> QED
      BY <2>7, <3>1, Chains
  <2>8. CASE route = "version"
    <3>1. Begins(route, <<"token gate", "token", "admin">>)
      BY <2>1, <2>8, ThreeBegin
    <3> QED
      BY <2>8, <3>1, Chains
  <2> QED
    BY <2>2, <2>3, <2>4, <2>5, <2>6, <2>7, <2>8
<1>2. Begins("look", Chain("look"))
  <2> DEFINE chain == <<"firebase gate", "fast">>
  <2>1. chain \in Seq(Part("look")) /\ Guarded(chain, "v1", {"token", "find owner"})
    <3>1. "firebase gate" \in Part("look") /\ "fast" \in Part("look")
      BY DEF Part, PlainPart, TokenRoute
    <3>2. "v1" \notin {"firebase gate", "fast"}
      OBVIOUS
    <3> QED
      BY <3>1, <3>2, MoreSteps
  <2>2. Has(chain, "firebase gate") /\ Has(chain, "fast")
    BY TheSteps
  <2>3. ~Has(chain, "find") /\ ~Has(chain, "staff") /\ ~Has(chain, "find owner")
    <3>1. /\ "find" # "firebase gate" /\ "find" # "fast"
          /\ "staff" # "firebase gate" /\ "staff" # "fast"
          /\ "find owner" # "firebase gate" /\ "find owner" # "fast"
      OBVIOUS
    <3> QED
      BY <3>1, TheSteps
  <2> HIDE DEF chain
  <2>4. Begins("look", chain)
    BY <2>1, <2>2, <2>3 DEF Begins, Finder, Opener
  <2> QED
    BY <2>4, Chains DEF chain
<1>3. Begins("status", Chain("status"))
  <2>1. <<>> \in Seq(Part("status")) /\ \A y, X : ~Has(<<>>, y) /\ Guarded(<<>>, y, X)
    BY MoreSteps
  <2>2. "status" \notin KnownRoute
    BY DEF KnownRoute, TokenRoute, SessionRoute
  <2>3. Begins("status", <<>>)
    BY <2>1, <2>2 DEF Begins
  <2> QED
    BY <2>3, Chains
<1>4. Begins("v1edit", Chain("v1edit"))
  <2> DEFINE P == Part("v1edit")  X == {"token", "find owner"}
             chain == <<"token gate", "token", "v1", "write", "editor">>
  <2>1. /\ "token gate" \in P /\ "token" \in P /\ "v1" \in P /\ "write" \in P /\ "editor" \in P
        /\ "token gate" # "v1" /\ "token" # "v1" /\ "token" \in X
    BY DEF Part, TokenPart, TokenRoute
  <2> HIDE DEF P, X
  <2>2. /\ chain \in Seq(P) /\ Has(chain, "token gate") /\ Has(chain, "token")
        /\ Has(chain, "write") /\ Has(chain, "editor") /\ Guarded(chain, "v1", X)
    BY <2>1, FiveSteps, Zenon
  <2>3. ~Has(chain, "find") /\ ~Has(chain, "staff") /\ ~Has(chain, "find owner")
    <3>1. /\ "find" # "token gate" /\ "find" # "token" /\ "find" # "v1" /\ "find" # "write"
          /\ "find" # "editor"
      OBVIOUS
    <3>2. /\ "staff" # "token gate" /\ "staff" # "token" /\ "staff" # "v1" /\ "staff" # "write"
          /\ "staff" # "editor"
      OBVIOUS
    <3>3. /\ "find owner" # "token gate" /\ "find owner" # "token" /\ "find owner" # "v1"
          /\ "find owner" # "write" /\ "find owner" # "editor"
      OBVIOUS
    <3> QED
      BY <3>1, <3>2, <3>3, NotOfFive, Zenon
  <2> HIDE DEF chain
  <2>4. Begins("v1edit", chain)
    BY <2>2, <2>3 DEF Begins, Finder, Opener, P, X
  <2> QED
    BY <2>4, Chains DEF chain
<1> QED
  BY <1>1, <1>2, <1>3, <1>4 DEF Routes, KnownRoute, TokenRoute, SessionRoute

\* A request arrives.
LEMMA ArrivesStep == ASSUME RequestInv, RequestArrives PROVE RequestInv'
<1>1. PICK route \in Routes, bearer \in BOOLEAN :
        inflight' = [stage |-> "going", route |-> route, bearer |-> bearer, left |-> Chain(route),
                     user |-> Nobody, token |-> "none"]
  BY RouteNames DEF RequestArrives
<1>2. Begins(route, Chain(route))
  BY AllBegin
<1>3. /\ inflight'.stage = "going" /\ inflight'.route = route /\ inflight'.user = Nobody
      /\ inflight'.left = Chain(route) /\ inflight'.token = "none"
  BY <1>1
<1>4. inflight' \in Requests(Seq(Part(inflight'.route)))
  <2>1. Chain(route) \in Seq(Part(route))
    BY <1>2 DEF Begins
  <2> QED
    BY <1>1, <1>3, <2>1 DEF Requests
<1>5. OnTheWay(inflight', was')
  BY <1>2, <1>3, <1>4, Arrives
<1>6. was' = Facts /\ Facts' = Facts
  BY DEF RequestArrives, Facts
<1> QED
  BY <1>3, <1>5, <1>6 DEF RequestInv, HandledRightly

\* A change around the request takes nothing of what has been so.
LEMMA ChangesStep == ASSUME RequestInv, Changes PROVE RequestInv'
<1>1. inflight' = inflight /\ inflight.stage \in {"none", "going"}
  BY DEF Changes
<1>2. CASE inflight.stage = "going"
  <2>1. was' = was \cup Facts'
    BY <1>2 DEF Changes
  <2>2. OnTheWay(inflight, was')
    BY <1>2, <2>1, SeesMore DEF RequestInv
  <2> QED
    BY <1>1, <1>2, <2>1, <2>2 DEF RequestInv, HandledRightly
<1>3. CASE inflight.stage = "none"
  BY <1>1, <1>3 DEF RequestInv, HandledRightly
<1> QED
  BY <1>1, <1>2, <1>3

\* No step breaks what is known of the request.
LEMMA RequestNext == ASSUME PersonInv, RequestInv, [GateNext]_gateVars PROVE RequestInv'
<1>1. ASSUME UNCHANGED <<person, maintenance, inflight, was>> PROVE RequestInv'
  BY <1>1 DEF RequestInv, HandledRightly, Facts
<1>2. CASE Responds
  <2>1. inflight'.stage = "none" /\ inflight'.user = Nobody
    BY <1>2 DEF Responds, Idle
  <2> QED
    BY <2>1 DEF RequestInv, HandledRightly
<1>3. CASE Cleanup \/ Tick \/ UNCHANGED gateVars
  BY <1>1, <1>3 DEF Cleanup, Tick, gateVars
<1> QED
  BY <1>2, <1>3, ArrivesStep, GatesStep, AuthenticatesStep, AuthenticatesOptionallyStep,
     VerifiesStep, FindsStep, UsesTokenStep, FindsTokenStep, ValidatesStep, ChecksRoleStep,
     ChecksWriteStep, LogsInStep, LimitsStep, HandlesStep, ChangesStep DEF GateNext

-----------------------------------------------------------------------------
(* The limits of rate: p is what was let through under one key.                    *)

Pass == [at : Nat, limit : Nat \ {0}, window : Nat]
UpTo(p, i) == {j \in 1 .. i : p[j].window = p[i].window}
Whole(p, w) == {j \in DOMAIN p : p[j].window = w}

\* Windows do not overlap, and none has more than the limit when the last of them came.
InWindows(p, c) ==
  /\ p \in Seq(Pass)
  /\ \A i \in DOMAIN p : /\ p[i].window <= p[i].at /\ p[i].at < p[i].window + RateWindow
                         /\ p[i].at <= c
  /\ \A i, j \in DOMAIN p :
       i <= j => p[i].window = p[j].window \/ p[i].window + RateWindow <= p[j].window
  /\ \A i \in DOMAIN p :
       /\ Cardinality(UpTo(p, i)) <= p[i].limit
       /\ \E m \in DOMAIN p : Cardinality(Whole(p, p[i].window)) <= p[m].limit

LastWindow(p) == p[Len(p)].window

\* The sets that are counted are finite.
LEMMA WindowSets ==
  ASSUME NEW p \in Seq(Pass)
  PROVE  /\ Len(p) \in Nat /\ DOMAIN p = 1 .. Len(p)
         /\ p # <<>> => Len(p) \in DOMAIN p /\ LastWindow(p) \in Nat
         /\ \A w : IsFiniteSet(Whole(p, w)) /\ Cardinality(Whole(p, w)) \in Nat
         /\ \A i \in DOMAIN p : IsFiniteSet(UpTo(p, i)) /\ Cardinality(UpTo(p, i)) \in Nat
<1>1. Len(p) \in Nat /\ DOMAIN p = 1 .. Len(p) /\ (p # <<>> => Len(p) \in DOMAIN p)
  OBVIOUS
<1>2. p # <<>> => LastWindow(p) \in Nat
  <2>1. p # <<>> => p[Len(p)] \in Pass
    BY <1>1
  <2> QED
    BY <2>1 DEF LastWindow, Pass
<1>3. IsFiniteSet(1 .. Len(p))
  BY <1>1, FS_Interval
<1>4. ASSUME NEW T, T \subseteq 1 .. Len(p) PROVE IsFiniteSet(T) /\ Cardinality(T) \in Nat
  BY <1>3, <1>4, FS_Subset, FS_CardinalityType
<1>5. \A w : Whole(p, w) \subseteq 1 .. Len(p)
  BY <1>1 DEF Whole
<1>6. \A i \in DOMAIN p : UpTo(p, i) \subseteq 1 .. Len(p)
  BY <1>1 DEF UpTo
<1> QED
  BY <1>1, <1>2, <1>4, <1>5, <1>6

\* A pass after the others.
LEMMA AppendedPass ==
  ASSUME NEW p \in Seq(Pass), NEW x \in Pass
  PROVE  LET q == Append(p, x)
         IN  /\ q \in Seq(Pass) /\ q # <<>> /\ Len(q) = Len(p) + 1
             /\ DOMAIN q = DOMAIN p \cup {Len(p) + 1} /\ Len(p) + 1 \notin DOMAIN p
             /\ \A i \in DOMAIN p : q[i] = p[i]
             /\ q[Len(p) + 1] = x /\ LastWindow(q) = x.window
<1> DEFINE q == Append(p, x)
<1>1. Len(p) \in Nat /\ DOMAIN p = 1 .. Len(p)
  OBVIOUS
<1>2. /\ q \in Seq(Pass) /\ Len(q) = Len(p) + 1 /\ DOMAIN q = 1 .. Len(p) + 1
      /\ \A i \in 1 .. Len(p) : q[i] = p[i]
      /\ q[Len(p) + 1] = x
  OBVIOUS
<1>3. q # <<>> /\ LastWindow(q) = x.window
  BY <1>1, <1>2 DEF LastWindow
<1> QED
  BY <1>1, <1>2, <1>3

AndOne(p, c, limit, w) == Append(p, [at |-> c, limit |-> limit, window |-> w])

\* One more is let through, in the last window while there is room in it, or in a new one.
LEMMA LetsThrough ==
  ASSUME NEW c \in Nat, NEW p, InWindows(p, c), NEW limit \in Nat \ {0}, NEW w \in Nat,
         IF p # <<>> /\ c - LastWindow(p) < RateWindow
         THEN w = LastWindow(p) /\ Cardinality(Whole(p, w)) < limit
         ELSE w = c
  PROVE  /\ InWindows(AndOne(p, c, limit, w), c) /\ AndOne(p, c, limit, w) # <<>>
         /\ LastWindow(AndOne(p, c, limit, w)) = w
         /\ Cardinality(Whole(AndOne(p, c, limit, w), w)) =
              IF p # <<>> /\ c - LastWindow(p) < RateWindow
              THEN Cardinality(Whole(p, w)) + 1 ELSE 1
<1> DEFINE x == [at |-> c, limit |-> limit, window |-> w]
           q == AndOne(p, c, limit, w)
           n == Len(p) + 1
           current == p # <<>> /\ c - LastWindow(p) < RateWindow
<1>1. RateWindow \in Nat \ {0}
  BY GateAssumption
<1>2. p \in Seq(Pass) /\ x \in Pass
  BY DEF InWindows, Pass
<1>3. /\ q \in Seq(Pass) /\ q # <<>> /\ Len(q) = n
      /\ DOMAIN q = DOMAIN p \cup {n} /\ n \notin DOMAIN p
      /\ \A i \in DOMAIN p : q[i] = p[i]
      /\ q[n] = x /\ LastWindow(q) = w
  BY <1>2, AppendedPass DEF AndOne
<1>4. /\ Len(p) \in Nat /\ DOMAIN p = 1 .. Len(p)
      /\ p # <<>> => Len(p) \in DOMAIN p /\ LastWindow(p) \in Nat
      /\ \A v : IsFiniteSet(Whole(p, v)) /\ Cardinality(Whole(p, v)) \in Nat
  BY <1>2, WindowSets
<1>5. x.at = c /\ x.limit = limit /\ x.window = w
  OBVIOUS
<1>6. \A i \in DOMAIN p : /\ p[i].at \in Nat /\ p[i].window \in Nat /\ p[i].limit \in Nat \ {0}
                          /\ p[i].window <= p[i].at /\ p[i].at < p[i].window + RateWindow
                          /\ p[i].at <= c
  <2> TAKE i \in DOMAIN p
  <2>1. p[i] \in Pass
    BY <1>2, <1>4
  <2> QED
    BY <2>1 DEF InWindows, Pass
<1>7. p # <<>> => LastWindow(p) <= c
  BY <1>4, <1>6 DEF LastWindow
<1>8. w <= c /\ c < w + RateWindow
  BY <1>1, <1>4, <1>7
<1>9. \A i \in DOMAIN p : p[i].window = LastWindow(p) \/ p[i].window + RateWindow <= LastWindow(p)
  BY <1>4 DEF InWindows, LastWindow
<1>10. \A i \in DOMAIN p : p[i].window = w \/ p[i].window + RateWindow <= w
  <2> TAKE i \in DOMAIN p
  <2>1. p # <<>>
    BY <1>4
  <2>2. CASE current
    BY <1>9, <2>2
  <2>3. CASE ~current
    BY <1>1, <1>4, <1>6, <1>9, <2>1, <2>3
  <2> QED
    BY <2>2, <2>3
<1>11. ~current => \A i \in DOMAIN p : p[i].window # w
  <2> SUFFICES ASSUME ~current, NEW i \in DOMAIN p PROVE p[i].window # w
    OBVIOUS
  <2>1. p # <<>>
    BY <1>4
  <2> QED
    BY <1>1, <1>4, <1>6, <1>9, <2>1
<1> HIDE DEF x, q, n
<1>12. \A i, j \in DOMAIN q :
         i <= j => q[i].window = q[j].window \/ q[i].window + RateWindow <= q[j].window
  <2> SUFFICES ASSUME NEW i \in DOMAIN q, NEW j \in DOMAIN q, i <= j
               PROVE  q[i].window = q[j].window \/ q[i].window + RateWindow <= q[j].window
    OBVIOUS
  <2>1. CASE i \in DOMAIN p /\ j \in DOMAIN p
    BY <1>3, <2>1 DEF InWindows
  <2>2. CASE j = n
    BY <1>3, <1>5, <1>10, <2>2
  <2>3. CASE i = n /\ j # n
    BY <1>3, <1>4, <2>3 DEF n
  <2> QED
    BY <1>3, <2>1, <2>2, <2>3
<1>13. Whole(q, w) = Whole(p, w) \cup {n} /\ n \notin Whole(p, w)
  BY <1>3, <1>5 DEF Whole
<1>14. Cardinality(Whole(q, w)) = Cardinality(Whole(p, w)) + 1
  BY <1>4, <1>13, FS_AddElement
<1>15. ~current => Cardinality(Whole(p, w)) = 0
  <2>1. ~current => Whole(p, w) = {}
    BY <1>11 DEF Whole
  <2> QED
    BY <2>1, FS_EmptySet
<1>16. Cardinality(Whole(q, w)) = IF current THEN Cardinality(Whole(p, w)) + 1 ELSE 1
  BY <1>4, <1>14, <1>15
<1>17. Cardinality(Whole(q, w)) <= limit
  BY <1>4, <1>14, <1>15
<1>18. \A i \in DOMAIN q :
         /\ Cardinality(UpTo(q, i)) <= q[i].limit
         /\ \E m \in DOMAIN q : Cardinality(Whole(q, q[i].window)) <= q[m].limit
  <2> TAKE i \in DOMAIN q
  <2>1. CASE i = n
    <3>1. UpTo(q, n) = Whole(q, w)
      BY <1>3, <1>4, <1>5 DEF UpTo, Whole, n
    <3> QED
      BY <1>3, <1>5, <1>17, <2>1, <3>1
  <2>2. CASE i \in DOMAIN p
    <3>1. UpTo(q, i) = UpTo(p, i)
      <4>1. \A j \in 1 .. i : j \in DOMAIN p
        BY <1>4, <2>2
      <4> QED
        BY <1>3, <2>2, <4>1 DEF UpTo
    <3>2. Cardinality(UpTo(q, i)) <= q[i].limit
      BY <1>3, <2>2, <3>1 DEF InWindows
    <3>3. CASE p[i].window = w
      BY <1>3, <1>5, <1>17, <2>2, <3>2, <3>3
    <3>4. CASE p[i].window # w
      <4>1. Whole(q, p[i].window) = Whole(p, p[i].window)
        BY <1>3, <1>5, <3>4 DEF Whole
      <4>2. PICK m \in DOMAIN p : Cardinality(Whole(p, p[i].window)) <= p[m].limit
        BY <2>2 DEF InWindows
      <4>3. m \in DOMAIN q /\ q[m] = p[m]
        BY <1>3
      <4> QED
        BY <1>3, <2>2, <3>2, <4>1, <4>2, <4>3
    <3> QED
      BY <3>3, <3>4
  <2> QED
    BY <1>3, <2>1, <2>2
<1>19. \A i \in DOMAIN q : /\ q[i].window <= q[i].at /\ q[i].at < q[i].window + RateWindow
                           /\ q[i].at <= c
  BY <1>3, <1>5, <1>6, <1>8
<1>20. InWindows(q, c)
  BY <1>3, <1>12, <1>18, <1>19 DEF InWindows
<1> QED
  BY <1>3, <1>16, <1>20 DEF q

\* What is let through within a window's length falls into two windows at most.
LEMMA TwoWindows ==
  ASSUME NEW c \in Nat, NEW p, InWindows(p, c), NEW i \in DOMAIN p
  PROVE  LET soonAfter == {j \in i .. Len(p) : p[j].at < p[i].at + RateWindow}
         IN  \E m \in DOMAIN p : Cardinality(soonAfter) <= 2 * p[m].limit
<1> DEFINE soon == {j \in i .. Len(p) : p[j].at < p[i].at + RateWindow}
           first == Whole(p, p[i].window)
<1>1. RateWindow \in Nat \ {0}
  BY GateAssumption
<1>2. p \in Seq(Pass)
  BY DEF InWindows
<1>3. /\ Len(p) \in Nat /\ DOMAIN p = 1 .. Len(p)
      /\ \A w : IsFiniteSet(Whole(p, w)) /\ Cardinality(Whole(p, w)) \in Nat
  BY <1>2, WindowSets
<1>4. \A j \in DOMAIN p : /\ p[j].at \in Nat /\ p[j].window \in Nat /\ p[j].limit \in Nat
                          /\ p[j].window <= p[j].at /\ p[j].at < p[j].window + RateWindow
  <2> TAKE j \in DOMAIN p
  <2>1. p[j] \in Pass
    BY <1>2, <1>3
  <2> QED
    BY <2>1 DEF InWindows, Pass
<1>5. PICK m \in DOMAIN p : Cardinality(first) <= p[m].limit
  BY DEF InWindows
<1>6. soon \subseteq DOMAIN p
  BY <1>3
<1>7. CASE soon \subseteq first
  <2>1. Cardinality(soon) \in Nat /\ Cardinality(soon) <= Cardinality(first)
    <3>1. IsFiniteSet(first)
      BY <1>3
    <3> QED
      BY <1>7, <3>1, FS_Subset, FS_CardinalityType
  <2>2. p[m].limit \in Nat /\ Cardinality(first) \in Nat
    BY <1>3, <1>4
  <2>3. Cardinality(soon) <= 2 * p[m].limit
    <3> HIDE DEF soon, first
    <3> QED
      BY <1>5, <2>1, <2>2
  <2> QED
    BY <2>3
<1>8. CASE ~(soon \subseteq first)
  <2>1. PICK k \in soon : k \notin first
    BY <1>8
  <2>2. k \in DOMAIN p /\ i <= k /\ p[k].at < p[i].at + RateWindow /\ p[k].window # p[i].window
    BY <1>3, <1>6, <2>1 DEF Whole
  <2> DEFINE second == Whole(p, p[k].window)
  <2>3. p[i].window + RateWindow <= p[k].window
    BY <2>2 DEF InWindows
  <2>4. soon \subseteq first \cup second
    <3> SUFFICES ASSUME NEW j \in soon, p[j].window # p[i].window, p[j].window # p[k].window
                 PROVE  FALSE
      BY <1>6 DEF Whole
    <3>1. j \in DOMAIN p /\ i <= j /\ p[j].at < p[i].at + RateWindow
      BY <1>3, <1>6
    <3>2. p[i].window + RateWindow <= p[j].window
      BY <3>1 DEF InWindows
    <3>3. \/ p[j].window + RateWindow <= p[k].window
          \/ p[k].window + RateWindow <= p[j].window
      <4>1. j <= k \/ k <= j
        BY <1>3, <2>2, <3>1
      <4> QED
        BY <2>2, <3>1, <4>1 DEF InWindows
    <3> HIDE DEF soon
    <3> QED
      BY <1>1, <1>4, <2>2, <2>3, <3>1, <3>2, <3>3
  <2>5. PICK l \in DOMAIN p : Cardinality(second) <= p[l].limit
    BY <2>2 DEF InWindows
  <2>6. IsFiniteSet(first) /\ IsFiniteSet(second)
        /\ Cardinality(first) \in Nat /\ Cardinality(second) \in Nat
    BY <1>3
  <2> HIDE DEF soon, first, second
  <2>7. /\ IsFiniteSet(first \cup second)
        /\ Cardinality(first \cup second) <= Cardinality(first) + Cardinality(second)
    <3>1. /\ IsFiniteSet(first \cup second) /\ IsFiniteSet(first \cap second)
          /\ Cardinality(first \cup second) =
               Cardinality(first) + Cardinality(second) - Cardinality(first \cap second)
      BY <2>6, FS_Union, FS_Intersection
    <3>2. Cardinality(first \cap second) \in Nat
      BY <3>1, FS_CardinalityType
    <3> QED
      BY <2>6, <3>1, <3>2
  <2>8. /\ Cardinality(soon) \in Nat /\ Cardinality(soon) <= Cardinality(first \cup second)
        /\ Cardinality(first \cup second) \in Nat
    BY <2>4, <2>7, FS_Subset, FS_CardinalityType
  <2>9. p[m].limit \in Nat /\ p[l].limit \in Nat
    BY <1>4
  <2>10. Cardinality(soon) <= 2 * p[m].limit \/ Cardinality(soon) <= 2 * p[l].limit
    BY <1>5, <2>5, <2>6, <2>7, <2>8, <2>9
  <2> QED
    BY <2>10 DEF soon
<1> QED
  BY <1>7, <1>8

-----------------------------------------------------------------------------
(* The stores: an entry is the last window of what was let through under its key.  *)

Keys == {Key(store) : store \in Store \cup {"v1"}}

EntryHeld(k) ==
  /\ k \in DOMAIN entries =>
       /\ entries[k] \in [count : Nat, start : Nat, limit : Nat] /\ Passes(k) # <<>>
       /\ entries[k].start = LastWindow(Passes(k))
       /\ entries[k].count = Cardinality(Whole(Passes(k), entries[k].start))
  /\ k \notin DOMAIN entries =>
       Passes(k) = <<>> \/ clock - LastWindow(Passes(k)) >= RateWindow

RateInv ==
  /\ clock \in Nat
  /\ DOMAIN entries \subseteq Keys /\ DOMAIN served \subseteq Keys
  /\ \A k \in Keys : InWindows(Passes(k), clock) /\ EntryHeld(k)

\* The invariant of the stores implies the property.
LEMMA RateInvHeld == ASSUME RateInv PROVE RateHeld
<1> SUFFICES ASSUME NEW k \in DOMAIN served, NEW i \in DOMAIN served[k]
             PROVE  LET p == served[k]
                        soonAfter == {j \in i .. Len(p) : p[j].at < p[i].at + RateWindow}
                    IN  /\ Cardinality(UpTo(p, i)) <= p[i].limit
                        /\ \E m \in DOMAIN p : Cardinality(soonAfter) <= 2 * p[m].limit
  BY DEF RateHeld, UpTo
<1>1. InWindows(served[k], clock) /\ clock \in Nat
  BY DEF RateInv, Passes
<1>2. Cardinality(UpTo(served[k], i)) <= served[k][i].limit
  BY <1>1 DEF InWindows
<1> QED
  BY <1>1, <1>2, TwoWindows

\* Time passes.
LEMMA LaterInWindows ==
  ASSUME NEW p, NEW c \in Nat, NEW d \in Nat, InWindows(p, c), c <= d
  PROVE  InWindows(p, d)
<1>1. p \in Seq(Pass)
  BY DEF InWindows
<1>2. \A i \in DOMAIN p : p[i].at \in Nat /\ p[i].at <= c
  <2> TAKE i \in DOMAIN p
  <2>1. p[i] \in Pass
    BY <1>1
  <2> QED
    BY <2>1 DEF InWindows, Pass
<1>3. \A i \in DOMAIN p : p[i].at <= d
  BY <1>2
<1> QED
  BY <1>3 DEF InWindows

\* Time passes: a window that is over stays over.
LEMMA TickKeepsRate == ASSUME RateInv, Tick PROVE RateInv'
<1>1. clock' = clock + 1 /\ clock \in Nat /\ clock' \in Nat /\ clock <= clock'
      /\ UNCHANGED <<entries, served>>
  BY DEF Tick, RateInv
<1>2. \A k : Passes(k)' = Passes(k)
  BY <1>1 DEF Passes
<1>3. ASSUME NEW k \in Keys PROVE InWindows(Passes(k), clock') /\ EntryHeld(k)'
  <2>1. InWindows(Passes(k), clock) /\ EntryHeld(k)
    BY DEF RateInv
  <2>2. InWindows(Passes(k), clock')
    BY <1>1, <2>1, LaterInWindows
  <2>3. Passes(k) # <<>> => LastWindow(Passes(k)) \in Nat
    BY <2>1, WindowSets DEF InWindows
  <2>4. RateWindow \in Nat
    BY GateAssumption
  <2>5. EntryHeld(k)'
    <3>1. Passes(k)' = Passes(k)
      BY <1>2
    <3>2. k \in DOMAIN entries => EntryHeld(k)'
      BY <1>1, <2>1, <3>1 DEF EntryHeld
    <3>3. k \notin DOMAIN entries =>
            Passes(k) = <<>> \/ clock' - LastWindow(Passes(k)) >= RateWindow
      BY <1>1, <2>1, <2>3, <2>4 DEF EntryHeld
    <3> QED
      BY <1>1, <3>1, <3>2, <3>3 DEF EntryHeld
  <2> QED
    BY <2>2, <2>5
<1>4. \A k \in Keys : InWindows(Passes(k)', clock') /\ EntryHeld(k)'
  BY <1>2, <1>3
<1>5. DOMAIN entries' \subseteq Keys /\ DOMAIN served' \subseteq Keys
  BY <1>1 DEF RateInv
<1>6. Keys' = Keys
  BY DEF Keys, Key
<1> QED
  BY <1>1, <1>4, <1>5, <1>6 DEF RateInv

\* What is cleared has had no window for long.
LEMMA CleanupKeepsRate == ASSUME RateInv, Cleanup PROVE RateInv'
<1> DEFINE kept == {k \in DOMAIN entries : ~Clearable(k)}
<1>1. /\ entries' = [k \in kept |-> entries[k]] /\ UNCHANGED <<clock, served>>
  BY DEF Cleanup
<1>2. \A k : Passes(k)' = Passes(k)
  BY <1>1 DEF Passes
<1>3. DOMAIN entries' = kept /\ \A k \in kept : entries'[k] = entries[k]
  BY <1>1
<1>4. ASSUME NEW k \in Keys PROVE EntryHeld(k)'
  <2>1. EntryHeld(k) /\ Passes(k)' = Passes(k) /\ clock \in Nat
    BY <1>2 DEF RateInv
  <2>2. CASE k \in kept
    <3>1. k \in DOMAIN entries /\ k \in DOMAIN entries' /\ entries'[k] = entries[k]
      BY <1>3, <2>2
    <3> QED
      BY <2>1, <3>1 DEF EntryHeld
  <2>3. CASE k \in DOMAIN entries /\ k \notin kept
    <3>1. Clearable(k) /\ k \notin DOMAIN entries'
      BY <1>3, <2>3
    <3>2. RateWindow \in Nat
      BY GateAssumption
    <3>3. entries[k].start \in Nat
      BY <2>1, <2>3 DEF EntryHeld
    <3>4. clock - LastWindow(Passes(k)) >= RateWindow
      BY <2>1, <2>3, <3>1, <3>2, <3>3 DEF EntryHeld, Clearable
    <3> QED
      BY <1>1, <2>1, <3>1, <3>4 DEF EntryHeld
  <2>4. CASE k \notin DOMAIN entries
    <3>1. k \notin DOMAIN entries'
      BY <1>3, <2>4
    <3> QED
      BY <1>1, <2>1, <2>4, <3>1 DEF EntryHeld
  <2> QED
    BY <2>2, <2>3, <2>4
<1>5. \A k \in Keys : InWindows(Passes(k)', clock')
  BY <1>1, <1>2 DEF RateInv
<1>6. DOMAIN entries' \subseteq Keys /\ DOMAIN served' \subseteq Keys /\ clock' \in Nat
  BY <1>1, <1>3 DEF RateInv
<1>7. Keys' = Keys
  BY DEF Keys, Key
<1> QED
  BY <1>4, <1>5, <1>6, <1>7 DEF RateInv

\* A limit counts.
LEMMA AllowKeepsRate ==
  ASSUME RateInv, NEW key \in Keys, NEW limit \in Nat \ {0}, Allow(key, limit), clock' = clock
  PROVE  RateInv'
<1> DEFINE p == Passes(key)
           entry == Entry0(key, limit)
           current == p # <<>> /\ clock - LastWindow(p) < RateWindow
<1>1. clock \in Nat /\ InWindows(p, clock) /\ EntryHeld(key)
      /\ DOMAIN entries \subseteq Keys /\ DOMAIN served \subseteq Keys
  BY DEF RateInv
<1>2. RateWindow \in Nat \ {0}
  BY GateAssumption
<1>3. /\ p # <<>> => LastWindow(p) \in Nat
      /\ \A w : Cardinality(Whole(p, w)) \in Nat
  BY <1>1, WindowSets DEF InWindows
<1>4. Current(key, limit) <=> current
  <2>1. CASE key \in DOMAIN entries
    BY <1>1, <2>1 DEF EntryHeld, Current
  <2>2. CASE key \notin DOMAIN entries
    BY <1>1, <1>2, <1>3, <2>2 DEF EntryHeld, Current
  <2> QED
    BY <2>1, <2>2
<1>5. /\ entry \in [count : Nat, start : Nat, limit : Nat]
      /\ current => /\ key \in DOMAIN entries /\ entry.start = LastWindow(p)
                    /\ entry.count = Cardinality(Whole(p, LastWindow(p)))
      /\ ~current => entry.start = clock /\ entry.count = 0
  <2>1. CASE current
    <3>1. key \in DOMAIN entries
      BY <1>4, <2>1 DEF Current
    <3>2. /\ entries[key] \in [count : Nat, start : Nat, limit : Nat]
          /\ entries[key].start = LastWindow(p)
          /\ entries[key].count = Cardinality(Whole(p, LastWindow(p)))
      BY <1>1, <3>1 DEF EntryHeld
    <3>3. entry = [entries[key] EXCEPT !.limit = limit]
      BY <1>4, <2>1 DEF Entry0
    <3> QED
      BY <2>1, <3>1, <3>2, <3>3
  <2>2. CASE ~current
    <3>1. entry = [count |-> 0, start |-> clock, limit |-> limit]
      BY <1>4, <2>2 DEF Entry0
    <3> QED
      BY <1>1, <2>2, <3>1
  <2> QED
    BY <2>1, <2>2
<1> HIDE DEF entry
<1>6. CASE Admits(key, limit)
  <2> DEFINE w == IF current THEN LastWindow(p) ELSE clock
             q == AndOne(p, clock, limit, w)
  <2>1. /\ entries' = With(entries, key, [entry EXCEPT !.count = @ + 1])
        /\ served' = With(served, key, q)
    <3>1. Append(p, Passing(p, limit)) = q
      BY DEF Passing, InLastWindow, LastWindow, AndOne
    <3> QED
      BY <1>6, <3>1 DEF Allow, entry
  <2>2. entry.count < limit
    BY <1>6 DEF Admits, entry
  <2>3. w \in Nat
    BY <1>1, <1>3
  <2>4. IF current THEN w = LastWindow(p) /\ Cardinality(Whole(p, w)) < limit ELSE w = clock
    BY <1>5, <2>2
  <2>5. /\ InWindows(q, clock) /\ q # <<>> /\ LastWindow(q) = w
        /\ Cardinality(Whole(q, w)) =
             IF current THEN Cardinality(Whole(p, w)) + 1 ELSE 1
    <3> HIDE DEF p, w
    <3>1. clock \in Nat /\ InWindows(p, clock)
      BY <1>1
    <3>2. \A c \in Nat, v \in Nat :
             /\ InWindows(p, c)
             /\ IF p # <<>> /\ c - LastWindow(p) < RateWindow
                THEN v = LastWindow(p) /\ Cardinality(Whole(p, v)) < limit ELSE v = c
             => LET a == AndOne(p, c, limit, v)
                IN  /\ InWindows(a, c) /\ a # <<>> /\ LastWindow(a) = v
                    /\ Cardinality(Whole(a, v)) =
                          IF p # <<>> /\ c - LastWindow(p) < RateWindow
                          THEN Cardinality(Whole(p, v)) + 1 ELSE 1
      BY LetsThrough
    <3> QED
      BY <2>3, <2>4, <3>1, <3>2
  <2> HIDE DEF q
  <2>6. /\ DOMAIN served' = DOMAIN served \cup {key} /\ served'[key] = q
        /\ \A k \in DOMAIN served : k # key => served'[k] = served[k]
    BY <2>1 DEF With
  <2>7. /\ DOMAIN entries' = DOMAIN entries \cup {key}
        /\ entries'[key] = [entry EXCEPT !.count = @ + 1]
        /\ \A k \in DOMAIN entries : k # key => entries'[k] = entries[k]
    BY <2>1 DEF With
  <2>8. Passes(key)' = q /\ \A k : k # key => Passes(k)' = Passes(k)
    BY <2>6 DEF Passes
  <2>9. entries'[key] \in [count : Nat, start : Nat, limit : Nat]
        /\ entries'[key].start = w /\ entries'[key].count = Cardinality(Whole(q, w))
    BY <1>3, <1>5, <2>5, <2>7
  <2>10. EntryHeld(key)'
    BY <2>5, <2>7, <2>8, <2>9 DEF EntryHeld
  <2>11. ASSUME NEW k \in Keys, k # key PROVE InWindows(Passes(k)', clock') /\ EntryHeld(k)'
    <3>1. Passes(k)' = Passes(k) /\ InWindows(Passes(k), clock) /\ EntryHeld(k)
      BY <2>8, <2>11 DEF RateInv
    <3>2. k \in DOMAIN entries' <=> k \in DOMAIN entries
      BY <2>7, <2>11
    <3>3. k \in DOMAIN entries => entries'[k] = entries[k]
      BY <2>7, <2>11
    <3> QED
      BY <3>1, <3>2, <3>3 DEF EntryHeld
  <2>12. InWindows(Passes(key)', clock')
    BY <2>5, <2>8
  <2>13. Keys' = Keys
    BY DEF Keys, Key
  <2>14. \A k \in Keys : InWindows(Passes(k)', clock') /\ EntryHeld(k)'
    BY <2>10, <2>11, <2>12
  <2> QED
    BY <1>1, <2>6, <2>7, <2>13, <2>14 DEF RateInv
<1>7. CASE ~Admits(key, limit)
  <2>1. entries' = With(entries, key, entry) /\ served' = served
    BY <1>7 DEF Allow, entry
  <2>2. current
    BY <1>5, <1>7 DEF Admits, entry
  <2>3. /\ DOMAIN entries' = DOMAIN entries \cup {key} /\ entries'[key] = entry
        /\ \A k \in DOMAIN entries : k # key => entries'[k] = entries[k]
    BY <2>1 DEF With
  <2>4. \A k : Passes(k)' = Passes(k)
    BY <2>1 DEF Passes
  <2>5. ASSUME NEW k \in Keys PROVE EntryHeld(k)'
    <3>1. Passes(k)' = Passes(k) /\ EntryHeld(k)
      BY <2>4 DEF RateInv
    <3>2. CASE k = key
      <4>1. key \in DOMAIN entries' /\ entries'[key] = entry /\ Passes(key)' = p
        BY <2>3, <2>4
      <4> QED
        BY <1>5, <2>2, <3>2, <4>1 DEF EntryHeld
    <3>3. CASE k # key
      <4>1. k \in DOMAIN entries' <=> k \in DOMAIN entries
        BY <2>3, <3>3
      <4>2. k \in DOMAIN entries => entries'[k] = entries[k]
        BY <2>3, <3>3
      <4> QED
        BY <3>1, <4>1, <4>2 DEF EntryHeld
    <3> QED
      BY <3>2, <3>3
  <2>6. \A k \in Keys : InWindows(Passes(k)', clock')
    BY <2>4 DEF RateInv
  <2>7. Keys' = Keys
    BY DEF Keys, Key
  <2> QED
    BY <1>1, <2>1, <2>3, <2>5, <2>6, <2>7 DEF RateInv
<1> QED
  BY <1>6, <1>7

\* Every store counts under its own key, with a limit that is positive: "v1" comes only after
\* the owner of the token is known, and has a limit for each role.
LEMMA LimitsKeepRate == ASSUME RequestInv, RateInv, Limits PROVE RateInv'
<1>1. PICK store \in Store \cup {"v1"} :
        /\ Turn(store)
        /\ IF store = "anonymous" /\ inflight.user # Nobody
           THEN UNCHANGED <<entries, served>>
           ELSE Allow(Key(store), LimitFor(store))
  BY DEF Limits
<1>2. clock' = clock
  BY DEF Limits
<1>3. CASE UNCHANGED <<entries, served>>
  BY <1>2, <1>3 DEF RateInv, EntryHeld, Passes, Keys, Key
<1>4. CASE Allow(Key(store), LimitFor(store))
  <2>1. Key(store) \in Keys
    BY DEF Keys
  <2>2. LimitFor(store) \in Nat \ {0}
    <3>1. CASE store = "v1"
      <4>1. /\ OnTheWay(inflight, was) /\ inflight.left # <<>> /\ Head(inflight.left) = "v1"
            /\ "v1" \in Part(inflight.route) /\ inflight.route \in Routes
            /\ inflight.left \in Seq(Part(inflight.route))
        BY <1>1, <3>1, TurnFacts
      <4>2. inflight.route \in TokenRoute
        <5>1. "v1" \in Part(inflight.route) \cap {"token gate", "find token", "find owner",
                                                  "record use", "token", "v1", "write", "editor"}
          BY <4>1
        <5> QED
          BY <4>1, <5>1, Parts
      <4>3. ~Guarded(inflight.left, "v1", {"token", "find owner"})
        BY <4>1, GuardedTail
      <4>4. inflight.user # Nobody
        BY <4>1, <4>2, <4>3 DEF OnTheWay, OwnerKnown, Known
      <4>5. inflight.user \in AccountRole
        BY <4>4 DEF RequestInv
      <4> QED
        BY <3>1, <4>5, GateAssumption DEF LimitFor
    <3>2. CASE store # "v1"
      BY <1>1, <3>2, GateAssumption DEF LimitFor
    <3> QED
      BY <3>1, <3>2
  <2> QED
    BY <1>2, <1>4, <2>1, <2>2, AllowKeepsRate
<1> QED
  BY <1>1, <1>3, <1>4

\* No step breaks the invariant of the stores.
LEMMA RateNext == ASSUME RequestInv, RateInv, [GateNext]_gateVars PROVE RateInv'
<1>1. ASSUME UNCHANGED <<clock, entries, served>> PROVE RateInv'
  BY <1>1 DEF RateInv, EntryHeld, Passes, Keys, Key
<1>2. CASE \/ RequestArrives \/ Gates \/ Authenticates \/ AuthenticatesOptionally \/ Verifies
           \/ Finds \/ UsesToken \/ FindsToken \/ Validates \/ ChecksRole \/ ChecksWrite
           \/ LogsIn \/ Handles \/ Responds \/ Changes \/ UNCHANGED gateVars
  BY <1>1, <1>2 DEF RequestArrives, Gates, Authenticates, AuthenticatesOptionally, Verifies, Finds,
       UsesToken, FindsToken, Validates, ChecksRole, ChecksWrite, LogsIn, Handles, Responds,
       Changes, Unlimited, gateVars
<1> QED
  BY <1>2, LimitsKeepRate, CleanupKeepsRate, TickKeepsRate DEF GateNext

-----------------------------------------------------------------------------
(* The theorems *)

BoundsInv ==
  /\ PersonInv
  /\ clock \in 0 .. MaxClock /\ arrived \in 0 .. MaxRequests /\ turns \in 0 .. MaxGateChanges

\* Types and bounds are kept.
LEMMA BoundsNext == ASSUME BoundsInv, [GateNext]_gateVars PROVE BoundsInv'
<1>1. {MaxClock, MaxRequests, MaxGateChanges} \subseteq Nat
  BY GateAssumption
<1>2. CASE Changes
  <2>1. turns' \in 0 .. MaxGateChanges /\ UNCHANGED <<clock, arrived>>
    BY <1>1, <1>2 DEF Changes, BoundsInv
  <2>2. PersonInv'
    BY <1>2 DEF Changes, BoundsInv, PersonInv
  <2> QED
    BY <2>1, <2>2 DEF BoundsInv
<1>3. CASE Tick
  BY <1>1, <1>3 DEF Tick, BoundsInv, PersonInv
<1>4. CASE RequestArrives
  BY <1>1, <1>4 DEF RequestArrives, BoundsInv, PersonInv
<1>5. CASE \/ Gates \/ Authenticates \/ AuthenticatesOptionally \/ Verifies
           \/ Finds \/ UsesToken \/ FindsToken \/ Validates \/ ChecksRole \/ ChecksWrite
           \/ LogsIn \/ Limits \/ Handles \/ Responds \/ Cleanup \/ UNCHANGED gateVars
  <2>1. UNCHANGED <<person, maintenance, clock, arrived, turns>>
    BY <1>5 DEF Gates, Authenticates, AuthenticatesOptionally, Verifies, Finds, UsesToken,
       FindsToken, Validates, ChecksRole, ChecksWrite, LogsIn, Limits, Handles, Responds, Cleanup,
       Unlimited, gateVars
  <2> QED
    BY <2>1 DEF BoundsInv, PersonInv
<1> QED
  BY <1>2, <1>3, <1>4, <1>5 DEF GateNext

GateInv == BoundsInv /\ RequestInv /\ RateInv

\* The invariant holds at first.
LEMMA GateStarts == ASSUME GateInit PROVE GateInv
<1>1. BoundsInv
  <2>1. {"player", "admin"} \subseteq AccountRole /\ MaxClock \in Nat /\ MaxRequests \in Nat
        /\ MaxGateChanges \in Nat
    BY GateAssumption
  <2>2. PersonInv
    <3>1. person \in [exists : {TRUE}, role : {"player", "admin"}, session : {"valid"},
                       token : {"read", "write"}]
      BY DEF GateInit
    <3>2. person \in [exists : BOOLEAN, role : AccountRole, session : {"valid", "revoked"},
                       token : {"none", "read", "write"}]
      BY <2>1, <3>1
    <3> QED
      BY <3>2 DEF GateInit, PersonInv
  <2>3. clock = 0 /\ arrived = 0 /\ turns = 0
    BY DEF GateInit
  <2> QED
    BY <2>1, <2>2, <2>3 DEF BoundsInv
<1>2. RequestInv
  BY DEF GateInit, RequestInv, HandledRightly, Idle
<1>3. RateInv
  <2>1. clock = 0 /\ DOMAIN entries = {} /\ DOMAIN served = {}
    BY DEF GateInit
  <2>2. \A k : Passes(k) = <<>>
    BY <2>1 DEF Passes
  <2>3. InWindows(<<>>, clock)
    BY DEF InWindows
  <2>4. \A k : EntryHeld(k)
    BY <2>1, <2>2 DEF EntryHeld
  <2> QED
    BY <2>1, <2>2, <2>3, <2>4 DEF RateInv
<1> QED
  BY <1>1, <1>2, <1>3 DEF GateInv

\* And every step keeps it.
LEMMA GateSteady == ASSUME GateInv, [GateNext]_gateVars PROVE GateInv'
BY BoundsNext, RequestNext, RateNext DEF GateInv, BoundsInv

\* No entry began later than now.
LEMMA GateTyped == ASSUME GateInv PROVE GateTypeOK
<1>1. ASSUME NEW k \in DOMAIN entries
      PROVE  entries[k].count \in Nat /\ entries[k].start \in 0 .. clock
  <2>1. /\ InWindows(Passes(k), clock) /\ clock \in Nat /\ Passes(k) # <<>>
        /\ entries[k] \in [count : Nat, start : Nat, limit : Nat]
        /\ entries[k].start = LastWindow(Passes(k))
    BY DEF GateInv, RateInv, EntryHeld
  <2> DEFINE p == Passes(k)
  <2>2. Len(p) \in DOMAIN p /\ p[Len(p)] \in Pass
    BY <2>1 DEF InWindows
  <2>3. p[Len(p)].window <= p[Len(p)].at /\ p[Len(p)].at <= clock
    BY <2>1, <2>2 DEF InWindows
  <2>4. p[Len(p)].window \in Nat /\ p[Len(p)].at \in Nat
    BY <2>2 DEF Pass
  <2> QED
    BY <2>1, <2>3, <2>4 DEF LastWindow
<1> QED
  BY <1>1 DEF GateInv, BoundsInv, PersonInv, RequestInv, GateTypeOK

\* The gate, the request and the stores of the limits have their types, whatever the limits and
\* the bounds, and no entry of a store began later than now.
THEOREM GateTypeCorrect == GateSpec => []GateTypeOK
<1>1. GateInit => GateInv
  BY GateStarts
<1>2. GateInv /\ [GateNext]_gateVars => GateInv'
  BY GateSteady
<1>3. GateInv => GateTypeOK
  BY GateTyped
<1> QED
  BY <1>1, <1>2, <1>3, PTL DEF GateSpec

\* Whatever changes while a request passes the middlewares, its handler runs only after all that
\* its route promises was so since it arrived, and in a maintenance only for staff; and no window
\* of any store lets more through than its limit, no stretch as long more than twice that.
THEOREM GateAlwaysHolds == GateSpec => []GateHolds
<1>1. GateInit => GateInv
  BY GateStarts
<1>2. GateInv /\ [GateNext]_gateVars => GateInv'
  BY GateSteady
<1>3. GateInv => GateHolds
  BY RateInvHeld DEF GateInv, RequestInv, GateHolds
<1> QED
  BY <1>1, <1>2, <1>3, PTL DEF GateSpec

-----------------------------------------------------------------------------
(* The views of a user's pages *)

\* Of some charts, one has the greatest value.
LEMMA GreatestOf ==
  ASSUME NEW S \in SUBSET ViewChart, S # {}, NEW f, \A c \in S : f[c] \in Nat
  PROVE  \E c \in S : \A d \in S : f[d] <= f[c]
<1> DEFINE More(c) == {d \in S : f[d] > f[c]}
           Counts == {Cardinality(More(c)) : c \in S}
<1>1. \A c \in S : IsFiniteSet(More(c)) /\ Cardinality(More(c)) \in Nat
  BY ProfilesAssumption, FS_Subset, FS_CardinalityType
<1>2. Counts \in SUBSET Nat /\ Counts # {}
  BY <1>1
<1>3. PICK n \in Counts : \A m \in Counts : n <= m
  <2> HIDE DEF Counts
  <2>1. IsWellFoundedOn(OpToRel(<, Nat), Nat)
    BY NatLessThanWellFounded
  <2>2. PICK n \in Counts : \A m \in Counts : <<m, n>> \notin OpToRel(<, Nat)
    BY <1>2, <2>1, WFMin
  <2>3. n \in Nat /\ Counts \subseteq Nat /\ \A m \in Counts : ~(m < n)
    BY <1>2, <2>2 DEF OpToRel
  <2> QED
    BY <2>3
<1>4. PICK c \in S : n = Cardinality(More(c))
  OBVIOUS
<1>5. More(c) = {}
  <2> SUFFICES ASSUME NEW d \in More(c) PROVE FALSE
    OBVIOUS
  <2>1. d \in S /\ More(d) \subseteq More(c) /\ d \notin More(d)
    OBVIOUS
  <2>2. More(d) \in SUBSET More(c) /\ More(d) # More(c)
    BY <2>1
  <2> HIDE DEF More
  <2>3. Cardinality(More(d)) <= n /\ Cardinality(More(d)) # n
    BY <1>1, <1>4, <2>2, FS_Subset
  <2>4. Cardinality(More(d)) \in Counts
    BY <2>1
  <2> QED
    BY <1>1, <1>2, <1>3, <2>1, <2>3, <2>4
<1> QED
  BY <1>5

\* The greatest of some times, if there is one.
LEMMA MaxTimeIs ==
  ASSUME NEW T \in SUBSET Nat, NEW n \in T \cup {0}, \A u \in T : u <= n
  PROVE  MaxTime(T) = n
<1> DEFINE max == MaxTime(T)
<1>1. max \in T \cup {0} /\ \A u \in T : u <= max
  BY DEF MaxTime
<1> HIDE DEF max
<1>2. T \subseteq Nat /\ max \in Nat /\ n \in Nat
  BY <1>1
<1>3. max <= n
  BY <1>1, <1>2
<1>4. n <= max
  BY <1>1, <1>2
<1>5. max = n
  BY <1>2, <1>3, <1>4
<1> QED
  BY <1>5 DEF max

\* What is earned is not negative.
LEMMA OverpowerIsNumber ==
  ASSUME NEW score \in Nat, NEW const \in Int, NEW lamp
  PROVE  CalcSingleOverpower(score, const, lamp) \in Nat
<1>1. LampOverpower(score, lamp) \in Int
  BY DEF LampOverpower
<1>2. OverpowerFromS(score, const) \in Int
  BY SMT DEF OverpowerFromS
<1>3. Over5(const) \in Nat
  BY SMT DEF Over5, NotNegative
<1>4. OverpowerBelowA(score, Over5(const)) \in Int
  <2> DEFINE over == Over5(const)
             p == (score - 800000) * over
             q == (score - 500000) * over
  <2>1. p \in Int /\ q \in Int /\ over \in Nat
    BY <1>3
  <2> HIDE DEF p, q, over
  <2>2. p \div 400 \in Int /\ q \div 1200 \in Int
    BY <2>1
  <2>3. OverpowerBelowA(score, over)
          = IF score >= 800000 THEN 250 * over + p \div 400
            ELSE IF score >= 500000 THEN q \div 1200 ELSE 0
    BY DEF OverpowerBelowA, p, q
  <2> QED
    BY <2>1, <2>2, <2>3 DEF over
<1>5. ScoreOverpower(score, const) \in Int
  BY <1>2, <1>4 DEF ScoreOverpower
<1> DEFINE sum == ScoreOverpower(score, const) + LampOverpower(score, lamp)
<1>6. sum \in Int
  BY <1>1, <1>5
<1>7. CalcSingleOverpower(score, const, lamp)
        = NotNegative((sum \div (IF score >= 975000 THEN 5 ELSE 50))
                        * (IF score >= 975000 THEN 5 ELSE 50))
  BY DEF CalcSingleOverpower
<1> HIDE DEF sum
<1>8. (sum \div 5) * 5 \in Int /\ (sum \div 50) * 50 \in Int
  BY <1>6
<1> QED
  BY <1>7, <1>8, SMT DEF NotNegative

-----------------------------------------------------------------------------
Slots == {"none"} \cup UNION {{body[c].slot : c \in DOMAIN body} : body \in Registered}
Play == [score : Nat, lamp : ComboLamp, slot : Slots, at : Nat]
Answers == {"none", "shown", "private", "no player", "not found", "invalid difficulty"}
Kinds == {"profile", "badge", "full", "rating", "song", "worldsend song", "updated at"}

ViewTypes ==
  /\ owner \in [private : BOOLEAN, player : Nat, updated : CollectedAt \cup {0},
                collected : CollectedAt \cup {0}]
  /\ status \in {"none", "pending", "accepted"}
  /\ recorded \in [ViewChart -> Play]
  /\ hidden \subseteq ViewSong
  /\ since \in [still : BOOLEAN, songs : BOOLEAN, allowed : BOOLEAN, bumped : BOOLEAN, next : Nat]
  /\ view \in [stage : {"idle", "reading", "done"}, kind : Kinds \cup {"none"}, by : Requester,
               song : ViewSong \cup {"none"}, difficulty : Difficulty \cup {0}, reads : Nat,
               seen : {view.seen}, answer : {view.answer}]
  /\ view.stage # "idle" => view.kind \in Kinds /\ view.song \in ViewSong
  /\ edits \in 0 .. MaxViewSteps

\* A chart has a time when it has a play; and no play is newer than the player.
RecordsInv ==
  /\ \A c \in ViewChart :
       /\ recorded[c].at = 0 => recorded[c] = Unrecorded
       /\ recorded[c].slot # "none" => Catalog[c].group = "standard"
       /\ recorded[c].at <= owner.collected
  /\ owner.player = 0 => owner.updated = 0 /\ owner.collected = 0
  /\ ~since.bumped => owner.updated = owner.collected

\* RightRow, by its parts.
Rivals(c) ==
  {d \in ViewChart : /\ Catalog[d].song = Catalog[c].song /\ recorded[d].at # 0
                     /\ Catalog[c].group = "standard"}
Earned(c) == OverpowerOf(c, recorded[c])
Chosen(c) == {d \in Rivals(c) : Earned(d) = MaxTime({Earned(e) : e \in Rivals(c)})}
IsTarget(c) ==
  c \in Chosen(c) /\ \A d \in Chosen(c) : Catalog[d].difficulty <= Catalog[c].difficulty

LEMMA RightRowIs ==
  ASSUME NEW c, NEW row
  PROVE  RightRow(c, row) <=>
           /\ row.score = recorded[c].score /\ row.lamp = recorded[c].lamp
           /\ row.slot = recorded[c].slot /\ row.at = recorded[c].at
           /\ row.target <=> IsTarget(c)
BY DEF RightRow, IsTarget, Chosen, Rivals, Earned

LEMMA EarnedTyped ==
  ASSUME ViewTypes, NEW c \in ViewChart
  PROVE  Earned(c) \in Nat /\ Catalog[c].difficulty \in Nat
<1>1. recorded[c].score \in Nat /\ Catalog[c].const \in Int
  BY ProfilesAssumption DEF ViewTypes, Play
<1>2. Earned(c) \in Nat
  BY <1>1, OverpowerIsNumber DEF Earned, OverpowerOf
<1>3. Catalog[c].difficulty \in Difficulty
  BY DEF Difficulty
<1> QED
  BY <1>2, <1>3, ProfilesAssumption

\* What is marked among all plays of a song is what should be.  (selectOPTargetChartIDs)
LEMMA MarksAreRight ==
  ASSUME ViewTypes, NEW S \in SUBSET ViewChart, NEW rows,
         DOMAIN rows = {d \in S : recorded[d].at # 0}, \A d \in DOMAIN rows : rows[d] = recorded[d],
         \A c \in S : /\ Catalog[c].group = "standard"
                      /\ \A d \in ViewChart : Catalog[d].song = Catalog[c].song => d \in S,
         NEW c \in S
  PROVE  c \in OPTargets(rows) <=> IsTarget(c)
<1> DEFINE Better(d) == \/ Earned(c) > Earned(d)
                        \/ Earned(c) = Earned(d) /\ Catalog[c].difficulty > Catalog[d].difficulty
           best == MaxTime({Earned(e) : e \in Rivals(c)})
<1>1. /\ \A d \in ViewChart : Earned(d) \in Nat /\ Catalog[d].difficulty \in Nat
      /\ Rivals(c) \subseteq ViewChart
  BY EarnedTyped DEF Rivals
<1>2. Rivals(c) = {d \in DOMAIN rows : Catalog[d].song = Catalog[c].song}
  BY DEF Rivals
<1>3. \A d \in DOMAIN rows : OverpowerOf(d, rows[d]) = Earned(d)
  BY DEF Earned
<1>4. c \in OPTargets(rows) <=> c \in DOMAIN rows /\ \A d \in Rivals(c) \ {c} : Better(d)
  BY <1>2, <1>3 DEF OPTargets
<1>5. c \in DOMAIN rows <=> c \in Rivals(c)
  BY <1>2
<1>6. \A d \in Rivals(c) : d # c => Catalog[d].difficulty # Catalog[c].difficulty
  BY ProfilesAssumption DEF Rivals
<1>7. CASE c \notin Rivals(c)
  BY <1>4, <1>5, <1>7 DEF IsTarget, Chosen
<1>8. CASE c \in Rivals(c)
  <2> DEFINE earned == [d \in ViewChart |-> Earned(d)]
  <2>1. PICK m \in Rivals(c) : \A d \in Rivals(c) : earned[d] <= earned[m]
    <3>1. Rivals(c) \in SUBSET ViewChart /\ Rivals(c) # {} /\ \A d \in Rivals(c) : earned[d] \in Nat
      BY <1>1, <1>8
    <3> HIDE DEF earned
    <3> QED
      BY <3>1, GreatestOf
  <2>2. \A d \in Rivals(c) : Earned(d) <= Earned(m)
    BY <1>1, <2>1
  <2>3. best = Earned(m)
    <3> DEFINE T == {Earned(e) : e \in Rivals(c)}
    <3>1. T \in SUBSET Nat /\ Earned(m) \in T /\ \A u \in T : u <= Earned(m)
      BY <1>1, <2>1, <2>2
    <3> HIDE DEF T
    <3>2. MaxTime(T) = Earned(m)
      BY <3>1, MaxTimeIs
    <3> QED
      BY <3>2 DEF T
  <2>4. \A d \in Rivals(c) : d \in Chosen(c) <=> Earned(d) = Earned(m)
    BY <2>3 DEF Chosen
  <2>5. Chosen(c) \subseteq Rivals(c)
    BY DEF Chosen
  <2>6. IsTarget(c) <=> /\ Earned(c) = Earned(m)
                        /\ \A d \in Rivals(c) : Earned(d) = Earned(m) =>
                             Catalog[d].difficulty <= Catalog[c].difficulty
    BY <1>8, <2>4, <2>5 DEF IsTarget
  <2> HIDE DEF best
  <2>7. ASSUME IsTarget(c), NEW d \in Rivals(c), d # c PROVE Better(d)
    BY <1>1, <1>6, <1>8, <2>1, <2>2, <2>6, <2>7
  <2>8. ASSUME \A d \in Rivals(c) \ {c} : Better(d) PROVE IsTarget(c)
    <3>1. Earned(c) = Earned(m)
      BY <1>1, <1>8, <2>1, <2>2, <2>8
    <3>2. ASSUME NEW d \in Rivals(c), Earned(d) = Earned(m)
          PROVE  Catalog[d].difficulty <= Catalog[c].difficulty
      BY <1>1, <1>8, <2>8, <3>1, <3>2
    <3> QED
      BY <2>6, <3>1, <3>2
  <2> QED
    BY <1>4, <1>5, <1>8, <2>7, <2>8
<1> QED
  BY <1>7, <1>8

\* Neither charts of WORLD'S END nor courses are marked.
LEMMA OthersAreUnmarked ==
  ASSUME NEW c, Catalog[c].group # "standard"
  PROVE  ~IsTarget(c)
BY DEF IsTarget, Chosen, Rivals

\* The rows of the player, and rows for all charts of some.
LEMMA RowsAre ==
  ASSUME ViewTypes, RecordsInv, owner.player # 0, NEW charts \in SUBSET ViewChart
  PROVE  /\ DOMAIN RowsOn(owner.player, charts) = {d \in charts : recorded[d].at # 0}
         /\ \A d \in DOMAIN RowsOn(owner.player, charts) :
              RowsOn(owner.player, charts)[d] = recorded[d]
         /\ DOMAIN Complete(RowsOn(owner.player, charts), charts) = charts
         /\ \A d \in charts : Complete(RowsOn(owner.player, charts), charts)[d] = recorded[d]
<1> DEFINE rows == RowsOn(owner.player, charts)
<1>1. DOMAIN rows = {d \in charts : recorded[d].at # 0} /\ \A d \in DOMAIN rows : rows[d] = recorded[d]
  BY DEF RowsOn
<1> HIDE DEF rows
<1> DEFINE more == [c \in charts |-> Unrecorded]
<1>2. DOMAIN Complete(rows, charts) = DOMAIN rows \cup charts
  BY DEF Complete, Joined
<1>3. \A d \in charts : Complete(rows, charts)[d] = IF d \in DOMAIN rows THEN rows[d] ELSE Unrecorded
  BY DEF Complete, Joined
<1>4. \A d \in charts : recorded[d].at = 0 => recorded[d] = Unrecorded
  BY DEF RecordsInv
<1>5. \A d \in charts : Complete(rows, charts)[d] = recorded[d]
  BY <1>1, <1>3, <1>4
<1>6. DOMAIN Complete(rows, charts) = charts
  BY <1>1, <1>2
<1> QED
  BY <1>1, <1>5, <1>6 DEF rows

LEMMA MarkedIs ==
  ASSUME NEW rows, \A d \in DOMAIN rows : rows[d] = recorded[d],
         NEW targets, \A d \in DOMAIN rows : d \in targets <=> IsTarget(d)
  PROVE  /\ DOMAIN Marked(rows, targets) = DOMAIN rows
         /\ \A d \in DOMAIN rows : RightRow(d, Marked(rows, targets)[d])
<1>1. DOMAIN Marked(rows, targets) = DOMAIN rows
  BY DEF Marked
<1>2. ASSUME NEW d \in DOMAIN rows PROVE RightRow(d, Marked(rows, targets)[d])
  <2> DEFINE row == Marked(rows, targets)[d]
  <2>1. row = [score |-> recorded[d].score, lamp |-> recorded[d].lamp, slot |-> recorded[d].slot,
               at |-> recorded[d].at, target |-> d \in targets]
    BY DEF Marked
  <2>2. /\ row.score = recorded[d].score /\ row.lamp = recorded[d].lamp
        /\ row.slot = recorded[d].slot /\ row.at = recorded[d].at
    BY <2>1
  <2>3. row.target = (d \in targets)
    BY <2>1
  <2> HIDE DEF row
  <2>4. RightRow(d, row)
    BY <2>2, <2>3, RightRowIs
  <2> QED
    BY <2>4 DEF row
<1> QED
  BY <1>1, <1>2

LEMMA ShownIs ==
  /\ \A group : Shown(group) \in SUBSET ViewChart
  /\ {c \in ViewChart : Catalog[c].song \notin hidden}
       = Shown("standard") \cup (Shown("worldsend") \cup Shown("course"))
  /\ \A c \in Shown("standard") :
       /\ Catalog[c].group = "standard"
       /\ \A d \in ViewChart : Catalog[d].song = Catalog[c].song => d \in Shown("standard")
BY ProfilesAssumption DEF Shown

\* The page of all records.
LEMMA WholeIsRight ==
  ASSUME ViewTypes, RecordsInv, owner.player # 0, NEW seen,
         seen["records"] = RowsOn(owner.player, Shown("standard")),
         seen["songs"] = Shown("standard"),
         seen["worldsends"] = WorldsendRows(owner.player),
         seen["worldsend songs"] = Shown("worldsend"),
         seen["courses"] = CourseResults(owner.player)
  PROVE  /\ DOMAIN WholeView(seen) = {c \in ViewChart : Catalog[c].song \notin hidden}
         /\ \A c \in DOMAIN WholeView(seen) : RightRow(c, WholeView(seen)[c])
<1> DEFINE all(group) == Complete(RowsOn(owner.player, Shown(group)), Shown(group))
           rows == Joined(all("standard"), Joined(all("worldsend"), all("course")))
           targets == OPTargets(RowsOn(owner.player, Shown("standard")))
<1>1. WholeView(seen) = Marked(rows, targets)
  BY DEF WholeView, WorldsendRows, CourseResults
<1>2. ASSUME NEW group
      PROVE  DOMAIN all(group) = Shown(group) /\ \A d \in Shown(group) : all(group)[d] = recorded[d]
  <2>1. Shown(group) \in SUBSET ViewChart
    BY ShownIs
  <2> QED
    BY <2>1, RowsAre
<1>3. /\ DOMAIN rows = Shown("standard") \cup (Shown("worldsend") \cup Shown("course"))
      /\ \A d \in DOMAIN rows : rows[d] = recorded[d]
  <2> HIDE DEF all
  <2> QED
    BY <1>2 DEF Joined
<1>4. \A d \in Shown("standard") : d \in targets <=> IsTarget(d)
  <2>1. /\ Shown("standard") \in SUBSET ViewChart
        /\ DOMAIN RowsOn(owner.player, Shown("standard")) = {d \in Shown("standard") : recorded[d].at # 0}
        /\ \A d \in DOMAIN RowsOn(owner.player, Shown("standard")) :
              RowsOn(owner.player, Shown("standard"))[d] = recorded[d]
    BY ShownIs, RowsAre
  <2> QED
    BY <2>1, ShownIs, MarksAreRight
<1>5. \A d \in Shown("worldsend") \cup Shown("course") : d \notin targets /\ ~IsTarget(d)
  <2>1. targets \subseteq Shown("standard")
    BY DEF OPTargets, RowsOn
  <2>2. \A d \in Shown("worldsend") \cup Shown("course") : Catalog[d].group # "standard"
    BY DEF Shown
  <2>3. \A d \in Shown("standard") : Catalog[d].group = "standard"
    BY DEF Shown
  <2> HIDE DEF targets
  <2> QED
    BY <2>1, <2>2, <2>3, OthersAreUnmarked
<1> HIDE DEF rows, targets
<1>6. \A d \in DOMAIN rows : d \in targets <=> IsTarget(d)
  BY <1>3, <1>4, <1>5
<1>7. /\ DOMAIN Marked(rows, targets) = DOMAIN rows
      /\ \A d \in DOMAIN rows : RightRow(d, Marked(rows, targets)[d])
  BY <1>3, <1>6, MarkedIs
<1> QED
  BY <1>1, <1>3, <1>7, ShownIs

\* The page of the rating: the plays in slots.
LEMMA RatingIsRight ==
  ASSUME ViewTypes, RecordsInv, owner.player # 0, NEW seen,
         seen["slots"] = SlotRows(owner.player),
         seen["candidates"] = RowsOn(owner.player, Shown("standard"))
  PROVE  LET rows == Marked(seen["slots"], OPTargets(seen["candidates"]))
         IN /\ DOMAIN rows = {c \in ViewChart : Catalog[c].song \notin hidden
                                                 /\ recorded[c].slot # "none"}
            /\ \A c \in DOMAIN rows : RightRow(c, rows[c])
<1> DEFINE plays == RowsOn(owner.player, Shown("standard"))
           rows == SlotRows(owner.player)
           targets == OPTargets(plays)
<1>1. /\ DOMAIN plays = {d \in Shown("standard") : recorded[d].at # 0}
      /\ \A d \in DOMAIN plays : plays[d] = recorded[d]
  BY ShownIs, RowsAre
<1>2. \A d \in Shown("standard") : d \in targets <=> IsTarget(d)
  <2> HIDE DEF plays
  <2> QED
    BY <1>1, ShownIs, MarksAreRight
<1>3. DOMAIN rows = {d \in DOMAIN plays : plays[d].slot # "none"} /\ \A d \in DOMAIN rows : rows[d] = plays[d]
  BY DEF SlotRows
<1> HIDE DEF plays, rows, targets
<1>4. \A c \in ViewChart : recorded[c].slot # "none" => recorded[c].at # 0 /\ Catalog[c].group = "standard"
  BY DEF RecordsInv, Unrecorded
<1>5. DOMAIN rows = {c \in ViewChart : Catalog[c].song \notin hidden /\ recorded[c].slot # "none"}
  BY <1>1, <1>3, <1>4 DEF Shown
<1>6. \A d \in DOMAIN rows : rows[d] = recorded[d] /\ (d \in targets <=> IsTarget(d))
  BY <1>1, <1>2, <1>3
<1>7. /\ DOMAIN Marked(rows, targets) = DOMAIN rows
      /\ \A d \in DOMAIN rows : RightRow(d, Marked(rows, targets)[d])
  BY <1>6, MarkedIs
<1> QED
  BY <1>5, <1>7 DEF rows, targets, plays

\* The page of a song, of all difficulties or of one.
LEMMA SongIsRight ==
  ASSUME ViewTypes, RecordsInv, owner.player # 0, NEW song \in ViewSong, song \notin hidden,
         \E c \in ChartsOf(song) : Catalog[c].group \in {"standard", "worldsend"},
         NEW difficulty, NEW seen, seen["plays"] = SongRows(owner.player, song)
  PROVE  /\ DOMAIN SongView(seen, song, difficulty)
              = {c \in ChartsOf(song) : difficulty \in {0, Catalog[c].difficulty}}
         /\ \A c \in DOMAIN SongView(seen, song, difficulty) :
              RightRow(c, SongView(seen, song, difficulty)[c])
<1> DEFINE charts == ChartsOf(song)
           plays == RowsOn(owner.player, charts)
           all == Complete(plays, charts)
           targets == IF \E c \in charts : Catalog[c].group = "worldsend" THEN {}
                      ELSE OPTargets(plays)
           rows == Marked(all, targets)
<1>0. \E c \in charts : Catalog[c].group \in {"standard", "worldsend"}
  OBVIOUS
<1>1. seen["plays"] = plays
  BY DEF SongRows
<1>2. SongView(seen, song, difficulty)
        = [c \in {d \in DOMAIN rows : difficulty \in {0, Catalog[d].difficulty}} |-> rows[c]]
  BY <1>1 DEF SongView
<1>3. charts \in SUBSET ViewChart
  BY DEF ChartsOf
<1>4. /\ DOMAIN plays = {d \in charts : recorded[d].at # 0}
      /\ \A d \in DOMAIN plays : plays[d] = recorded[d]
      /\ DOMAIN all = charts /\ \A d \in charts : all[d] = recorded[d]
  <2> HIDE DEF charts
  <2> QED
    BY <1>3, RowsAre
<1>5. \A c, d \in charts : Catalog[c].song = Catalog[d].song /\ Catalog[c].group = Catalog[d].group
  BY <1>3, ProfilesAssumption DEF ChartsOf
<1>6. \A c \in charts : \A d \in ViewChart : Catalog[d].song = Catalog[c].song => d \in charts
  BY DEF ChartsOf
<1> HIDE DEF all, plays, charts
<1>7. ASSUME NEW d \in charts PROVE d \in targets <=> IsTarget(d)
  <2>1. CASE Catalog[d].group = "standard"
    <3>1. \A c \in charts : Catalog[c].group = "standard"
      BY <1>5, <1>7, <2>1
    <3>2. targets = OPTargets(plays)
      BY <3>1
    <3>3. d \in OPTargets(plays) <=> IsTarget(d)
      BY <1>3, <1>4, <1>6, <1>7, <3>1, MarksAreRight
    <3> QED
      BY <3>2, <3>3
  <2>2. CASE Catalog[d].group = "worldsend"
    <3>1. targets = {} /\ ~IsTarget(d)
      BY <1>7, <2>2, OthersAreUnmarked
    <3> QED
      BY <3>1
  <2>3. CASE Catalog[d].group = "course"
    BY <1>0, <1>5, <1>7, <2>3
  <2> QED
    BY <1>3, <1>7, <2>1, <2>2, <2>3, ProfilesAssumption
<1> HIDE DEF targets
<1>8. /\ DOMAIN rows = charts
      /\ \A d \in charts : RightRow(d, rows[d])
  BY <1>4, <1>7, MarkedIs
<1> HIDE DEF rows
<1> QED
  BY <1>2, <1>8 DEF charts

-----------------------------------------------------------------------------
\* What a page is made of, beside the account and the access to it.
Needs(kind) ==
  CASE kind = "full" -> {"records", "songs", "worldsends", "worldsend songs", "courses"}
    [] kind = "rating" -> {"slots", "candidates"}
    [] kind \in {"song", "worldsend song"} -> {"plays"}
Pages == {"full", "rating", "song", "worldsend song"}
DataReads ==
  {"player", "records", "songs", "worldsends", "worldsend songs", "courses", "slots",
   "candidates", "song", "plays"}

LEMMA FoundIs ==
  ASSUME NEW id, NEW song
  PROVE  /\ Found("user", id, song) = [private |-> owner.private, player |-> owner.player]
         /\ Found("stamps", id, song)
              = [private |-> owner.private, player |-> owner.player, at |-> Stamp]
         /\ Found("player", id, song) = PlayerRead(id)
         /\ Found("records", id, song) = RowsOn(id, Shown("standard"))
         /\ Found("songs", id, song) = Shown("standard")
         /\ Found("worldsends", id, song) = WorldsendRows(id)
         /\ Found("worldsend songs", id, song) = Shown("worldsend")
         /\ Found("courses", id, song) = CourseResults(id)
         /\ Found("slots", id, song) = SlotRows(id)
         /\ Found("candidates", id, song) = RowsOn(id, Shown("standard"))
         /\ Found("plays", id, song) = SongRows(id, song)
BY DEF Found

LEMMA FoundWhether ==
  ASSUME NEW id, NEW song
  PROVE  /\ Found("access", id, song) = (status = "accepted")
         /\ Found("song", id, song) = (song \notin hidden)
BY DEF Found

RowsAreRight(rows) ==
  DOMAIN rows = RightCharts /\ \A c \in RightCharts : RightRow(c, rows[c])

\* A page of reads that are as if they were made now is right.
LEMMA PageIsRight ==
  ASSUME ViewTypes, RecordsInv, owner.player # 0, view.kind \in Pages, view.song \in ViewSong,
         NEW seen, \A x \in Needs(view.kind) : seen[x] = Found(x, owner.player, view.song),
         view.kind \in {"song", "worldsend song"} => SongAsked(view.song \notin hidden)
  PROVE  RowsAreRight(RowsFor(view.kind, seen))
<1>1. CASE view.kind = "full"
  <2>1. /\ seen["records"] = RowsOn(owner.player, Shown("standard"))
        /\ seen["songs"] = Shown("standard")
        /\ seen["worldsends"] = WorldsendRows(owner.player)
        /\ seen["worldsend songs"] = Shown("worldsend")
        /\ seen["courses"] = CourseResults(owner.player)
    <3>1. Needs(view.kind) = {"records", "songs", "worldsends", "worldsend songs", "courses"}
      BY <1>1 DEF Needs
    <3>2. \A x \in {"records", "songs", "worldsends", "worldsend songs", "courses"} :
            seen[x] = Found(x, owner.player, view.song)
      BY <3>1
    <3>3. /\ seen["records"] = Found("records", owner.player, view.song)
          /\ seen["songs"] = Found("songs", owner.player, view.song)
          /\ seen["worldsends"] = Found("worldsends", owner.player, view.song)
          /\ seen["worldsend songs"] = Found("worldsend songs", owner.player, view.song)
          /\ seen["courses"] = Found("courses", owner.player, view.song)
      BY <3>2
    <3>4. /\ Found("records", owner.player, view.song) = RowsOn(owner.player, Shown("standard"))
          /\ Found("songs", owner.player, view.song) = Shown("standard")
          /\ Found("worldsends", owner.player, view.song) = WorldsendRows(owner.player)
          /\ Found("worldsend songs", owner.player, view.song) = Shown("worldsend")
          /\ Found("courses", owner.player, view.song) = CourseResults(owner.player)
      BY FoundIs
    <3> QED
      BY <3>3, <3>4
  <2>2. RowsFor(view.kind, seen) = WholeView(seen)
    BY <1>1 DEF RowsFor
  <2>3. RightCharts = {c \in ViewChart : Catalog[c].song \notin hidden}
    BY <1>1 DEF RightCharts
  <2> QED
    BY <2>1, <2>2, <2>3, WholeIsRight DEF RowsAreRight
<1>2. CASE view.kind = "rating"
  <2>1. /\ seen["slots"] = SlotRows(owner.player)
        /\ seen["candidates"] = RowsOn(owner.player, Shown("standard"))
    BY <1>2, FoundIs DEF Needs
  <2>2. RowsFor(view.kind, seen) = Marked(seen["slots"], OPTargets(seen["candidates"]))
    BY <1>2 DEF RowsFor
  <2>3. RightCharts = {c \in ViewChart : Catalog[c].song \notin hidden /\ recorded[c].slot # "none"}
    BY <1>2 DEF RightCharts
  <2> QED
    BY <2>1, <2>2, <2>3, RatingIsRight DEF RowsAreRight
<1>3. CASE view.kind \in {"song", "worldsend song"}
  <2>1. seen["plays"] = SongRows(owner.player, view.song)
    BY <1>3, FoundIs DEF Needs
  <2>2. RowsFor(view.kind, seen) = SongView(seen, view.song, view.difficulty)
    BY <1>3 DEF RowsFor
  <2>3. RightCharts = {c \in ChartsOf(view.song) : view.difficulty \in {0, Catalog[c].difficulty}}
    BY <1>3 DEF RightCharts
  <2>4. /\ view.song \notin hidden
        /\ \E c \in ChartsOf(view.song) : Catalog[c].group \in {"standard", "worldsend"}
    BY <1>3 DEF SongAsked, GroupAsked
  <2>5. /\ DOMAIN SongView(seen, view.song, view.difficulty) = RightCharts
        /\ \A c \in DOMAIN SongView(seen, view.song, view.difficulty) :
             RightRow(c, SongView(seen, view.song, view.difficulty)[c])
    BY <2>1, <2>3, <2>4, SongIsRight
  <2> QED
    BY <2>2, <2>5 DEF RowsAreRight
<1> QED
  BY <1>1, <1>2, <1>3 DEF Pages

-----------------------------------------------------------------------------
\* The reads of a request, by their places.
Orderly(f) ==
  /\ Len(f) \in 2 .. 8 /\ f[2] = "access"
  /\ \A n \in 3 .. Len(f) : f[n] \in DataReads
  /\ \A m, n \in 3 .. Len(f) : m < n => f[m] # f[n]
PlayerThird(f) ==
  /\ Len(f) >= 3 /\ f[3] = "player"
  /\ \A n \in 4 .. Len(f) : f[n] # "player" /\ f[n] # "song"
PlaysLast(f) == Len(f) = 4 /\ f[3] = "song" /\ f[4] = "plays"

LEMMA ReadsAre ==
  ASSUME NEW kind \in Kinds
  PROVE  /\ Orderly(Reads(kind))
         /\ kind = "updated at" => Len(Reads(kind)) = 2 /\ Reads(kind)[1] = "stamps"
         /\ kind # "updated at" => Reads(kind)[1] = "user"
         /\ kind \in {"full", "rating", "profile", "badge"} => PlayerThird(Reads(kind))
         /\ kind \in {"song", "worldsend song"} => PlaysLast(Reads(kind))
<1>1. CASE kind = "full"
  <2> DEFINE f == Reads(kind)
  <2>1. f = <<"user", "access", "player", "records", "songs", "worldsends", "worldsend songs", "courses">>
    BY <1>1 DEF Reads
  <2> HIDE DEF f
  <2>2. Len(f) = 8
    BY <2>1
  <2>3. f[1] = "user" /\ f[2] = "access" /\ f[3] = "player"
    BY <2>1
  <2>4. f[4] = "records" /\ f[5] = "songs" /\ f[6] = "worldsends" /\ f[7] = "worldsend songs" /\ f[8] = "courses"
    BY <2>1
  <2>5. \A n \in 3 .. Len(f) : n = 3 \/ n = 4 \/ n = 5 \/ n = 6 \/ n = 7 \/ n = 8
    BY <2>2
  <2>6. \A n \in 3 .. Len(f) : f[n] \in DataReads
    BY <2>3, <2>4, <2>5 DEF DataReads
  <2>7. ASSUME NEW m \in 3 .. Len(f), NEW n \in 3 .. Len(f), m < n PROVE f[m] # f[n]
    <3>1. CASE n = 4
      <4>1. m = 3
        BY <2>5, <2>7, <3>1
      <4> QED
        BY <2>3, <2>4, <3>1, <4>1
    <3>2. CASE n = 5
      <4>1. m = 3 \/ m = 4
        BY <2>5, <2>7, <3>2
      <4> QED
        BY <2>3, <2>4, <3>2, <4>1
    <3>3. CASE n = 6
      <4>1. m = 3 \/ m = 4 \/ m = 5
        BY <2>5, <2>7, <3>3
      <4> QED
        BY <2>3, <2>4, <3>3, <4>1
    <3>4. CASE n = 7
      <4>1. m = 3 \/ m = 4 \/ m = 5 \/ m = 6
        BY <2>5, <2>7, <3>4
      <4> QED
        BY <2>3, <2>4, <3>4, <4>1
    <3>5. CASE n = 8
      <4>1. m = 3 \/ m = 4 \/ m = 5 \/ m = 6 \/ m = 7
        BY <2>5, <2>7, <3>5
      <4> QED
        BY <2>3, <2>4, <3>5, <4>1
    <3> QED
      BY <2>5, <2>7, <3>1, <3>2, <3>3, <3>4, <3>5
  <2>8. ASSUME NEW n \in 4 .. Len(f) PROVE f[n] # "player" /\ f[n] # "song"
    <3>1. n = 4 \/ n = 5 \/ n = 6 \/ n = 7 \/ n = 8
      BY <2>2
    <3> QED
      BY <2>4, <3>1
  <2>9. kind # "updated at" /\ kind \notin {"song", "worldsend song"}
    BY <1>1
  <2>10. Orderly(f)
    BY <2>2, <2>3, <2>6, <2>7 DEF Orderly
  <2>11. PlayerThird(f)
    BY <2>2, <2>3, <2>8 DEF PlayerThird
  <2>12. f[1] = "user"
    BY <2>3
  <2> QED
    BY <2>9, <2>10, <2>11, <2>12 DEF f
<1>2. CASE kind = "rating"
  <2> DEFINE f == Reads(kind)
  <2>1. f = <<"user", "access", "player", "slots", "candidates">>
    BY <1>2 DEF Reads
  <2> HIDE DEF f
  <2>2. Len(f) = 5
    BY <2>1
  <2>3. f[1] = "user" /\ f[2] = "access" /\ f[3] = "player"
    BY <2>1
  <2>4. f[4] = "slots" /\ f[5] = "candidates"
    BY <2>1
  <2>5. \A n \in 3 .. Len(f) : n = 3 \/ n = 4 \/ n = 5
    BY <2>2
  <2>6. \A n \in 3 .. Len(f) : f[n] \in DataReads
    BY <2>3, <2>4, <2>5 DEF DataReads
  <2>7. ASSUME NEW m \in 3 .. Len(f), NEW n \in 3 .. Len(f), m < n PROVE f[m] # f[n]
    <3>1. CASE n = 4
      <4>1. m = 3
        BY <2>5, <2>7, <3>1
      <4> QED
        BY <2>3, <2>4, <3>1, <4>1
    <3>2. CASE n = 5
      <4>1. m = 3 \/ m = 4
        BY <2>5, <2>7, <3>2
      <4> QED
        BY <2>3, <2>4, <3>2, <4>1
    <3> QED
      BY <2>5, <2>7, <3>1, <3>2
  <2>8. ASSUME NEW n \in 4 .. Len(f) PROVE f[n] # "player" /\ f[n] # "song"
    <3>1. n = 4 \/ n = 5
      BY <2>2
    <3> QED
      BY <2>4, <3>1
  <2>9. kind # "updated at" /\ kind \notin {"song", "worldsend song"}
    BY <1>2
  <2>10. Orderly(f)
    BY <2>2, <2>3, <2>6, <2>7 DEF Orderly
  <2>11. PlayerThird(f)
    BY <2>2, <2>3, <2>8 DEF PlayerThird
  <2>12. f[1] = "user"
    BY <2>3
  <2> QED
    BY <2>9, <2>10, <2>11, <2>12 DEF f
<1>3. CASE kind \in {"profile", "badge"}
  <2> DEFINE f == Reads(kind)
  <2>1. f = <<"user", "access", "player">>
    BY <1>3 DEF Reads
  <2> HIDE DEF f
  <2>2. Len(f) = 3
    BY <2>1
  <2>3. f[1] = "user" /\ f[2] = "access" /\ f[3] = "player"
    BY <2>1
  <2>5. \A n \in 3 .. Len(f) : n = 3
    BY <2>2
  <2>6. \A n \in 3 .. Len(f) : f[n] \in DataReads
    BY <2>3, <2>5 DEF DataReads
  <2>7. ASSUME NEW m \in 3 .. Len(f), NEW n \in 3 .. Len(f), m < n PROVE f[m] # f[n]
    BY <2>2, <2>7
  <2>8. ASSUME NEW n \in 4 .. Len(f) PROVE f[n] # "player" /\ f[n] # "song"
    BY <2>2
  <2>9. kind # "updated at" /\ kind \notin {"song", "worldsend song"}
    BY <1>3
  <2>10. Orderly(f)
    BY <2>2, <2>3, <2>6, <2>7 DEF Orderly
  <2>11. PlayerThird(f)
    BY <2>2, <2>3, <2>8 DEF PlayerThird
  <2>12. f[1] = "user"
    BY <2>3
  <2> QED
    BY <2>9, <2>10, <2>11, <2>12 DEF f
<1>4. CASE kind \in {"song", "worldsend song"}
  <2> DEFINE f == Reads(kind)
  <2>1. f = <<"user", "access", "song", "plays">>
    BY <1>4 DEF Reads
  <2> HIDE DEF f
  <2>2. Len(f) = 4
    BY <2>1
  <2>3. f[1] = "user" /\ f[2] = "access" /\ f[3] = "song"
    BY <2>1
  <2>4. f[4] = "plays"
    BY <2>1
  <2>5. \A n \in 3 .. Len(f) : n = 3 \/ n = 4
    BY <2>2
  <2>6. \A n \in 3 .. Len(f) : f[n] \in DataReads
    BY <2>3, <2>4, <2>5 DEF DataReads
  <2>7. ASSUME NEW m \in 3 .. Len(f), NEW n \in 3 .. Len(f), m < n PROVE f[m] # f[n]
    <3>1. CASE n = 4
      <4>1. m = 3
        BY <2>5, <2>7, <3>1
      <4> QED
        BY <2>3, <2>4, <3>1, <4>1
    <3> QED
      BY <2>5, <2>7, <3>1
  <2>8. ASSUME NEW n \in 4 .. Len(f) PROVE f[n] # "player" /\ f[n] # "song"
    <3>1. n = 4
      BY <2>2
    <3> QED
      BY <2>4, <3>1
  <2>9. kind # "updated at" /\ kind \notin {"full", "rating", "profile", "badge"}
    BY <1>4
  <2>10. Orderly(f)
    BY <2>2, <2>3, <2>6, <2>7 DEF Orderly
  <2>11. PlaysLast(f)
    BY <2>2, <2>3, <2>4 DEF PlaysLast
  <2>12. f[1] = "user"
    BY <2>3
  <2> QED
    BY <2>9, <2>10, <2>11, <2>12 DEF f
<1>5. CASE kind = "updated at"
  <2> DEFINE f == Reads(kind)
  <2>1. f = <<"stamps", "access">>
    BY <1>5 DEF Reads
  <2> HIDE DEF f
  <2>2. Len(f) = 2
    BY <2>1
  <2>3. f[1] = "stamps" /\ f[2] = "access"
    BY <2>1
  <2>5. \A n \in 3 .. Len(f) : FALSE
    BY <2>2
  <2>6. \A n \in 3 .. Len(f) : f[n] \in DataReads
    BY <2>5
  <2>7. ASSUME NEW m \in 3 .. Len(f), NEW n \in 3 .. Len(f), m < n PROVE f[m] # f[n]
    BY <2>2, <2>7
  <2>8. ASSUME NEW n \in 4 .. Len(f) PROVE f[n] # "player" /\ f[n] # "song"
    BY <2>2
  <2>9. kind \notin {"full", "rating", "profile", "badge", "song", "worldsend song"}
    BY <1>5
  <2>10. Orderly(f)
    BY <2>2, <2>3, <2>6, <2>7 DEF Orderly
  <2>11. Len(f) = 2 /\ f[1] = "stamps"
    BY <2>2, <2>3
  <2>12. f[1] = "stamps"
    BY <2>3
  <2> QED
    BY <1>5, <2>9, <2>10, <2>11, <2>12 DEF f
<1> QED
  BY <1>1, <1>2, <1>3, <1>4, <1>5 DEF Kinds

\* What a page needs is among the reads for it.
Reading(kind) == {Reads(kind)[n] : n \in 1 .. Len(Reads(kind))}

LEMMA NeedsAre ==
  ASSUME NEW kind \in Pages
  PROVE  Needs(kind) \subseteq Reading(kind) /\ Needs(kind) \subseteq DataReads
<1>1. Needs("full") \subseteq Reading("full") /\ Needs("full") \subseteq DataReads
  <2> DEFINE f == Reads("full")
  <2>1. f = <<"user", "access", "player", "records", "songs", "worldsends", "worldsend songs", "courses">>
    BY DEF Reads
  <2>2. Needs("full") = {"records", "songs", "worldsends", "worldsend songs", "courses"}
    BY DEF Needs
  <2> HIDE DEF f
  <2>3. Len(f) = 8
    BY <2>1
  <2>4. f[4] = "records" /\ f[5] = "songs" /\ f[6] = "worldsends" /\ f[7] = "worldsend songs" /\ f[8] = "courses"
    BY <2>1
  <2>5. 4 \in 1 .. Len(f) /\ 5 \in 1 .. Len(f) /\ 6 \in 1 .. Len(f) /\ 7 \in 1 .. Len(f) /\ 8 \in 1 .. Len(f)
    BY <2>3
  <2>6. {"records", "songs", "worldsends", "worldsend songs", "courses"} \subseteq {f[n] : n \in 1 .. Len(f)}
    BY <2>4, <2>5
  <2>7. {"records", "songs", "worldsends", "worldsend songs", "courses"} \subseteq DataReads
    BY DEF DataReads
  <2> QED
    BY <2>2, <2>6, <2>7 DEF f, Reading
<1>2. Needs("rating") \subseteq Reading("rating") /\ Needs("rating") \subseteq DataReads
  <2> DEFINE f == Reads("rating")
  <2>1. f = <<"user", "access", "player", "slots", "candidates">>
    BY DEF Reads
  <2>2. Needs("rating") = {"slots", "candidates"}
    BY DEF Needs
  <2> HIDE DEF f
  <2>3. Len(f) = 5
    BY <2>1
  <2>4. f[4] = "slots" /\ f[5] = "candidates"
    BY <2>1
  <2>5. 4 \in 1 .. Len(f) /\ 5 \in 1 .. Len(f)
    BY <2>3
  <2>6. {"slots", "candidates"} \subseteq {f[n] : n \in 1 .. Len(f)}
    BY <2>4, <2>5
  <2>7. {"slots", "candidates"} \subseteq DataReads
    BY DEF DataReads
  <2> QED
    BY <2>2, <2>6, <2>7 DEF f, Reading
<1>3. Needs("song") \subseteq Reading("song") /\ Needs("song") \subseteq DataReads
  <2> DEFINE f == Reads("song")
  <2>1. f = <<"user", "access", "song", "plays">>
    BY DEF Reads
  <2>2. Needs("song") = {"plays"}
    BY DEF Needs
  <2> HIDE DEF f
  <2>3. Len(f) = 4
    BY <2>1
  <2>4. f[4] = "plays"
    BY <2>1
  <2>5. 4 \in 1 .. Len(f)
    BY <2>3
  <2>6. {"plays"} \subseteq {f[n] : n \in 1 .. Len(f)}
    BY <2>4, <2>5
  <2>7. {"plays"} \subseteq DataReads
    BY DEF DataReads
  <2> QED
    BY <2>2, <2>6, <2>7 DEF f, Reading
<1>4. Needs("worldsend song") \subseteq Reading("worldsend song") /\ Needs("worldsend song") \subseteq DataReads
  <2> DEFINE f == Reads("worldsend song")
  <2>1. f = <<"user", "access", "song", "plays">>
    BY DEF Reads
  <2>2. Needs("worldsend song") = {"plays"}
    BY DEF Needs
  <2> HIDE DEF f
  <2>3. Len(f) = 4
    BY <2>1
  <2>4. f[4] = "plays"
    BY <2>1
  <2>5. 4 \in 1 .. Len(f)
    BY <2>3
  <2>6. {"plays"} \subseteq {f[n] : n \in 1 .. Len(f)}
    BY <2>4, <2>5
  <2>7. {"plays"} \subseteq DataReads
    BY DEF DataReads
  <2> QED
    BY <2>2, <2>6, <2>7 DEF f, Reading
<1> QED
  BY <1>1, <1>2, <1>3, <1>4 DEF Pages

-----------------------------------------------------------------------------
\* What the request under way reads next, and what it then knows.
ThisRead == Reads(view.kind)[view.reads + 1]
IdOf(seen) == IF "user" \in DOMAIN seen THEN seen["user"].player ELSE 0
Id == IdOf(view.seen)
NowSeen == Joined(view.seen, [x \in {ThisRead} |-> Found(x, Id, view.song)])

PlaceInv ==
  view.stage = "reading" =>
    /\ view.reads < Len(Reads(view.kind))
    /\ DOMAIN view.seen = {Reads(view.kind)[n] : n \in 1 .. view.reads}

LEMMA NextReadIs ==
  ASSUME ViewTypes, PlaceInv, view.stage = "reading"
  PROVE  /\ view.kind \in Kinds /\ view.reads \in Nat /\ Orderly(Reads(view.kind))
         /\ ThisRead \notin DOMAIN view.seen
         /\ view.reads = 0 =>
              ThisRead = IF view.kind = "updated at" THEN "stamps" ELSE "user"
         /\ view.reads = 1 => ThisRead = "access"
         /\ view.reads > 1 =>
              ThisRead \in DataReads /\ "access" \in DOMAIN view.seen /\ view.kind # "updated at"
         /\ view.reads > 0 =>
              (IF view.kind = "updated at" THEN "stamps" ELSE "user") \in DOMAIN view.seen
         /\ DOMAIN NowSeen = {Reads(view.kind)[n] : n \in 1 .. view.reads + 1}
         /\ \A x \in DOMAIN view.seen : NowSeen[x] = view.seen[x]
         /\ NowSeen[ThisRead] = Found(ThisRead, Id, view.song)
<1> DEFINE f == Reads(view.kind)
           n == view.reads
<1>1. view.kind \in Kinds /\ n \in Nat
  BY DEF ViewTypes
<1>2. /\ Orderly(f)
      /\ view.kind = "updated at" => Len(f) = 2 /\ f[1] = "stamps"
      /\ view.kind # "updated at" => f[1] = "user"
  BY <1>1, ReadsAre
<1>3. ThisRead = f[n + 1]
  BY DEF ThisRead
<1>4. n < Len(f) /\ DOMAIN view.seen = {f[m] : m \in 1 .. n}
  BY DEF PlaceInv
<1>5. f[1] \in {"stamps", "user"} /\ f[2] = "access" /\ Len(f) \in 2 .. 8
  BY <1>2 DEF Orderly
<1> HIDE DEF f, n
<1>6. \A m \in 3 .. Len(f) : f[m] \in DataReads
  BY <1>2 DEF Orderly
<1>7. \A m \in 3 .. Len(f) : f[m] # f[1] /\ f[m] # f[2]
  BY <1>5, <1>6 DEF DataReads
<1>8. \A k, m \in 3 .. Len(f) : k < m => f[k] # f[m]
  BY <1>2 DEF Orderly
<1>9. \A k \in 1 .. n : f[k] # f[n + 1]
  <2> SUFFICES ASSUME NEW k \in 1 .. n PROVE f[k] # f[n + 1]
    OBVIOUS
  <2>1. CASE n = 1
    <3>1. k = 1
      BY <2>1
    <3>2. f[1] # f[2]
      BY <1>5
    <3> QED
      BY <2>1, <3>1, <3>2
  <2>2. CASE n > 1
    <3>1. n + 1 \in 3 .. Len(f)
      BY <1>1, <1>4, <1>5, <2>2
    <3>2. k = 1 \/ k = 2 \/ k \in 3 .. Len(f)
      BY <1>1, <1>4, <1>5, <2>2
    <3> QED
      BY <1>1, <1>7, <1>8, <3>1, <3>2
  <2> QED
    BY <1>1, <2>1, <2>2
<1>10. ThisRead \notin DOMAIN view.seen
  BY <1>3, <1>4, <1>9
<1>11. n = 0 => ThisRead = IF view.kind = "updated at" THEN "stamps" ELSE "user"
  <2>1. n = 0 => ThisRead = f[1]
    BY <1>3
  <2> QED
    BY <1>2, <2>1
<1>12. n = 1 => ThisRead = "access"
  BY <1>3, <1>5
<1>13. n > 1 => ThisRead \in DataReads /\ view.kind # "updated at"
  <2>1. n > 1 => n + 1 \in 3 .. Len(f) /\ Len(f) # 2
    BY <1>1, <1>4, <1>5
  <2>2. n > 1 => f[n + 1] \in DataReads
    BY <1>6, <2>1
  <2>3. n > 1 => view.kind # "updated at"
    BY <1>2, <2>1
  <2> QED
    BY <1>3, <2>2, <2>3
<1>14. n > 1 => "access" \in DOMAIN view.seen
  BY <1>1, <1>4, <1>5
<1>15. n > 0 => (IF view.kind = "updated at" THEN "stamps" ELSE "user") \in DOMAIN view.seen
  <2>1. n > 0 => f[1] \in DOMAIN view.seen
    BY <1>1, <1>4
  <2> QED
    BY <1>2, <2>1
<1>16. /\ DOMAIN NowSeen = DOMAIN view.seen \cup {ThisRead}
       /\ \A x \in DOMAIN view.seen : NowSeen[x] = view.seen[x]
       /\ NowSeen[ThisRead] = Found(ThisRead, Id, view.song)
  BY <1>10 DEF NowSeen, Joined
<1>17. DOMAIN NowSeen = {f[m] : m \in 1 .. n + 1}
  <2>1. \A m : m \in 1 .. n + 1 <=> m \in 1 .. n \/ m = n + 1
    BY <1>1
  <2> QED
    BY <1>3, <1>4, <1>16, <2>1
<1> QED
  BY <1>1, <1>2, <1>10, <1>11, <1>12, <1>13, <1>14, <1>15, <1>16, <1>17 DEF f, n

LEMMA ViewRecord ==
  ASSUME NEW v,
         v = [stage |-> v.stage, kind |-> v.kind, by |-> v.by, song |-> v.song,
              difficulty |-> v.difficulty, reads |-> v.reads, seen |-> v.seen, answer |-> v.answer]
  PROVE  /\ \A answer : [v EXCEPT !.stage = "done", !.reads = 0, !.seen = <<>>, !.answer = answer]
              = [stage |-> "done", kind |-> v.kind, by |-> v.by, song |-> v.song,
                 difficulty |-> v.difficulty, reads |-> 0, seen |-> <<>>, answer |-> answer]
         /\ \A seen : [v EXCEPT !.reads = @ + 1, !.seen = seen]
              = [stage |-> v.stage, kind |-> v.kind, by |-> v.by, song |-> v.song,
                 difficulty |-> v.difficulty, reads |-> v.reads + 1, seen |-> seen,
                 answer |-> v.answer]
<1>0. DOMAIN v = {"stage", "kind", "by", "song", "difficulty", "reads", "seen", "answer"}
  <2>1. DOMAIN [stage |-> v.stage, kind |-> v.kind, by |-> v.by, song |-> v.song,
                difficulty |-> v.difficulty, reads |-> v.reads, seen |-> v.seen, answer |-> v.answer]
          = {"stage", "kind", "by", "song", "difficulty", "reads", "seen", "answer"}
    OBVIOUS
  <2> QED
    BY <2>1
<1>1. ASSUME NEW answer
      PROVE  [v EXCEPT !.stage = "done", !.reads = 0, !.seen = <<>>, !.answer = answer]
              = [stage |-> "done", kind |-> v.kind, by |-> v.by, song |-> v.song,
                 difficulty |-> v.difficulty, reads |-> 0, seen |-> <<>>, answer |-> answer]
  <2> DEFINE w == [v EXCEPT !.stage = "done", !.reads = 0, !.seen = <<>>, !.answer = answer]
  <2>1. w = [x \in DOMAIN v |-> IF x = "answer" THEN answer ELSE IF x = "seen" THEN <<>>
                                ELSE IF x = "reads" THEN 0 ELSE IF x = "stage" THEN "done" ELSE v[x]]
    BY <1>0
  <2> HIDE DEF w
  <2>2. /\ w.stage = "done" /\ w.kind = v.kind /\ w.by = v.by /\ w.song = v.song
        /\ w.difficulty = v.difficulty /\ w.reads = 0 /\ w.seen = <<>> /\ w.answer = answer
    BY <1>0, <2>1
  <2>3. w = [stage |-> w.stage, kind |-> w.kind, by |-> w.by, song |-> w.song,
             difficulty |-> w.difficulty, reads |-> w.reads, seen |-> w.seen, answer |-> w.answer]
    BY <1>0, <2>1
  <2> QED
    BY <2>2, <2>3 DEF w
<1>2. ASSUME NEW seen
      PROVE  [v EXCEPT !.reads = @ + 1, !.seen = seen]
              = [stage |-> v.stage, kind |-> v.kind, by |-> v.by, song |-> v.song,
                 difficulty |-> v.difficulty, reads |-> v.reads + 1, seen |-> seen,
                 answer |-> v.answer]
  <2> DEFINE w == [v EXCEPT !.reads = @ + 1, !.seen = seen]
  <2>1. w = [x \in DOMAIN v |-> IF x = "seen" THEN seen ELSE IF x = "reads" THEN v.reads + 1 ELSE v[x]]
    BY <1>0
  <2> HIDE DEF w
  <2>2. /\ w.stage = v.stage /\ w.kind = v.kind /\ w.by = v.by /\ w.song = v.song
        /\ w.difficulty = v.difficulty /\ w.reads = v.reads + 1 /\ w.seen = seen
        /\ w.answer = v.answer
    BY <1>0, <2>1
  <2>3. w = [stage |-> w.stage, kind |-> w.kind, by |-> w.by, song |-> w.song,
             difficulty |-> w.difficulty, reads |-> w.reads, seen |-> w.seen, answer |-> w.answer]
    BY <1>0, <2>1
  <2> QED
    BY <2>2, <2>3 DEF w
<1> QED
  BY <1>1, <1>2

\* A read either ends the request, or is its last, or is followed by another.
LEMMA ReadsNextIs ==
  ASSUME ViewTypes, ReadsNext
  PROVE  /\ view.stage = "reading"
         /\ UNCHANGED <<owner, status, recorded, hidden, since, edits>>
         /\ view'.kind = view.kind /\ view'.by = view.by /\ view'.song = view.song
         /\ view'.difficulty = view.difficulty
         /\ \/ /\ Ends(ThisRead, NowSeen) # "no" /\ view'.stage = "done"
               /\ view'.answer = [NoAnswer EXCEPT !.outcome = Ends(ThisRead, NowSeen)]
            \/ /\ Ends(ThisRead, NowSeen) = "no" /\ view'.stage = "done"
               /\ view.reads + 1 = Len(Reads(view.kind))
               /\ view'.answer = Answer(view.kind, NowSeen)
            \/ /\ Ends(ThisRead, NowSeen) = "no" /\ view'.stage = "reading"
               /\ view.reads + 1 # Len(Reads(view.kind))
               /\ view'.reads = view.reads + 1 /\ view'.seen = NowSeen
         /\ ViewTypes'
<1> DEFINE end == Ends(ThisRead, NowSeen)
           over(answer) == [view EXCEPT !.stage = "done", !.reads = 0, !.seen = <<>>,
                                        !.answer = answer]
           more == [view EXCEPT !.reads = @ + 1, !.seen = NowSeen]
<1>1. view.stage = "reading" /\ UNCHANGED <<owner, status, recorded, hidden, since, edits>>
  BY DEF ReadsNext
<1>2. view' = IF end # "no" THEN over([NoAnswer EXCEPT !.outcome = end])
              ELSE IF view.reads + 1 = Len(Reads(view.kind)) THEN over(Answer(view.kind, NowSeen))
              ELSE more
  BY DEF ReadsNext, ThisRead, NowSeen, Id, IdOf
<1>3. /\ view = [stage |-> view.stage, kind |-> view.kind, by |-> view.by, song |-> view.song,
                 difficulty |-> view.difficulty, reads |-> view.reads, seen |-> view.seen,
                 answer |-> view.answer]
      /\ view.kind \in Kinds /\ view.by \in Requester /\ view.song \in ViewSong
      /\ view.difficulty \in Difficulty \cup {0} /\ view.reads \in Nat
  BY <1>1 DEF ViewTypes
<1>4. \A a : over(a) = [stage |-> "done", kind |-> view.kind, by |-> view.by, song |-> view.song,
                        difficulty |-> view.difficulty, reads |-> 0, seen |-> <<>>, answer |-> a]
  BY <1>3, ViewRecord
<1>5. more = [stage |-> view.stage, kind |-> view.kind, by |-> view.by, song |-> view.song,
              difficulty |-> view.difficulty, reads |-> view.reads + 1, seen |-> NowSeen,
              answer |-> view.answer]
  BY <1>3, ViewRecord
<1> HIDE DEF end, over, more
<1>6. PICK v : /\ view' = v
               /\ \/ end # "no" /\ v = over([NoAnswer EXCEPT !.outcome = end])
                  \/ /\ end = "no" /\ view.reads + 1 = Len(Reads(view.kind))
                     /\ v = over(Answer(view.kind, NowSeen))
                  \/ end = "no" /\ view.reads + 1 # Len(Reads(view.kind)) /\ v = more
  BY <1>2
<1>7. /\ v.kind = view.kind /\ v.by = view.by /\ v.song = view.song
      /\ v.difficulty = view.difficulty
      /\ \/ /\ end # "no" /\ v.stage = "done"
            /\ v.answer = [NoAnswer EXCEPT !.outcome = end]
         \/ /\ end = "no" /\ v.stage = "done"
            /\ view.reads + 1 = Len(Reads(view.kind))
            /\ v.answer = Answer(view.kind, NowSeen)
         \/ /\ end = "no" /\ v.stage = "reading"
            /\ view.reads + 1 # Len(Reads(view.kind))
            /\ v.reads = view.reads + 1 /\ v.seen = NowSeen
  BY <1>1, <1>4, <1>5, <1>6
<1>8. v \in [stage : {"done", "reading"}, kind : Kinds, by : Requester, song : ViewSong,
             difficulty : Difficulty \cup {0}, reads : Nat, seen : {v.seen}, answer : {v.answer}]
  <2>1. \A a : over(a) \in [stage : {"done", "reading"}, kind : Kinds, by : Requester,
                            song : ViewSong, difficulty : Difficulty \cup {0}, reads : Nat,
                            seen : {over(a).seen}, answer : {over(a).answer}]
    BY <1>3, <1>4
  <2>2. more \in [stage : {"done", "reading"}, kind : Kinds, by : Requester, song : ViewSong,
                  difficulty : Difficulty \cup {0}, reads : Nat,
                  seen : {more.seen}, answer : {more.answer}]
    BY <1>1, <1>3, <1>5
  <2> QED
    BY <1>6, <2>1, <2>2
<1>9. /\ view' \in [stage : {"idle", "reading", "done"}, kind : Kinds \cup {"none"}, by : Requester,
               song : ViewSong \cup {"none"}, difficulty : Difficulty \cup {0}, reads : Nat,
               seen : {view'.seen}, answer : {view'.answer}]
      /\ view'.kind \in Kinds /\ view'.song \in ViewSong
  BY <1>6, <1>8
<1>10. ViewTypes'
  BY <1>1, <1>9 DEF ViewTypes
<1> QED
  BY <1>1, <1>6, <1>7, <1>10 DEF end

-----------------------------------------------------------------------------
(* What the changes around a request do. *)

OwnerType == [private : BOOLEAN, player : Nat, updated : CollectedAt \cup {0},
              collected : CollectedAt \cup {0}]
SinceType == [still : BOOLEAN, songs : BOOLEAN, allowed : BOOLEAN, bumped : BOOLEAN, next : Nat]

LEMMA NotedIs ==
  ASSUME NEW r \in SinceType, NEW b \in BOOLEAN
  PROVE  /\ [r EXCEPT !.still = FALSE, !.allowed = b] \in SinceType
         /\ [r EXCEPT !.still = FALSE, !.allowed = b].still = FALSE
         /\ [r EXCEPT !.still = FALSE, !.allowed = b].allowed = b
         /\ [r EXCEPT !.still = FALSE, !.allowed = b].songs = r.songs
         /\ [r EXCEPT !.still = FALSE, !.allowed = b].bumped = r.bumped
         /\ [r EXCEPT !.still = FALSE, !.allowed = b].next = r.next
BY DEF SinceType

LEMMA WithBodyIs ==
  ASSUME NEW rows \in [ViewChart -> Play], NEW body, body \in Registered \/ body = <<>>,
         NEW t \in Nat, t > 0 \/ body = <<>>
  PROVE  /\ WithBody(rows, body, t) \in [ViewChart -> Play]
         /\ \A c \in ViewChart :
              /\ WithBody(rows, body, t)[c].at \in {rows[c].at, t}
              /\ (rows[c].at = 0 => rows[c] = Unrecorded) =>
                   (WithBody(rows, body, t)[c].at = 0 => WithBody(rows, body, t)[c] = Unrecorded)
              /\ WithBody(rows, body, t)[c].slot # "none" => Catalog[c].group = "standard"
<1> SUFFICES ASSUME NEW c \in ViewChart
    PROVE  /\ WithBody(rows, body, t)[c] \in Play
           /\ WithBody(rows, body, t)[c].at \in {rows[c].at, t}
           /\ (rows[c].at = 0 => rows[c] = Unrecorded) =>
                (WithBody(rows, body, t)[c].at = 0 => WithBody(rows, body, t)[c] = Unrecorded)
           /\ WithBody(rows, body, t)[c].slot # "none" => Catalog[c].group = "standard"
  BY DEF WithBody
<1>1. CASE c \notin DOMAIN body
  <2>1. WithBody(rows, body, t)[c] = [rows[c] EXCEPT !.slot = "none"]
    BY <1>1 DEF WithBody
  <2>2. PICK s \in Nat, l \in ComboLamp, p \in Slots, n \in Nat :
          rows[c] = [score |-> s, lamp |-> l, slot |-> p, at |-> n]
    BY DEF Play
  <2>3. [rows[c] EXCEPT !.slot = "none"] = [score |-> s, lamp |-> l, slot |-> "none", at |-> n]
    BY <2>2
  <2> DEFINE row == WithBody(rows, body, t)[c]
  <2>4. row = [score |-> s, lamp |-> l, slot |-> "none", at |-> n]
    BY <2>1, <2>3
  <2> HIDE DEF row
  <2>5. row \in Play /\ row.at = rows[c].at /\ row.slot = "none"
    <3>1. row.at = n /\ row.slot = "none"
      BY <2>4
    <3>2. rows[c].at = n
      BY <2>2
    <3>3. row \in Play
      <4>1. "none" \in Slots
        BY DEF Slots
      <4>2. PICK q \in Slots : row = [score |-> s, lamp |-> l, slot |-> q, at |-> n]
        BY <2>4, <4>1
      <4> QED
        BY <4>2 DEF Play
    <3> QED
      BY <3>1, <3>2, <3>3
  <2>6. ASSUME rows[c] = Unrecorded PROVE row = Unrecorded
    <3>1. s = 0 /\ l = "none" /\ n = 0
      BY <2>2, <2>6 DEF Unrecorded
    <3> QED
      BY <2>4, <3>1 DEF Unrecorded
  <2> QED
    BY <2>5, <2>6 DEF row
<1>2. CASE c \in DOMAIN body
  <2>1. body \in Registered /\ t > 0
    BY <1>2
  <2>2. /\ body[c].score \in Nat /\ body[c].lamp \in ComboLamp /\ body[c].slot \in Slots
        /\ body[c].slot # "none" => Catalog[c].group = "standard"
    BY <1>2, <2>1, ProfilesAssumption DEF Slots
  <2>3. PICK n \in {rows[c].at, t} :
          /\ n # 0
          /\ WithBody(rows, body, t)[c] = [score |-> body[c].score, lamp |-> body[c].lamp,
                                           slot |-> body[c].slot, at |-> n]
    BY <1>2, <2>1 DEF WithBody
  <2>4. n \in Nat
    BY DEF Play
  <2> QED
    BY <2>2, <2>3, <2>4 DEF Play
<1> QED
  BY <1>1, <1>2

\* The change is noted by the request under way, which goes on as before.
LEMMA MovesIs ==
  ASSUME ViewTypes, NEW noted \in SinceType, noted.allowed = since.allowed, Moves(noted)
  PROVE  /\ view' = view /\ edits' \in 0 .. MaxViewSteps /\ since' \in SinceType
         /\ since'.still = FALSE /\ since'.songs = noted.songs /\ since'.bumped = noted.bumped
         /\ since'.next = noted.next
         /\ (AllowedTo(view.by))' => since'.allowed
         /\ since.allowed => since'.allowed
<1> DEFINE b == since.allowed \/ (AllowedTo(view.by))'
<1>1. view' = view /\ edits' = edits + 1 /\ edits < MaxViewSteps
  BY DEF Moves
<1>2. since' = [noted EXCEPT !.still = FALSE, !.allowed = noted.allowed \/ (AllowedTo(view.by))']
  BY DEF Moves
<1>3. (noted.allowed \/ (AllowedTo(view.by))') = b
  OBVIOUS
<1>4. b \in BOOLEAN /\ (since.allowed => b) /\ ((AllowedTo(view.by))' => b)
  OBVIOUS
<1>5. edits' \in 0 .. MaxViewSteps
  BY <1>1, ProfilesAssumption DEF ViewTypes
<1>6. since' = [noted EXCEPT !.still = FALSE, !.allowed = b]
  BY <1>2, <1>3
<1> HIDE DEF b
<1>7. /\ since' \in SinceType /\ since'.still = FALSE /\ since'.allowed = b
      /\ since'.songs = noted.songs /\ since'.bumped = noted.bumped /\ since'.next = noted.next
  BY <1>4, <1>6, NotedIs
<1> QED
  BY <1>1, <1>4, <1>5, <1>7

\* What is true of all changes.  A player read before, with its time, is the one there now
\* only when nothing of it changed.
Unmoved(id, u) ==
  /\ since.songs /\ ~since.bumped /\ owner.player = id /\ u = owner.updated

EarlierRead(id, u) ==
  /\ IF owner.player = 0 THEN id < since.next ELSE id <= owner.player
  /\ ~since.bumped /\ owner.player = id => u <= owner.updated

Moved ==
  /\ view' = view /\ since'.still = FALSE
  /\ (AllowedTo(view.by))' => since'.allowed
  /\ since.allowed => since'.allowed
  /\ \A id \in Nat \ {0}, u \in Nat :
       EarlierRead(id, u) =>
         /\ IF owner'.player = 0 THEN id < since'.next ELSE id <= owner'.player
         /\ ~since'.bumped /\ owner'.player = id => u <= owner'.updated
         /\ since'.songs /\ ~since'.bumped /\ owner'.player = id /\ u = owner'.updated =>
              /\ Unmoved(id, u) /\ recorded' = recorded /\ hidden' = hidden
              /\ owner'.updated = owner.updated

LEMMA SinceTyped ==
  ASSUME ViewTypes
  PROVE  owner \in OwnerType /\ since \in SinceType /\ CollectedAt \cup {0} \subseteq Nat
BY ProfilesAssumption DEF ViewTypes, OwnerType, SinceType

LEMMA TypesFrom ==
  ASSUME ViewTypes, owner' \in OwnerType, status' \in {"none", "pending", "accepted"},
         recorded' \in [ViewChart -> Play], hidden' \subseteq ViewSong, since' \in SinceType,
         view' = view, edits' \in 0 .. MaxViewSteps
  PROVE  ViewTypes'
BY DEF ViewTypes, OwnerType, SinceType

LEMMA RegistrationMoves ==
  ASSUME ViewTypes, RecordsInv, since.next > 0, Registration
  PROVE  ViewTypes' /\ RecordsInv' /\ since'.next > 0 /\ Moved
<1>1. PICK body \in Registered, t \in CollectedAt :
        /\ t > owner.collected
        /\ owner' = [owner EXCEPT !.player = IF @ = 0 THEN since.next ELSE @, !.updated = t,
                                  !.collected = t]
        /\ recorded' = WithBody(recorded, body, t)
        /\ status' = status /\ hidden' = hidden /\ Moves(since)
  BY DEF Registration
<1>2. owner \in OwnerType /\ since \in SinceType /\ CollectedAt \cup {0} \subseteq Nat
  BY SinceTyped
<1>3. t \in Nat \ {0} /\ recorded \in [ViewChart -> Play] /\ hidden \subseteq ViewSong
        /\ status \in {"none", "pending", "accepted"}
  BY ProfilesAssumption DEF ViewTypes
<1>4. /\ view' = view /\ edits' \in 0 .. MaxViewSteps /\ since' \in SinceType
      /\ since'.still = FALSE /\ since'.songs = since.songs /\ since'.bumped = since.bumped
      /\ since'.next = since.next
      /\ (AllowedTo(view.by))' => since'.allowed
      /\ since.allowed => since'.allowed
  BY <1>1, <1>2, MovesIs
<1>5. /\ owner' \in OwnerType
      /\ owner'.player = IF owner.player = 0 THEN since.next ELSE owner.player
      /\ owner'.updated = t /\ owner'.collected = t
  <2> DEFINE p == IF owner.player = 0 THEN since.next ELSE owner.player
  <2>1. p \in Nat
    BY <1>2 DEF OwnerType, SinceType
  <2>2. owner' = [owner EXCEPT !.player = p, !.updated = t, !.collected = t]
    BY <1>1, <1>2 DEF OwnerType
  <2> HIDE DEF p
  <2>3. owner' \in OwnerType /\ owner'.player = p /\ owner'.updated = t /\ owner'.collected = t
    <3>1. PICK a \in BOOLEAN, b \in Nat, c \in CollectedAt \cup {0}, d \in CollectedAt \cup {0} :
            owner = [private |-> a, player |-> b, updated |-> c, collected |-> d]
      BY <1>2 DEF OwnerType
    <3>2. owner' = [private |-> a, player |-> p, updated |-> t, collected |-> t]
      BY <2>2, <3>1
    <3> QED
      BY <2>1, <3>2 DEF OwnerType
  <2> QED
    BY <2>3 DEF p
<1>6. /\ recorded' \in [ViewChart -> Play]
      /\ \A c \in ViewChart :
           /\ recorded'[c].at \in {recorded[c].at, t}
           /\ (recorded[c].at = 0 => recorded[c] = Unrecorded) =>
                (recorded'[c].at = 0 => recorded'[c] = Unrecorded)
           /\ recorded'[c].slot # "none" => Catalog[c].group = "standard"
  BY <1>1, <1>3, WithBodyIs
<1>7. ViewTypes'
  BY <1>1, <1>3, <1>4, <1>5, <1>6, TypesFrom
<1>8. /\ owner.player \in Nat /\ owner.updated \in Nat /\ owner.collected \in Nat
      /\ since.next \in Nat /\ since.bumped \in BOOLEAN
  BY <1>2 DEF OwnerType, SinceType
<1>9. RecordsInv'
  <2>1. ASSUME NEW c \in ViewChart
        PROVE  /\ recorded'[c].at = 0 => recorded'[c] = Unrecorded
               /\ recorded'[c].slot # "none" => Catalog[c].group = "standard"
               /\ recorded'[c].at <= owner'.collected
    <3>1. /\ recorded[c].at = 0 => recorded[c] = Unrecorded
          /\ recorded[c].at <= owner.collected /\ recorded[c].at \in Nat
      BY <1>3 DEF RecordsInv, Play
    <3>2. recorded'[c].at <= owner'.collected
      BY <1>1, <1>3, <1>5, <1>6, <1>8, <3>1
    <3> QED
      BY <1>6, <3>1, <3>2
  <2>2. owner'.player # 0
    BY <1>5, <1>8
  <2>3. owner'.updated = owner'.collected
    BY <1>5
  <2> QED
    BY <2>1, <2>2, <2>3 DEF RecordsInv
<1>10. Moved
  <2>1. ASSUME NEW id \in Nat \ {0}, NEW u \in Nat, EarlierRead(id, u)
        PROVE  /\ id <= owner'.player /\ owner'.player # 0
               /\ ~since'.bumped /\ owner'.player = id => u < owner'.updated
    <3>1. CASE owner.player = 0
      BY <1>5, <1>8, <2>1, <3>1 DEF EarlierRead
    <3>2. CASE owner.player # 0
      <4>1. ~since.bumped => owner.updated = owner.collected
        BY DEF RecordsInv
      <4> QED
        BY <1>1, <1>3, <1>4, <1>5, <1>8, <2>1, <3>2, <4>1 DEF EarlierRead
    <3> QED
      BY <3>1, <3>2
  <2>2. owner'.updated \in Nat
    BY <1>3, <1>5
  <2> QED
    BY <1>4, <2>1, <2>2 DEF Moved
<1> QED
  BY <1>4, <1>7, <1>9, <1>10

LEMMA DeletionMoves ==
  ASSUME ViewTypes, RecordsInv, since.next > 0, PlayerDeletion
  PROVE  ViewTypes' /\ RecordsInv' /\ since'.next > 0 /\ Moved
<1>1. /\ owner.player # 0
      /\ owner' = [owner EXCEPT !.player = 0, !.updated = 0, !.collected = 0]
      /\ recorded' = [c \in ViewChart |-> Unrecorded]
      /\ status' = status /\ hidden' = hidden
      /\ Moves([since EXCEPT !.next = owner.player + 1])
  BY DEF PlayerDeletion
<1>2. owner \in OwnerType /\ since \in SinceType /\ CollectedAt \cup {0} \subseteq Nat
  BY SinceTyped
<1>3. /\ hidden \subseteq ViewSong /\ status \in {"none", "pending", "accepted"}
      /\ owner.player \in Nat
  BY <1>2 DEF ViewTypes, OwnerType
<1> DEFINE noted == [since EXCEPT !.next = owner.player + 1]
<1>4. /\ noted \in SinceType /\ noted.allowed = since.allowed /\ noted.next = owner.player + 1
      /\ noted.songs = since.songs /\ noted.bumped = since.bumped
  BY <1>2, <1>3 DEF SinceType
<1> HIDE DEF noted
<1>5. /\ view' = view /\ edits' \in 0 .. MaxViewSteps /\ since' \in SinceType
      /\ since'.still = FALSE
      /\ since'.next = owner.player + 1
      /\ (AllowedTo(view.by))' => since'.allowed
      /\ since.allowed => since'.allowed
  <2>1. Moves(noted)
    BY <1>1 DEF noted
  <2> QED
    BY <1>4, <2>1, MovesIs
<1>6. owner' \in OwnerType /\ owner'.player = 0 /\ owner'.updated = 0 /\ owner'.collected = 0
  <2>1. PICK a \in BOOLEAN, b \in Nat, c \in CollectedAt \cup {0}, d \in CollectedAt \cup {0} :
          owner = [private |-> a, player |-> b, updated |-> c, collected |-> d]
    BY <1>2 DEF OwnerType
  <2>2. owner' = [private |-> a, player |-> 0, updated |-> 0, collected |-> 0]
    BY <1>1, <2>1
  <2> QED
    BY <2>2 DEF OwnerType
<1>7. recorded' \in [ViewChart -> Play] /\ \A c \in ViewChart : recorded'[c] = Unrecorded
  <2>1. Unrecorded \in Play
    BY DEF Unrecorded, Play, Slots, ComboLamp
  <2> QED
    BY <1>1, <2>1
<1>8. ViewTypes'
  BY <1>1, <1>3, <1>5, <1>6, <1>7, TypesFrom
<1>9. RecordsInv'
  <2>1. Unrecorded.at = 0 /\ Unrecorded.slot = "none"
    BY DEF Unrecorded
  <2>2. \A c \in ViewChart : recorded'[c].at = 0 /\ recorded'[c].slot = "none"
    BY <1>7, <2>1
  <2> QED
    BY <1>6, <1>7, <2>2 DEF RecordsInv
<1>10. Moved
  <2>1. ASSUME NEW id \in Nat \ {0}, NEW u \in Nat, EarlierRead(id, u)
        PROVE  id < since'.next /\ owner'.player # id
    BY <1>1, <1>3, <1>5, <1>6, <2>1 DEF EarlierRead
  <2> QED
    BY <1>5, <1>6, <2>1 DEF Moved
<1> QED
  BY <1>3, <1>5, <1>8, <1>9, <1>10

LEMMA SongMovesMove ==
  ASSUME ViewTypes, RecordsInv, since.next > 0, SongMoves
  PROVE  ViewTypes' /\ RecordsInv' /\ since'.next > 0 /\ Moved
<1>1. PICK s \in ViewSong :
        /\ hidden' = IF s \in hidden THEN hidden \ {s} ELSE hidden \cup {s}
        /\ status' = status /\ recorded' = recorded
        /\ \/ owner' = owner /\ Moves([since EXCEPT !.songs = FALSE])
           \/ /\ owner.player # 0
              /\ \E t \in CollectedAt : owner' = [owner EXCEPT !.updated = t]
              /\ Moves([since EXCEPT !.songs = FALSE, !.bumped = TRUE])
  BY DEF SongMoves
<1>2. owner \in OwnerType /\ since \in SinceType /\ CollectedAt \cup {0} \subseteq Nat
  BY SinceTyped
<1>3. /\ hidden' \subseteq ViewSong /\ status' \in {"none", "pending", "accepted"}
      /\ recorded' \in [ViewChart -> Play]
  BY <1>1 DEF ViewTypes
<1>4. PICK noted \in SinceType :
        /\ Moves(noted) /\ noted.allowed = since.allowed /\ noted.next = since.next
        /\ noted.songs = FALSE
        /\ \/ owner' = owner /\ noted.bumped = since.bumped
           \/ /\ owner.player # 0 /\ noted.bumped = TRUE
              /\ \E t \in CollectedAt : owner' = [owner EXCEPT !.updated = t]
  <2> DEFINE one == [since EXCEPT !.songs = FALSE]
             two == [since EXCEPT !.songs = FALSE, !.bumped = TRUE]
  <2>5. /\ one \in SinceType /\ one.allowed = since.allowed /\ one.next = since.next
        /\ one.songs = FALSE /\ one.bumped = since.bumped
    BY <1>2 DEF SinceType
  <2>6. /\ two \in SinceType /\ two.allowed = since.allowed /\ two.next = since.next
        /\ two.songs = FALSE /\ two.bumped = TRUE
    BY <1>2 DEF SinceType
  <2> HIDE DEF one, two
  <2>7. \/ owner' = owner /\ Moves(one)
        \/ /\ owner.player # 0 /\ Moves(two)
           /\ \E t \in CollectedAt : owner' = [owner EXCEPT !.updated = t]
    BY <1>1 DEF one, two
  <2> QED
    BY <2>5, <2>6, <2>7
<1>5. /\ view' = view /\ edits' \in 0 .. MaxViewSteps /\ since' \in SinceType
      /\ since'.still = FALSE /\ since'.songs = FALSE /\ since'.bumped = noted.bumped
      /\ since'.next = since.next
      /\ (AllowedTo(view.by))' => since'.allowed
      /\ since.allowed => since'.allowed
  BY <1>4, MovesIs
<1>6. /\ owner' \in OwnerType /\ owner'.player = owner.player
      /\ owner'.collected = owner.collected
      /\ owner' = owner \/ owner.player # 0
      /\ ~noted.bumped => owner' = owner /\ ~since.bumped
  <2>1. CASE owner' = owner /\ noted.bumped = since.bumped
    BY <1>2, <2>1
  <2>2. ASSUME NEW t \in CollectedAt, owner' = [owner EXCEPT !.updated = t], owner.player # 0,
               noted.bumped = TRUE
        PROVE  /\ owner' \in OwnerType /\ owner'.player = owner.player
               /\ owner'.collected = owner.collected
    <3>1. PICK a \in BOOLEAN, b \in Nat, c \in CollectedAt \cup {0}, d \in CollectedAt \cup {0} :
            owner = [private |-> a, player |-> b, updated |-> c, collected |-> d]
      BY <1>2 DEF OwnerType
    <3>2. owner' = [private |-> a, player |-> b, updated |-> t, collected |-> d]
      BY <2>2, <3>1
    <3>3. owner.player = b /\ owner.collected = d
      BY <3>1
    <3>4. owner' \in OwnerType /\ owner'.player = b /\ owner'.collected = d
      BY <3>2 DEF OwnerType
    <3> QED
      BY <2>2, <3>3, <3>4
  <2> QED
    BY <1>4, <2>1, <2>2
<1>7. ViewTypes'
  BY <1>3, <1>5, <1>6, TypesFrom
<1>8. RecordsInv'
  BY <1>1, <1>5, <1>6 DEF RecordsInv
<1>9. Moved
  <2>1. ASSUME NEW id \in Nat \ {0}, NEW u \in Nat, EarlierRead(id, u)
        PROVE  /\ IF owner'.player = 0 THEN id < since'.next ELSE id <= owner'.player
               /\ ~since'.bumped /\ owner'.player = id => u <= owner'.updated
    BY <1>5, <1>6, <2>1 DEF EarlierRead
  <2> QED
    BY <1>5, <2>1 DEF Moved
<1> QED
  BY <1>5, <1>7, <1>8, <1>9

LEMMA AccessMoves ==
  ASSUME ViewTypes, RecordsInv, since.next > 0, PrivacyMoves \/ FriendshipMoves
  PROVE  ViewTypes' /\ RecordsInv' /\ since'.next > 0 /\ Moved
<1>1. /\ owner' = owner \/ owner' = [owner EXCEPT !.private = ~@]
      /\ status' \in {"none", "pending", "accepted"}
      /\ recorded' = recorded /\ hidden' = hidden /\ Moves(since)
  <2>1. CASE PrivacyMoves
    BY <2>1 DEF PrivacyMoves, ViewTypes
  <2>2. CASE FriendshipMoves
    BY <2>2 DEF FriendshipMoves, ViewTypes
  <2> QED
    BY <2>1, <2>2
<1>2. owner \in OwnerType /\ since \in SinceType /\ CollectedAt \cup {0} \subseteq Nat
  BY SinceTyped
<1>3. hidden' \subseteq ViewSong /\ recorded' \in [ViewChart -> Play]
  BY <1>1 DEF ViewTypes
<1>4. /\ view' = view /\ edits' \in 0 .. MaxViewSteps /\ since' \in SinceType
      /\ since'.still = FALSE /\ since'.songs = since.songs /\ since'.bumped = since.bumped
      /\ since'.next = since.next
      /\ (AllowedTo(view.by))' => since'.allowed
      /\ since.allowed => since'.allowed
  BY <1>1, <1>2, MovesIs
<1>5. /\ owner' \in OwnerType /\ owner'.player = owner.player
      /\ owner'.updated = owner.updated /\ owner'.collected = owner.collected
  <2>1. PICK a \in BOOLEAN, b \in Nat, c \in CollectedAt \cup {0}, d \in CollectedAt \cup {0} :
          owner = [private |-> a, player |-> b, updated |-> c, collected |-> d]
    BY <1>2 DEF OwnerType
  <2>2. PICK e \in BOOLEAN : owner' = [private |-> e, player |-> b, updated |-> c, collected |-> d]
    BY <1>1, <2>1
  <2>3. owner.player = b /\ owner.updated = c /\ owner.collected = d
    BY <2>1
  <2> QED
    BY <2>2, <2>3 DEF OwnerType
<1>6. ViewTypes'
  BY <1>1, <1>3, <1>4, <1>5, TypesFrom
<1>7. RecordsInv'
  BY <1>1, <1>4, <1>5 DEF RecordsInv
<1>8. Moved
  BY <1>1, <1>4, <1>5 DEF Moved, EarlierRead, Unmoved
<1> QED
  BY <1>4, <1>6, <1>7, <1>8

-----------------------------------------------------------------------------
(* The request under way *)

\* Nothing is read of a private account before the access to it is known.
AccessOf(seen) ==
  /\ "user" \in DOMAIN seen => seen["user"].private \/ since.allowed
  /\ "stamps" \in DOMAIN seen => seen["stamps"].private \/ since.allowed
  /\ "access" \in DOMAIN seen => since.allowed
AccessInv ==
  /\ view.stage = "reading" => (AllowedTo(view.by) => since.allowed) /\ AccessOf(view.seen)
  /\ ShownIsAllowed

\* The player read is an earlier one, or the one there now, and not newer.
PlayerOf(seen) ==
  /\ IdOf(seen) \in Nat
  /\ IF owner.player = 0 THEN IdOf(seen) < since.next ELSE IdOf(seen) <= owner.player
  /\ "player" \in DOMAIN seen =>
       /\ IdOf(seen) # 0 /\ seen["player"] \in Nat
       /\ EarlierRead(IdOf(seen), seen["player"])
IdInv == since.next > 0 /\ (view.stage = "reading" => PlayerOf(view.seen))

\* What was read is what would be found now, while nothing moved, or not the player.
Pieces == {"records", "songs", "worldsends", "worldsend songs", "courses", "slots",
           "candidates", "plays"}
PiecesOf(seen) ==
  /\ since.still /\ "user" \in DOMAIN seen => IdOf(seen) = owner.player
  /\ "song" \in DOMAIN seen =>
       /\ IdOf(seen) # 0
       /\ since.still => SongAsked(view.song \notin hidden)
  /\ since.still \/ ("player" \in DOMAIN seen /\ Unmoved(IdOf(seen), seen["player"])) =>
       \A x \in Pieces : x \in DOMAIN seen => seen[x] = Found(x, IdOf(seen), view.song)
SeenInv == view.stage = "reading" => PiecesOf(view.seen)

\* A page is right while nothing moved, or not the player whose page it is.
DoneInv ==
  /\ StillIsRight
  /\ Shows({"full", "rating"}) =>
       /\ view.answer.player \in Nat \ {0} /\ view.answer.updated \in Nat
       /\ EarlierRead(view.answer.player, view.answer.updated)
       /\ Unmoved(view.answer.player, view.answer.updated) => IsRight

ViewInv ==
  ViewTypes /\ RecordsInv /\ PlaceInv /\ AccessInv /\ IdInv /\ SeenInv /\ DoneInv

\* Where each read stands.
LEMMA PlacesAre ==
  ASSUME ViewTypes, PlaceInv, view.stage = "reading"
  PROVE  /\ ThisRead = "player" => DOMAIN view.seen = {"user", "access"}
         /\ ThisRead \in {"user", "stamps"} => view.reads = 0
         /\ view.kind \in {"full", "rating"} /\ view.reads > 1 =>
              ThisRead = "player" \/ "player" \in DOMAIN view.seen
         /\ view.kind \in {"song", "worldsend song"} /\ view.reads + 1 = Len(Reads(view.kind)) =>
              ThisRead = "plays" /\ "song" \in DOMAIN view.seen
         /\ view.reads + 1 = Len(Reads(view.kind)) => view.reads > 0
<1> DEFINE f == Reads(view.kind)
           n == view.reads
<1>1. view.kind \in Kinds /\ n \in Nat
  BY DEF ViewTypes
<1>2. /\ Orderly(f)
      /\ view.kind = "updated at" => Len(f) = 2 /\ f[1] = "stamps"
      /\ view.kind # "updated at" => f[1] = "user"
      /\ view.kind \in {"full", "rating", "profile", "badge"} => PlayerThird(f)
      /\ view.kind \in {"song", "worldsend song"} => PlaysLast(f)
  BY <1>1, ReadsAre
<1>3. ThisRead = f[n + 1]
  BY DEF ThisRead
<1>4. n < Len(f) /\ DOMAIN view.seen = {f[m] : m \in 1 .. n}
  BY DEF PlaceInv
<1>5. f[1] \in {"stamps", "user"} /\ f[2] = "access" /\ Len(f) \in 2 .. 8
  BY <1>2 DEF Orderly
<1>6. \/ view.kind = "updated at"
      \/ view.kind \in {"full", "rating", "profile", "badge"}
      \/ view.kind \in {"song", "worldsend song"}
  BY <1>1 DEF Kinds
<1> HIDE DEF f, n
<1>7. \A m \in 3 .. Len(f) : f[m] \notin {"user", "stamps"}
  BY <1>2 DEF Orderly, DataReads
<1>8. ThisRead \in {"user", "stamps"} => n = 0
  BY <1>1, <1>3, <1>4, <1>5, <1>7
<1>9. PlayerThird(f) => f[1] = "user"
  <2>1. PlayerThird(f) => Len(f) # 2
    BY <1>5 DEF PlayerThird
  <2>2. Len(f) # 2 => f[1] = "user"
    BY <1>2
  <2> QED
    BY <2>1, <2>2
<1>10. ASSUME ThisRead = "player" PROVE DOMAIN view.seen = {"user", "access"}
  <2>0. f[n + 1] = "player" /\ f[1] # "player" /\ f[2] # "player"
    BY <1>3, <1>5, <1>10
  <2>1. PlayerThird(f)
    <3>1. CASE view.kind = "updated at"
      <4>1. n = 0 \/ n = 1
        <5>1. Len(f) = 2
          BY <1>2, <3>1
        <5> QED
          BY <1>1, <1>4, <5>1
      <4> QED
        BY <2>0, <4>1
    <3>2. CASE view.kind \in {"song", "worldsend song"}
      <4>1. Len(f) = 4 /\ f[3] = "song" /\ f[4] = "plays"
        BY <1>2, <3>2 DEF PlaysLast
      <4>2. n = 0 \/ n = 1 \/ n = 2 \/ n = 3
        BY <1>1, <1>4, <4>1
      <4>3. f[3] # "player" /\ f[4] # "player"
        BY <4>1
      <4> QED
        BY <2>0, <4>2, <4>3
    <3> QED
      BY <1>2, <1>6, <3>1, <3>2
  <2>2. n = 2
    <3>1. \A m \in 4 .. Len(f) : f[m] # "player"
      BY <2>1 DEF PlayerThird
    <3>2. n = 0 \/ n = 1 \/ n = 2 \/ n + 1 \in 4 .. Len(f)
      BY <1>1, <1>4, <1>5
    <3> QED
      BY <2>0, <3>1, <3>2
  <2>3. 1 .. n = {1, 2}
    BY <2>2
  <2> QED
    BY <1>4, <1>5, <1>9, <2>1, <2>3
<1>11. PlayerThird(f) /\ n > 1 => ThisRead = "player" \/ "player" \in DOMAIN view.seen
  <2>1. PlayerThird(f) => f[3] = "player"
    BY DEF PlayerThird
  <2>2. n > 1 => n = 2 \/ 3 \in 1 .. n
    BY <1>1
  <2> QED
    BY <1>3, <1>4, <2>1, <2>2
<1>12. PlaysLast(f) /\ n + 1 = Len(f) => ThisRead = "plays" /\ "song" \in DOMAIN view.seen
  <2>1. PlaysLast(f) => Len(f) = 4 /\ f[3] = "song" /\ f[4] = "plays"
    BY DEF PlaysLast
  <2>2. n + 1 = 4 => 3 \in 1 .. n
    BY <1>1
  <2> QED
    BY <1>3, <1>4, <2>1, <2>2
<1>13. n + 1 = Len(f) => n > 0
  BY <1>1, <1>5
<1> QED
  BY <1>2, <1>8, <1>10, <1>11, <1>12, <1>13 DEF f, n

\* How a request may end early.
LEMMA EndsIs ==
  ASSUME NEW read, NEW seen
  PROVE  /\ Ends(read, seen) \in {"no", "private", "no player", "not found", "invalid difficulty"}
         /\ read = "access" /\ Ends(read, seen) # "private" =>
              Accessible(IF view.kind = "updated at" THEN seen["stamps"] ELSE seen["user"],
                         seen["access"])
         /\ read = "player" /\ Ends(read, seen) = "no" => seen["player"] # 0
         /\ read \notin {"access", "player", "song"} => Ends(read, seen) = "no"
<1>1. CASE read = "access"
  BY <1>1 DEF Ends
<1>2. CASE read = "player"
  BY <1>2 DEF Ends
<1>3. CASE read = "song"
  BY <1>3 DEF Ends
<1>4. CASE read \notin {"access", "player", "song"}
  BY <1>4 DEF Ends
<1> QED
  BY <1>1, <1>2, <1>3, <1>4

LEMMA SongEnds ==
  ASSUME NEW seen, Ends("song", seen) = "no", view.kind # "updated at"
  PROVE  SongAsked(seen["song"]) /\ seen["user"].player # 0
BY DEF Ends

\* Each read that does not end the request finds what it should.
LEMMA AccessGoesOn ==
  ASSUME ViewInv, view.stage = "reading", Ends(ThisRead, NowSeen) # "private"
  PROVE  AccessOf(NowSeen)
<1>1. /\ \A x \in DOMAIN view.seen : NowSeen[x] = view.seen[x]
      /\ DOMAIN NowSeen = DOMAIN view.seen \cup {ThisRead}
      /\ NowSeen[ThisRead] = Found(ThisRead, Id, view.song)
  <2>1. ThisRead \notin DOMAIN view.seen
    BY NextReadIs DEF ViewInv
  <2> QED
    BY <2>1 DEF NowSeen, Joined
<1>2. (AllowedTo(view.by) => since.allowed) /\ AccessOf(view.seen)
  BY DEF ViewInv, AccessInv
<1>3. ThisRead = "user" => NowSeen["user"].private \/ since.allowed
  <2>1. ThisRead = "user" => NowSeen["user"].private = owner.private
    <3>1. ThisRead = "user" => NowSeen["user"] = Found("user", Id, view.song)
      BY <1>1
    <3>2. Found("user", Id, view.song) = [private |-> owner.private, player |-> owner.player]
      BY FoundIs
    <3>3. ThisRead = "user" => NowSeen["user"] = [private |-> owner.private, player |-> owner.player]
      BY <3>1, <3>2
    <3> QED
      BY <3>3
  <2>2. owner.private \/ since.allowed
    BY <1>2 DEF AllowedTo
  <2> QED
    BY <2>1, <2>2
<1>4. ThisRead = "stamps" => NowSeen["stamps"].private \/ since.allowed
  <2>1. ThisRead = "stamps" => NowSeen["stamps"].private = owner.private
    <3>1. ThisRead = "stamps" => NowSeen["stamps"] = Found("stamps", Id, view.song)
      BY <1>1
    <3>2. Found("stamps", Id, view.song) = [private |-> owner.private, player |-> owner.player, at |-> Stamp]
      BY FoundIs
    <3>3. ThisRead = "stamps" => NowSeen["stamps"] = [private |-> owner.private, player |-> owner.player, at |-> Stamp]
      BY <3>1, <3>2
    <3> QED
      BY <3>3
  <2>2. owner.private \/ since.allowed
    BY <1>2 DEF AllowedTo
  <2> QED
    BY <2>1, <2>2
<1>5. ThisRead = "access" => since.allowed
  <2> SUFFICES ASSUME ThisRead = "access" PROVE since.allowed
    OBVIOUS
  <2> DEFINE user == IF view.kind = "updated at" THEN NowSeen["stamps"] ELSE NowSeen["user"]
  <2>1. Accessible(user, NowSeen["access"])
    BY EndsIs
  <2>2. view.reads > 0
    <3>1. view.reads = 0 => ThisRead \in {"stamps", "user"}
      BY NextReadIs DEF ViewInv
    <3>2. view.reads \in Nat
      BY DEF ViewInv, ViewTypes
    <3> QED
      BY <3>1, <3>2
  <2>3. (IF view.kind = "updated at" THEN "stamps" ELSE "user") \in DOMAIN view.seen
    BY <2>2, NextReadIs DEF ViewInv
  <2>4. ~user.private => since.allowed
    BY <1>1, <1>2, <2>3 DEF AccessOf
  <2>5. NowSeen["access"] = (status = "accepted")
    BY <1>1, FoundWhether
  <2> HIDE DEF user
  <2>6. ~user.private \/ view.by = "self" \/ (view.by = "friend" /\ NowSeen["access"])
    BY <2>1 DEF Accessible
  <2>7. view.by = "friend" /\ NowSeen["access"] => AllowedTo(view.by)
    BY <2>5 DEF AllowedTo
  <2>8. view.by = "self" => AllowedTo(view.by)
    BY DEF AllowedTo
  <2> QED
    BY <1>2, <2>4, <2>6, <2>7, <2>8
<1> QED
  BY <1>1, <1>2, <1>3, <1>4, <1>5 DEF AccessOf

LEMMA NowIs ==
  ASSUME ViewInv, view.stage = "reading"
  PROVE  /\ \A x \in DOMAIN view.seen : NowSeen[x] = view.seen[x]
         /\ DOMAIN NowSeen = DOMAIN view.seen \cup {ThisRead}
         /\ NowSeen[ThisRead] = Found(ThisRead, Id, view.song)
         /\ ThisRead = "user" => DOMAIN view.seen = {} /\ IdOf(NowSeen) = owner.player
         /\ ThisRead # "user" => IdOf(NowSeen) = Id
<1>1. /\ \A x \in DOMAIN view.seen : NowSeen[x] = view.seen[x]
      /\ DOMAIN NowSeen = DOMAIN view.seen \cup {ThisRead}
      /\ NowSeen[ThisRead] = Found(ThisRead, Id, view.song)
  <2>1. ThisRead \notin DOMAIN view.seen
    BY NextReadIs DEF ViewInv
  <2> QED
    BY <2>1 DEF NowSeen, Joined
<1>2. ASSUME ThisRead = "user" PROVE DOMAIN view.seen = {} /\ IdOf(NowSeen) = owner.player
  <2>1. view.reads = 0
    BY <1>2, PlacesAre DEF ViewInv
  <2>2. DOMAIN view.seen = {Reads(view.kind)[n] : n \in 1 .. view.reads}
    BY DEF ViewInv, PlaceInv
  <2>3. 1 .. view.reads = {}
    BY <2>1
  <2>4. NowSeen["user"] = Found("user", Id, view.song)
    BY <1>1, <1>2
  <2>5. Found("user", Id, view.song) = [private |-> owner.private, player |-> owner.player]
    BY FoundIs
  <2>6. NowSeen["user"].player = owner.player
    BY <2>4, <2>5
  <2>7. IdOf(NowSeen) = owner.player
    BY <1>1, <1>2, <2>6 DEF IdOf
  <2> QED
    BY <2>2, <2>3, <2>7
<1>3. ASSUME ThisRead # "user" PROVE IdOf(NowSeen) = Id
  BY <1>1, <1>3 DEF IdOf, Id
<1> QED
  BY <1>1, <1>2, <1>3

LEMMA PlayerGoesOn ==
  ASSUME ViewInv, view.stage = "reading", Ends(ThisRead, NowSeen) = "no"
  PROVE  PlayerOf(NowSeen)
<1>1. PlayerOf(view.seen) /\ since.next > 0
  BY DEF ViewInv, IdInv
<1>2. /\ owner.player \in Nat /\ owner.updated \in Nat /\ since.next \in Nat
      /\ owner.player = 0 => owner.updated = 0
  BY ProfilesAssumption DEF ViewInv, ViewTypes, RecordsInv
<1>3. CASE ThisRead = "user"
  <2>1. IdOf(NowSeen) = owner.player /\ "player" \notin DOMAIN NowSeen
    BY <1>3, NowIs
  <2> QED
    BY <1>1, <1>2, <2>1 DEF PlayerOf
<1>4. CASE ThisRead = "player"
  <2>1. IdOf(NowSeen) = Id
    BY <1>4, NowIs
  <2>2. NowSeen["player"] = PlayerRead(Id)
    BY <1>4, NowIs, FoundIs
  <2>3. NowSeen["player"] # 0
    BY <1>4, EndsIs
  <2>4. owner.player = Id /\ NowSeen["player"] = owner.updated /\ Id # 0
    BY <1>2, <2>2, <2>3 DEF PlayerRead
  <2>5. EarlierRead(Id, NowSeen["player"])
    BY <1>2, <2>4 DEF EarlierRead
  <2> QED
    BY <1>1, <1>2, <2>1, <2>4, <2>5 DEF PlayerOf, Id
<1>5. CASE ThisRead \notin {"user", "player"}
  <2>1. IdOf(NowSeen) = IdOf(view.seen)
    BY <1>5, NowIs DEF Id
  <2>2. "player" \in DOMAIN NowSeen => "player" \in DOMAIN view.seen /\ NowSeen["player"] = view.seen["player"]
    BY <1>5, NowIs
  <2> QED
    BY <1>1, <2>1, <2>2 DEF PlayerOf
<1> QED
  BY <1>3, <1>4, <1>5

LEMMA PiecesGoOn ==
  ASSUME ViewInv, view.stage = "reading", Ends(ThisRead, NowSeen) = "no"
  PROVE  PiecesOf(NowSeen)
<1>1. PiecesOf(view.seen)
  BY DEF ViewInv, SeenInv
<1>2. CASE ThisRead = "user"
  <2>1. IdOf(NowSeen) = owner.player /\ DOMAIN NowSeen = {"user"}
    BY <1>2, NowIs
  <2>2. \A x \in Pieces : x \notin DOMAIN NowSeen
    BY <2>1 DEF Pieces
  <2> QED
    BY <2>1, <2>2 DEF PiecesOf
<1>3. CASE ThisRead # "user"
  <2>1. IdOf(NowSeen) = IdOf(view.seen)
    BY <1>3, NowIs DEF Id
  <2>2. since.still /\ "user" \in DOMAIN NowSeen => IdOf(NowSeen) = owner.player
    BY <1>1, <1>3, <2>1, NowIs DEF PiecesOf
  <2>3. "song" \in DOMAIN NowSeen =>
          /\ IdOf(NowSeen) # 0
          /\ since.still => SongAsked(view.song \notin hidden)
    <3>1. CASE ThisRead # "song"
      BY <1>1, <2>1, <3>1, NowIs DEF PiecesOf
    <3>2. CASE ThisRead = "song"
      <4>1. view.kind # "updated at" /\ "user" \in DOMAIN view.seen
        <5>1. view.reads > 1
          <6>1. view.reads = 0 => ThisRead \in {"stamps", "user"}
            BY NextReadIs DEF ViewInv
          <6>2. view.reads = 1 => ThisRead = "access"
            BY NextReadIs DEF ViewInv
          <6>3. view.reads \in Nat
            BY DEF ViewInv, ViewTypes
          <6> QED
            BY <3>2, <6>1, <6>2, <6>3
        <5>2. view.reads > 0
          <6>1. view.reads \in Nat
            BY DEF ViewInv, ViewTypes
          <6> QED
            BY <5>1, <6>1
        <5>3. view.kind # "updated at"
          BY <5>1, NextReadIs DEF ViewInv
        <5> QED
          BY <5>2, <5>3, NextReadIs DEF ViewInv
      <4>2. SongAsked(NowSeen["song"]) /\ NowSeen["user"].player # 0
        BY <3>2, <4>1, SongEnds
      <4>3. NowSeen["song"] = (view.song \notin hidden)
        BY <3>2, NowIs, FoundWhether
      <4>4. IdOf(NowSeen) = NowSeen["user"].player
        BY <4>1, NowIs DEF IdOf
      <4> QED
        BY <4>2, <4>3, <4>4
    <3> QED
      BY <3>1, <3>2
  <2>4. ASSUME since.still \/ ("player" \in DOMAIN NowSeen /\ Unmoved(IdOf(NowSeen), NowSeen["player"])),
               NEW x \in Pieces, x \in DOMAIN NowSeen
        PROVE  NowSeen[x] = Found(x, IdOf(NowSeen), view.song)
    <3>1. CASE x = ThisRead
      BY <2>1, <3>1, NowIs DEF Id
    <3>2. CASE x # ThisRead
      <4>1. x \in DOMAIN view.seen /\ NowSeen[x] = view.seen[x]
        BY <2>4, <3>2, NowIs
      <4>2. ThisRead # "player"
        <5>1. x \notin {"user", "access"}
          BY DEF Pieces
        <5> QED
          BY <4>1, <5>1, PlacesAre DEF ViewInv
      <4>3. since.still \/ ("player" \in DOMAIN view.seen /\ Unmoved(IdOf(view.seen), view.seen["player"]))
        BY <2>1, <2>4, <4>2, NowIs
      <4>4. view.seen[x] = Found(x, IdOf(view.seen), view.song)
        BY <1>1, <4>1, <4>3 DEF PiecesOf
      <4> QED
        BY <2>1, <4>1, <4>4
    <3> QED
      BY <3>1, <3>2
  <2> QED
    BY <2>2, <2>3, <2>4 DEF PiecesOf
<1> QED
  BY <1>2, <1>3

LEMMA NeedsPieces ==
  ASSUME NEW kind \in Pages
  PROVE  Needs(kind) \subseteq Pieces
<1>1. CASE kind = "full"
  BY <1>1 DEF Needs, Pieces
<1>2. CASE kind = "rating"
  BY <1>2 DEF Needs, Pieces
<1>3. CASE kind = "song"
  BY <1>3 DEF Needs, Pieces
<1>4. CASE kind = "worldsend song"
  BY <1>4 DEF Needs, Pieces
<1> QED
  BY <1>1, <1>2, <1>3, <1>4 DEF Pages

\* The last read makes a right page of the reads before, if they are as if made now.
LEMMA LastReadIs ==
  ASSUME ViewInv, view.stage = "reading", Ends(ThisRead, NowSeen) = "no",
         view.reads + 1 = Len(Reads(view.kind)), view.kind \in Pages
  PROVE  /\ IdOf(NowSeen) # 0 /\ NowSeen["user"].player = IdOf(NowSeen)
         /\ view.kind \in {"full", "rating"} => "player" \in DOMAIN NowSeen
         /\ \/ since.still
            \/ view.kind \in {"full", "rating"} /\ Unmoved(IdOf(NowSeen), NowSeen["player"])
            => RowsAreRight(RowsFor(view.kind, NowSeen))
<1>1. PlayerOf(NowSeen) /\ PiecesOf(NowSeen)
  BY PlayerGoesOn, PiecesGoOn
<1>2. view.reads > 0 /\ view.kind # "updated at" /\ view.kind \in Kinds
  BY PlacesAre DEF ViewInv, Pages, Kinds
<1>3. "user" \in DOMAIN NowSeen
  <2>1. "user" \in DOMAIN view.seen
    BY <1>2, NextReadIs DEF ViewInv
  <2> QED
    BY <2>1, NowIs
<1>4. DOMAIN NowSeen = Reading(view.kind)
  <2>1. DOMAIN NowSeen = {Reads(view.kind)[n] : n \in 1 .. view.reads + 1}
    BY NextReadIs DEF ViewInv
  <2> QED
    BY <2>1 DEF Reading
<1>5. Needs(view.kind) \subseteq DOMAIN NowSeen /\ Needs(view.kind) \subseteq Pieces
  BY <1>4, NeedsAre, NeedsPieces
<1>6. view.kind \in {"full", "rating"} => "player" \in DOMAIN NowSeen
  <2> SUFFICES ASSUME view.kind \in {"full", "rating"} PROVE "player" \in DOMAIN NowSeen
    OBVIOUS
  <2>1. PlayerThird(Reads(view.kind))
    BY <1>2, ReadsAre
  <2>2. 3 \in 1 .. Len(Reads(view.kind)) /\ Reads(view.kind)[3] = "player"
    <3>1. Len(Reads(view.kind)) \in Nat
      <4>1. Orderly(Reads(view.kind))
        BY <1>2, ReadsAre
      <4>2. Len(Reads(view.kind)) \in 2 .. 8
        BY <4>1 DEF Orderly
      <4> QED
        BY <4>2
    <3> QED
      BY <2>1, <3>1 DEF PlayerThird
  <2> QED
    BY <1>4, <2>2 DEF Reading
<1>7. view.kind \in {"song", "worldsend song"} => "song" \in DOMAIN NowSeen
  <2>1. view.kind \in {"song", "worldsend song"} => "song" \in DOMAIN view.seen
    BY PlacesAre DEF ViewInv
  <2> QED
    BY <2>1, NowIs
<1>8. IdOf(NowSeen) # 0
  BY <1>1, <1>6, <1>7 DEF PlayerOf, PiecesOf, Pages
<1>9. NowSeen["user"].player = IdOf(NowSeen)
  BY <1>3 DEF IdOf
<1>10. ASSUME \/ since.still
              \/ view.kind \in {"full", "rating"} /\ Unmoved(IdOf(NowSeen), NowSeen["player"])
       PROVE  RowsAreRight(RowsFor(view.kind, NowSeen))
  <2>1. IdOf(NowSeen) = owner.player
    BY <1>1, <1>3, <1>10 DEF PiecesOf, Unmoved
  <2>2. since.still \/ ("player" \in DOMAIN NowSeen /\ Unmoved(IdOf(NowSeen), NowSeen["player"]))
    BY <1>6, <1>10
  <2>3. \A x \in Needs(view.kind) : NowSeen[x] = Found(x, owner.player, view.song)
    <3>1. \A x \in Pieces : x \in DOMAIN NowSeen => NowSeen[x] = Found(x, IdOf(NowSeen), view.song)
      BY <1>1, <2>2 DEF PiecesOf
    <3> QED
      BY <1>5, <2>1, <3>1
  <2>4. view.kind \in {"song", "worldsend song"} => SongAsked(view.song \notin hidden)
    <3>1. view.kind \in {"song", "worldsend song"} => since.still
      BY <1>10
    <3> QED
      BY <1>1, <1>7, <3>1 DEF PiecesOf
  <2>5. ViewTypes /\ RecordsInv /\ owner.player # 0 /\ view.song \in ViewSong
    BY <1>8, <2>1 DEF ViewInv, ViewTypes
  <2> QED
    BY <2>3, <2>4, <2>5, PageIsRight
<1> QED
  BY <1>6, <1>8, <1>9, <1>10

LEMMA AnswerIs ==
  ASSUME NEW kind, NEW seen
  PROVE  /\ Answer(kind, seen).outcome = "shown"
         /\ Answer(kind, seen).rows = RowsFor(kind, seen)
         /\ kind \in {"full", "rating"} => Answer(kind, seen).updated = seen["player"]
BY DEF Answer

LEMMA AnswerPlayer ==
  \A kind, seen : kind # "updated at" => Answer(kind, seen).player = seen["user"].player
BY DEF Answer

\* What depends on less than the whole state.
LEMMA FoundStays ==
  ASSUME owner'.player = owner.player, owner'.updated = owner.updated,
         UNCHANGED <<recorded, hidden>>
  PROVE  \A id, song : \A x \in Pieces : Found(x, id, song)' = Found(x, id, song)
<1> SUFFICES ASSUME NEW CONSTANT id, NEW CONSTANT song, NEW CONSTANT x \in Pieces
             PROVE Found(x, id, song)' = Found(x, id, song)
  OBVIOUS
<1>1. \A group : Shown(group)' = Shown(group)
  BY DEF Shown
<1>2. \A charts : RowsOn(id, charts)' = RowsOn(id, charts)
  BY DEF RowsOn
<1>3. CASE x \in {"records", "candidates"}
  BY <1>1, <1>3 DEF Found, RowsOn, Shown
<1>4. CASE x \in {"songs", "worldsend songs"}
  BY <1>1, <1>4 DEF Found, Shown
<1>5. CASE x = "worldsends"
  BY <1>5 DEF Found, WorldsendRows, RowsOn, Shown
<1>6. CASE x = "courses"
  BY <1>6 DEF Found, CourseResults, Complete, Joined, Unrecorded, RowsOn, Shown
<1>7. CASE x = "slots"
  BY <1>7 DEF Found, SlotRows, RowsOn, Shown
<1>8. CASE x = "plays"
  BY <1>8 DEF Found, SongRows, RowsOn, ChartsOf
<1> QED
  BY <1>3, <1>4, <1>5, <1>6, <1>7, <1>8 DEF Pieces

LEMMA PageStays ==
  ASSUME UNCHANGED <<recorded, hidden, view>>
  PROVE  IsRight' <=> IsRight
BY DEF IsRight, RightCharts, RightRow, ChartsOf, OverpowerOf, MaxTime

LEMMA PageIs ==
  ASSUME UNCHANGED <<recorded, hidden>>, view'.kind = view.kind, view'.song = view.song,
         view'.difficulty = view.difficulty
  PROVE  IsRight' <=> RowsAreRight(view'.answer.rows)
BY DEF IsRight, RowsAreRight, RightCharts, RightRow, ChartsOf, OverpowerOf, MaxTime

\* What is answered, was allowed.
LEMMA EndsAllowed ==
  ASSUME ViewInv, view.stage = "reading", Ends(ThisRead, NowSeen) # "private",
         Ends(ThisRead, NowSeen) # "no" \/ view.reads > 0
  PROVE  since.allowed
<1>1. AccessOf(NowSeen)
  BY AccessGoesOn
<1>2. view.reads > 0
  <2>1. Ends(ThisRead, NowSeen) # "no" => ThisRead \in {"access", "player", "song"}
    BY EndsIs
  <2>2. view.reads = 0 => ThisRead \in {"user", "stamps"}
    BY NextReadIs DEF ViewInv
  <2>3. view.reads \in Nat
    BY DEF ViewInv, ViewTypes
  <2> QED
    BY <2>1, <2>2, <2>3
<1>3. "access" \in DOMAIN NowSeen
  <2>1. view.reads = 1 => ThisRead = "access"
    BY NextReadIs DEF ViewInv
  <2>2. view.reads > 1 => "access" \in DOMAIN view.seen
    BY NextReadIs DEF ViewInv
  <2>3. view.reads \in Nat
    BY DEF ViewInv, ViewTypes
  <2> QED
    BY <1>2, <2>1, <2>2, <2>3, NowIs
<1> QED
  BY <1>1, <1>3 DEF AccessOf

LEMMA EarlyEnd ==
  ASSUME ViewInv, ReadsNext, Ends(ThisRead, NowSeen) # "no"
  PROVE  ViewInv'
<1>1. /\ view.stage = "reading" /\ view'.stage = "done"
      /\ UNCHANGED <<owner, status, recorded, hidden, since, edits>>
      /\ view'.answer = [NoAnswer EXCEPT !.outcome = Ends(ThisRead, NowSeen)]
      /\ ViewTypes'
  BY ReadsNextIs DEF ViewInv
<1>2. view'.answer.outcome = Ends(ThisRead, NowSeen)
  BY <1>1 DEF NoAnswer
<1>3. view'.answer.outcome # "shown"
  BY <1>2, EndsIs
<1>4. view'.answer.outcome # "private" => since'.allowed
  BY <1>1, <1>2, EndsAllowed
<1>5. RecordsInv' /\ IdInv' /\ PlaceInv' /\ SeenInv'
  BY <1>1 DEF ViewInv, RecordsInv, IdInv, PlaceInv, SeenInv
<1>6. AccessInv'
  BY <1>1, <1>4 DEF AccessInv, ShownIsAllowed
<1>7. DoneInv'
  BY <1>3 DEF DoneInv, StillIsRight, Shows
<1> QED
  BY <1>1, <1>5, <1>6, <1>7 DEF ViewInv

LEMMA LastRead ==
  ASSUME ViewInv, ReadsNext, Ends(ThisRead, NowSeen) = "no",
         view.reads + 1 = Len(Reads(view.kind))
  PROVE  ViewInv'
<1>1. /\ view.stage = "reading" /\ view'.stage = "done"
      /\ UNCHANGED <<owner, status, recorded, hidden, since, edits>>
      /\ view'.kind = view.kind /\ view'.song = view.song /\ view'.difficulty = view.difficulty
      /\ view'.answer = Answer(view.kind, NowSeen)
      /\ ViewTypes'
  BY ReadsNextIs DEF ViewInv
<1>2. view.reads > 0
  BY <1>1, PlacesAre DEF ViewInv
<1>3. since'.allowed
  BY <1>1, <1>2, EndsAllowed
<1>4. RecordsInv' /\ IdInv' /\ PlaceInv' /\ SeenInv'
  BY <1>1 DEF ViewInv, RecordsInv, IdInv, PlaceInv, SeenInv
<1>5. AccessInv'
  BY <1>1, <1>3 DEF AccessInv, ShownIsAllowed
<1>6. view'.answer.rows = RowsFor(view.kind, NowSeen)
  BY <1>1, AnswerIs
<1>7. StillIsRight'
  <2> SUFFICES ASSUME view.kind \in Pages, since.still PROVE IsRight'
    BY <1>1 DEF StillIsRight, Shows, Pages
  <2>1. RowsAreRight(RowsFor(view.kind, NowSeen))
    BY <1>1, LastReadIs
  <2> QED
    BY <1>1, <1>6, <2>1, PageIs
<1>8. ASSUME view.kind \in {"full", "rating"}
      PROVE  /\ view'.answer.player \in Nat \ {0} /\ view'.answer.updated \in Nat
             /\ EarlierRead(view.answer.player, view.answer.updated)'
             /\ Unmoved(view.answer.player, view.answer.updated)' => IsRight'
  <2>1. view.kind \in Pages /\ view.kind # "updated at"
    BY <1>8 DEF Pages
  <2>2. view'.answer.player = IdOf(NowSeen) /\ IdOf(NowSeen) # 0
    <3>1. NowSeen["user"].player = IdOf(NowSeen) /\ IdOf(NowSeen) # 0
      BY <1>1, <2>1, LastReadIs
    <3>2. Answer(view.kind, NowSeen).player = NowSeen["user"].player
      <4>1. view.kind # "updated at"
        BY <2>1
      <4>2. \A kind, seen : kind # "updated at" => Answer(kind, seen).player = seen["user"].player
        BY AnswerPlayer
      <4> QED
        BY <4>1, <4>2
    <3> QED
      BY <1>1, <3>1, <3>2
  <2>3. view'.answer.updated = NowSeen["player"] /\ "player" \in DOMAIN NowSeen
    <3>1. "player" \in DOMAIN NowSeen
      BY <1>1, <1>8, <2>1, LastReadIs
    <3>2. Answer(view.kind, NowSeen).updated = NowSeen["player"]
      BY <1>8, AnswerIs
    <3> QED
      BY <1>1, <3>1, <3>2
  <2>4. PlayerOf(NowSeen)
    BY <1>1, PlayerGoesOn
  <2>5. /\ IdOf(NowSeen) \in Nat \ {0} /\ NowSeen["player"] \in Nat
        /\ EarlierRead(IdOf(NowSeen), NowSeen["player"])
    BY <2>2, <2>3, <2>4 DEF PlayerOf
  <2>6. EarlierRead(view.answer.player, view.answer.updated)'
    BY <1>1, <2>2, <2>3, <2>5 DEF EarlierRead
  <2>7. ASSUME Unmoved(view.answer.player, view.answer.updated)' PROVE IsRight'
    <3>1. Unmoved(IdOf(NowSeen), NowSeen["player"])
      BY <1>1, <2>2, <2>3, <2>7 DEF Unmoved
    <3>2. RowsAreRight(RowsFor(view.kind, NowSeen))
      BY <1>1, <1>8, <2>1, <3>1, LastReadIs
    <3> QED
      BY <1>1, <1>6, <3>2, PageIs
  <2> QED
    BY <2>2, <2>3, <2>5, <2>6, <2>7
<1>9. DoneInv'
  BY <1>1, <1>7, <1>8 DEF DoneInv, Shows
<1> QED
  BY <1>1, <1>4, <1>5, <1>9 DEF ViewInv

LEMMA OneMoreRead ==
  ASSUME ViewInv, ReadsNext, Ends(ThisRead, NowSeen) = "no",
         view.reads + 1 # Len(Reads(view.kind))
  PROVE  ViewInv'
<1>1. /\ view.stage = "reading" /\ view'.stage = "reading"
      /\ UNCHANGED <<owner, status, recorded, hidden, since, edits>>
      /\ view'.kind = view.kind /\ view'.by = view.by /\ view'.song = view.song
      /\ view'.reads = view.reads + 1 /\ view'.seen = NowSeen
      /\ ViewTypes'
  BY ReadsNextIs DEF ViewInv
<1>2. AccessOf(NowSeen) /\ PlayerOf(NowSeen) /\ PiecesOf(NowSeen)
  BY <1>1, AccessGoesOn, PlayerGoesOn, PiecesGoOn
<1>3. RecordsInv'
  BY <1>1 DEF ViewInv, RecordsInv
<1>4. PlaceInv'
  <2>1. /\ view.reads \in Nat /\ Orderly(Reads(view.kind))
        /\ DOMAIN NowSeen = {Reads(view.kind)[n] : n \in 1 .. view.reads + 1}
    BY <1>1, NextReadIs DEF ViewInv
  <2>2. view.reads + 1 < Len(Reads(view.kind))
    <3>1. Len(Reads(view.kind)) \in Nat
      BY <2>1 DEF Orderly
    <3>2. view.reads < Len(Reads(view.kind))
      BY <1>1 DEF ViewInv, PlaceInv
    <3> QED
      BY <2>1, <3>1, <3>2
  <2>3. Reads(view.kind)' = Reads(view.kind)
    BY <1>1 DEF Reads
  <2> QED
    BY <1>1, <2>1, <2>2, <2>3 DEF PlaceInv
<1>5. AccessInv'
  <2>1. AllowedTo(view.by)' => since'.allowed
    BY <1>1 DEF ViewInv, AccessInv, AllowedTo
  <2> QED
    BY <1>1, <1>2, <2>1 DEF AccessInv, AccessOf, ShownIsAllowed
<1>6. IdInv'
  BY <1>1, <1>2 DEF ViewInv, IdInv, PlayerOf, IdOf, EarlierRead
<1>7. SeenInv'
  <2>1. IdOf(view.seen)' = IdOf(NowSeen)
    BY <1>1 DEF IdOf
  <2>2. since.still /\ "user" \in DOMAIN view'.seen => IdOf(view.seen)' = owner'.player
    BY <1>1, <1>2, <2>1 DEF PiecesOf
  <2>3. "song" \in DOMAIN view'.seen =>
          /\ IdOf(view.seen)' # 0
          /\ since.still => SongAsked(view.song \notin hidden)'
    <3>1. SongAsked(view.song \notin hidden)' <=> SongAsked(view.song \notin hidden)
      BY <1>1 DEF SongAsked, ChartsOf, GroupAsked
    <3> QED
      BY <1>1, <1>2, <2>1, <3>1 DEF PiecesOf
  <2>4. ASSUME since.still \/ ("player" \in DOMAIN view'.seen
                                /\ Unmoved(IdOf(view.seen), view.seen["player"])'),
               NEW x \in Pieces, x \in DOMAIN view'.seen
        PROVE  view'.seen[x] = Found(x, IdOf(view.seen), view.song)'
    <3>1. since.still \/ ("player" \in DOMAIN NowSeen /\ Unmoved(IdOf(NowSeen), NowSeen["player"]))
      BY <1>1, <2>1, <2>4 DEF Unmoved
    <3>2. NowSeen[x] = Found(x, IdOf(NowSeen), view.song)
      BY <1>1, <1>2, <2>4, <3>1 DEF PiecesOf
    <3>3. Found(x, IdOf(view.seen), view.song)' = Found(x, IdOf(NowSeen), view.song)
      <4>1. owner'.player = owner.player /\ owner'.updated = owner.updated
        BY <1>1
      <4> QED
        BY <1>1, <2>1, <4>1, FoundStays
    <3> QED
      BY <1>1, <3>2, <3>3
  <2> QED
    BY <1>1, <2>2, <2>3, <2>4 DEF SeenInv, PiecesOf
<1>8. DoneInv'
  BY <1>1 DEF DoneInv, StillIsRight, Shows
<1> QED
  BY <1>1, <1>3, <1>4, <1>5, <1>6, <1>7, <1>8 DEF ViewInv

\* A request comes.
LEMMA AsksStep ==
  ASSUME ViewInv, Asks
  PROVE  ViewInv'
<1>1. PICK kind \in Kinds, by \in Requester, song \in ViewSong, difficulty \in {0} \cup Difficulty :
        /\ view' = [stage |-> "reading", kind |-> kind, by |-> by, song |-> song,
                    difficulty |-> difficulty, reads |-> 0, seen |-> <<>>, answer |-> NoAnswer]
        /\ since' = [since EXCEPT !.still = TRUE, !.songs = TRUE, !.allowed = AllowedTo(by)]
  BY DEF Asks, Kinds
<1>2. UNCHANGED <<owner, status, recorded, hidden, edits>>
  BY DEF Asks
<1>3. since' \in SinceType /\ since'.next = since.next /\ since'.bumped = since.bumped
        /\ (AllowedTo(by) => since'.allowed)
  <2> DEFINE b == AllowedTo(by)
  <2>1. b \in BOOLEAN
    BY DEF AllowedTo
  <2>2. since \in SinceType
    BY SinceTyped DEF ViewInv
  <2>3. since' = [since EXCEPT !.still = TRUE, !.songs = TRUE, !.allowed = b]
    BY <1>1
  <2> HIDE DEF b
  <2>4. since' \in SinceType /\ since'.next = since.next /\ since'.bumped = since.bumped
          /\ since'.allowed = b
    BY <2>1, <2>2, <2>3 DEF SinceType
  <2> QED
    BY <2>4 DEF b
<1>4. /\ view'.stage = "reading" /\ view'.kind = kind /\ view'.by = by /\ view'.reads = 0
      /\ view'.seen = <<>>
  BY <1>1
<1>5. DOMAIN view'.seen = {}
  BY <1>4
<1>6. ViewTypes'
  <2>1. view' \in [stage : {"idle", "reading", "done"}, kind : Kinds \cup {"none"}, by : Requester,
                   song : ViewSong \cup {"none"}, difficulty : Difficulty \cup {0}, reads : Nat,
                   seen : {view'.seen}, answer : {view'.answer}]
    BY <1>1
  <2>2. view'.kind \in Kinds /\ view'.song \in ViewSong
    BY <1>1
  <2> QED
    BY <1>2, <1>3, <2>1, <2>2 DEF ViewInv, ViewTypes, SinceType
<1>7. RecordsInv'
  BY <1>2, <1>3 DEF ViewInv, RecordsInv
<1>8. PlaceInv'
  <2>1. Orderly(Reads(kind))
    BY ReadsAre
  <2>2. 0 < Len(Reads(kind))
    BY <2>1 DEF Orderly
  <2>3. Reads(view.kind)' = Reads(kind)
    BY <1>4 DEF Reads
  <2>4. 1 .. 0 = {}
    OBVIOUS
  <2> QED
    BY <1>4, <1>5, <2>2, <2>3, <2>4 DEF PlaceInv
<1>9. AccessInv'
  <2>1. AllowedTo(view.by)' <=> AllowedTo(by)
    BY <1>2, <1>4 DEF AllowedTo
  <2> QED
    BY <1>3, <1>4, <1>5, <2>1 DEF AccessInv, AccessOf, ShownIsAllowed
<1>10. IdInv'
  <2>1. IdOf(view.seen)' = 0
    BY <1>5 DEF IdOf
  <2>2. owner.player \in Nat
    BY DEF ViewInv, ViewTypes
  <2> QED
    BY <1>2, <1>3, <1>5, <2>1, <2>2 DEF ViewInv, IdInv, PlayerOf
<1>11. SeenInv'
  BY <1>5 DEF SeenInv, PiecesOf
<1>12. DoneInv'
  BY <1>4 DEF DoneInv, StillIsRight, Shows
<1> QED
  BY <1>6, <1>7, <1>8, <1>9, <1>10, <1>11, <1>12 DEF ViewInv

\* Something else changes.
LEMMA MovedStep ==
  ASSUME ViewInv, Moved, ViewTypes', RecordsInv', since'.next > 0
  PROVE  ViewInv'
<1>1. view' = view /\ since'.still = FALSE
  BY DEF Moved
<1>2. ASSUME NEW id \in Nat \ {0}, NEW u \in Nat, EarlierRead(id, u)
      PROVE  /\ IF owner'.player = 0 THEN id < since'.next ELSE id <= owner'.player
             /\ ~since'.bumped /\ owner'.player = id => u <= owner'.updated
             /\ since'.songs /\ ~since'.bumped /\ owner'.player = id /\ u = owner'.updated =>
                  /\ Unmoved(id, u) /\ recorded' = recorded /\ hidden' = hidden
                  /\ owner'.updated = owner.updated
  BY <1>2 DEF Moved
<1>3. PlaceInv'
  <2>1. Reads(view.kind)' = Reads(view.kind)
    BY <1>1 DEF Reads
  <2> QED
    BY <1>1, <2>1 DEF ViewInv, PlaceInv
<1>4. AccessInv'
  <2>1. AllowedTo(view.by)' => since'.allowed
    BY DEF Moved
  <2>2. since.allowed => since'.allowed
    BY DEF Moved
  <2> QED
    BY <1>1, <2>1, <2>2 DEF ViewInv, AccessInv, AccessOf, ShownIsAllowed
<1>5. IdOf(view.seen)' = Id
  BY <1>1 DEF IdOf, Id
<1>6. owner.player \in Nat /\ owner.updated \in Nat /\ owner'.player \in Nat
  BY ProfilesAssumption DEF ViewInv, ViewTypes
<1>7. IdInv'
  <2> SUFFICES ASSUME view.stage = "reading" PROVE PlayerOf(view.seen)'
    BY <1>1 DEF IdInv
  <2>1. PlayerOf(view.seen)
    BY DEF ViewInv, IdInv
  <2>2. Id \in Nat
    BY <2>1 DEF PlayerOf, Id
  <2>3. IF owner'.player = 0 THEN Id < since'.next ELSE Id <= owner'.player
    <3>1. CASE Id = 0
      BY <1>6, <3>1
    <3>2. CASE Id # 0
      <4>1. EarlierRead(Id, 0)
        BY <1>6, <2>1 DEF PlayerOf, EarlierRead, Id
      <4> QED
        BY <1>2, <2>2, <3>2, <4>1
    <3> QED
      BY <3>1, <3>2
  <2>4. ASSUME "player" \in DOMAIN view.seen
        PROVE  /\ Id # 0 /\ view.seen["player"] \in Nat
               /\ IF owner'.player = 0 THEN Id < since'.next ELSE Id <= owner'.player
               /\ ~since'.bumped /\ owner'.player = Id => view.seen["player"] <= owner'.updated
    <3>1. Id # 0 /\ view.seen["player"] \in Nat /\ EarlierRead(Id, view.seen["player"])
      BY <2>1, <2>4 DEF PlayerOf, Id
    <3> QED
      BY <1>2, <2>2, <3>1
  <2> QED
    BY <1>1, <1>5, <2>2, <2>3, <2>4 DEF PlayerOf, EarlierRead
<1>8. SeenInv'
  <2> SUFFICES ASSUME view.stage = "reading" PROVE PiecesOf(view.seen)'
    BY <1>1 DEF SeenInv
  <2>1. PiecesOf(view.seen) /\ PlayerOf(view.seen)
    BY DEF ViewInv, SeenInv, IdInv
  <2>2. "song" \in DOMAIN view.seen => Id # 0
    BY <2>1 DEF PiecesOf, Id
  <2>3. ASSUME "player" \in DOMAIN view.seen,
               Unmoved(IdOf(view.seen), view.seen["player"])',
               NEW x \in Pieces, x \in DOMAIN view.seen
        PROVE  view.seen[x] = Found(x, IdOf(view.seen), view.song)'
    <3>1. /\ Id \in Nat \ {0} /\ view.seen["player"] \in Nat
          /\ EarlierRead(Id, view.seen["player"])
      BY <2>1, <2>3 DEF PlayerOf, Id
    <3>2. /\ since'.songs /\ ~since'.bumped /\ owner'.player = Id
          /\ view.seen["player"] = owner'.updated
      BY <1>1, <1>5, <2>3 DEF Unmoved
    <3>3. /\ Unmoved(Id, view.seen["player"]) /\ recorded' = recorded /\ hidden' = hidden
          /\ owner'.updated = owner.updated
      BY <1>2, <3>1, <3>2
    <3>4. owner'.player = owner.player
      BY <3>2, <3>3 DEF Unmoved
    <3>5. view.seen[x] = Found(x, Id, view.song)
      BY <2>1, <2>3, <3>3 DEF PiecesOf, Id
    <3>6. Found(x, IdOf(view.seen), view.song)' = Found(x, Id, view.song)
      BY <1>1, <1>5, <3>3, <3>4, FoundStays
    <3> QED
      BY <3>5, <3>6
  <2> QED
    BY <1>1, <1>5, <2>2, <2>3 DEF PiecesOf
<1>9. DoneInv'
  <2>1. StillIsRight'
    BY <1>1 DEF StillIsRight
  <2>2. ASSUME Shows({"full", "rating"})
        PROVE  /\ view.answer.player \in Nat \ {0} /\ view.answer.updated \in Nat
               /\ EarlierRead(view.answer.player, view.answer.updated)'
               /\ Unmoved(view.answer.player, view.answer.updated)' => IsRight'
    <3>1. /\ view.answer.player \in Nat \ {0} /\ view.answer.updated \in Nat
          /\ EarlierRead(view.answer.player, view.answer.updated)
          /\ Unmoved(view.answer.player, view.answer.updated) => IsRight
      BY <2>2 DEF ViewInv, DoneInv
    <3>2. EarlierRead(view.answer.player, view.answer.updated)'
      BY <1>1, <1>2, <3>1 DEF EarlierRead
    <3>3. ASSUME Unmoved(view.answer.player, view.answer.updated)' PROVE IsRight'
      <4>1. /\ since'.songs /\ ~since'.bumped /\ owner'.player = view.answer.player
            /\ view.answer.updated = owner'.updated
        BY <1>1, <3>3 DEF Unmoved
      <4>2. /\ Unmoved(view.answer.player, view.answer.updated)
            /\ recorded' = recorded /\ hidden' = hidden
        BY <1>2, <3>1, <4>1
      <4> QED
        BY <1>1, <3>1, <4>2, PageStays
    <3> QED
      BY <3>1, <3>2, <3>3
  <2>3. Shows({"full", "rating"})' <=> Shows({"full", "rating"})
    BY <1>1 DEF Shows
  <2> QED
    BY <1>1, <2>1, <2>2, <2>3 DEF DoneInv
<1> QED
  BY <1>3, <1>4, <1>7, <1>8, <1>9 DEF ViewInv

-----------------------------------------------------------------------------
\* At first nobody has asked.
LEMMA InitView ==
  ASSUME ProfilesInit
  PROVE  ViewInv
<1>1. PICK body \in Registered \cup {<<>>}, private \in BOOLEAN, first \in CollectedAt :
        LET player == IF body = <<>> THEN 0 ELSE 1
            at == IF body = <<>> THEN 0 ELSE first
        IN /\ owner = [private |-> private, player |-> player, updated |-> at, collected |-> at]
           /\ recorded = WithBody([c \in ViewChart |-> Unrecorded], body, at)
           /\ since = [still |-> TRUE, songs |-> TRUE, allowed |-> FALSE, bumped |-> FALSE,
                       next |-> player + 1]
  <2> DEFINE min == CHOOSE t \in CollectedAt : \A u \in CollectedAt : t <= u
  <2>1. min \in CollectedAt
    <3>1. \E t \in CollectedAt : \A u \in CollectedAt : t <= u
      <4>1. CollectedAt \in SUBSET Nat /\ CollectedAt # {}
        BY ProfilesAssumption
      <4>2. IsWellFoundedOn(OpToRel(<, Nat), Nat)
        BY NatLessThanWellFounded
      <4>3. PICK t \in CollectedAt : \A u \in CollectedAt : <<u, t>> \notin OpToRel(<, Nat)
        BY <4>1, <4>2, WFMin
      <4>4. CollectedAt \subseteq Nat
        BY <4>1
      <4>5. \A u \in CollectedAt : ~(u < t)
        BY <4>3, <4>4 DEF OpToRel
      <4> QED
        BY <4>4, <4>5
    <3> QED
      BY <3>1
  <2> HIDE DEF min
  <2>2. ProfilesInit!1
    BY DEF ProfilesInit
  <2> QED
    BY <2>1, <2>2 DEF min
<1> DEFINE player == IF body = <<>> THEN 0 ELSE 1
           at == IF body = <<>> THEN 0 ELSE first
           none == [c \in ViewChart |-> Unrecorded]
<1>2. /\ status = "accepted" /\ hidden = {} /\ edits = 0
      /\ view = [stage |-> "idle", kind |-> "none", by |-> "self", song |-> "none",
                 difficulty |-> 0, reads |-> 0, seen |-> <<>>, answer |-> NoAnswer]
  BY DEF ProfilesInit
<1>3. /\ at \in CollectedAt \cup {0} /\ at \in Nat /\ (at > 0 \/ body = <<>>)
      /\ player \in {0, 1} /\ (player = 0 => at = 0)
  BY ProfilesAssumption
<1>4. /\ owner = [private |-> private, player |-> player, updated |-> at, collected |-> at]
      /\ recorded = WithBody(none, body, at)
      /\ since = [still |-> TRUE, songs |-> TRUE, allowed |-> FALSE, bumped |-> FALSE,
                  next |-> player + 1]
  BY <1>1
<1>5. none \in [ViewChart -> Play] /\ \A c \in ViewChart : none[c] = Unrecorded
  BY DEF Unrecorded, Play, Slots, ComboLamp
<1> HIDE DEF player, at, none
<1>6. /\ recorded \in [ViewChart -> Play]
      /\ \A c \in ViewChart :
           /\ recorded[c].at \in {none[c].at, at}
           /\ (none[c].at = 0 => none[c] = Unrecorded) =>
                (recorded[c].at = 0 => recorded[c] = Unrecorded)
           /\ recorded[c].slot # "none" => Catalog[c].group = "standard"
  <2>1. body \in Registered \/ body = <<>>
    OBVIOUS
  <2> QED
    BY <1>3, <1>4, <1>5, <2>1, WithBodyIs
<1>7. view.stage = "idle"
  BY <1>2
<1>8. owner \in OwnerType /\ owner.player = player /\ owner.updated = at /\ owner.collected = at
  BY <1>3, <1>4 DEF OwnerType
<1>9. since \in SinceType /\ since.next > 0
  BY <1>3, <1>4 DEF SinceType
<1>10. ViewTypes
  <2>1. view \in [stage : {"idle", "reading", "done"}, kind : Kinds \cup {"none"}, by : Requester,
                  song : ViewSong \cup {"none"}, difficulty : Difficulty \cup {0}, reads : Nat,
                  seen : {view.seen}, answer : {view.answer}]
    BY <1>2 DEF Requester
  <2>2. edits \in 0 .. MaxViewSteps
    BY <1>2, ProfilesAssumption
  <2> QED
    BY <1>2, <1>6, <1>7, <1>8, <1>9, <2>1, <2>2 DEF ViewTypes, OwnerType, SinceType
<1>11. RecordsInv
  <2>1. \A c \in ViewChart : none[c].at = 0
    BY <1>5 DEF Unrecorded
  <2>2. \A c \in ViewChart : recorded[c].at <= owner.collected
    BY <1>3, <1>6, <1>8, <2>1
  <2> QED
    BY <1>3, <1>5, <1>6, <1>8, <2>2 DEF RecordsInv
<1>12. PlaceInv /\ AccessInv /\ IdInv /\ SeenInv /\ DoneInv
  BY <1>7, <1>9 DEF PlaceInv, AccessInv, ShownIsAllowed, IdInv, SeenInv, DoneInv, StillIsRight, Shows
<1> QED
  BY <1>10, <1>11, <1>12 DEF ViewInv

LEMMA NextView ==
  ASSUME ViewInv, [ProfilesNext]_profilesVars
  PROVE  ViewInv'
<1>1. CASE Asks
  BY <1>1, AsksStep
<1>2. CASE ReadsNext
  BY <1>2, EarlyEnd, LastRead, OneMoreRead
<1>3. ViewTypes /\ RecordsInv /\ since.next > 0
  BY DEF ViewInv, IdInv
<1>4. CASE Registration
  BY <1>3, <1>4, RegistrationMoves, MovedStep
<1>5. CASE PlayerDeletion
  BY <1>3, <1>5, DeletionMoves, MovedStep
<1>6. CASE SongMoves
  BY <1>3, <1>6, SongMovesMove, MovedStep
<1>7. CASE PrivacyMoves \/ FriendshipMoves
  BY <1>3, <1>7, AccessMoves, MovedStep
<1>8. CASE UNCHANGED profilesVars
  <2>1. UNCHANGED <<owner, status, recorded, hidden, view, since, edits>>
    BY <1>8 DEF profilesVars
  <2>2. ViewTypes' /\ RecordsInv'
    BY <2>1 DEF ViewInv, ViewTypes, RecordsInv
  <2>3. PlaceInv'
    BY <2>1 DEF ViewInv, PlaceInv, Reads
  <2>4. AccessInv' /\ IdInv'
    BY <2>1 DEF ViewInv, AccessInv, AccessOf, AllowedTo, ShownIsAllowed, IdInv, PlayerOf, IdOf,
                EarlierRead
  <2>5. SeenInv'
    <3>1. \A id, song : \A x \in Pieces : Found(x, id, song)' = Found(x, id, song)
      BY <2>1, FoundStays
    <3>2. SongAsked(view.song \notin hidden)' <=> SongAsked(view.song \notin hidden)
      BY <2>1 DEF SongAsked, ChartsOf, GroupAsked
    <3>3. \A x \in Pieces : Found(x, IdOf(view.seen), view.song)'
                             = Found(x, IdOf(view.seen), view.song)
      BY <2>1, <3>1 DEF IdOf
    <3> QED
      BY <2>1, <3>2, <3>3 DEF ViewInv, SeenInv, PiecesOf, IdOf, Unmoved
  <2>6. DoneInv'
    BY <2>1, PageStays DEF ViewInv, DoneInv, StillIsRight, Shows, EarlierRead, Unmoved
  <2> QED
    BY <2>2, <2>3, <2>4, <2>5, <2>6 DEF ViewInv
<1> QED
  BY <1>1, <1>2, <1>4, <1>5, <1>6, <1>7, <1>8 DEF ProfilesNext

\* Unless a song's deletion moved it, the time that updated-at gives is the player's.
LEMMA StampIs ==
  ASSUME ViewTypes, RecordsInv, ~since.bumped
  PROVE  Stamp = owner.updated
<1> DEFINE times == {recorded[c].at : c \in ViewChart}
           at == [c \in ViewChart |-> recorded[c].at]
<1>1. owner.updated = owner.collected /\ owner.updated \in Nat
  BY ProfilesAssumption DEF ViewTypes, RecordsInv
<1>2. \A c \in ViewChart : recorded[c].at \in Nat /\ recorded[c].at <= owner.updated
  BY <1>1 DEF ViewTypes, RecordsInv, Play
<1>3. LatestOf(recorded) = MaxTime(times)
  BY DEF LatestOf, ViewTypes
<1>4. MaxTime(times) \in Nat /\ MaxTime(times) <= owner.updated
  <2>1. CASE ViewChart = {}
    <3>1. times = {}
      BY <2>1
    <3> HIDE DEF times
    <3>2. times \in SUBSET Nat /\ 0 \in times \cup {0} /\ \A u \in times : u <= 0
      BY <3>1
    <3>3. MaxTime(times) = 0
      BY <3>2, MaxTimeIs
    <3> QED
      BY <1>1, <3>3
  <2>2. CASE ViewChart # {}
    <3>1. PICK m \in ViewChart : \A d \in ViewChart : at[d] <= at[m]
      <4>1. ViewChart \in SUBSET ViewChart /\ \A c \in ViewChart : at[c] \in Nat
        BY <1>2
      <4> HIDE DEF at
      <4> QED
        BY <2>2, <4>1, GreatestOf
    <3> DEFINE n == recorded[m].at
    <3>2. times \in SUBSET Nat /\ n \in times \cup {0} /\ \A u \in times : u <= n
      BY <1>2, <3>1
    <3>3. n \in Nat /\ n <= owner.updated
      BY <1>2
    <3> HIDE DEF times, n
    <3>4. MaxTime(times) = n
      BY <3>2, MaxTimeIs
    <3> QED
      BY <3>3, <3>4
  <2> QED
    BY <2>1, <2>2
<1> DEFINE latest == LatestOf(recorded)
           T == {owner.updated, latest}
<1>5. latest \in Nat /\ latest <= owner.updated
  BY <1>3, <1>4
<1> HIDE DEF latest
<1>6. T \in SUBSET Nat /\ owner.updated \in T \cup {0} /\ \A u \in T : u <= owner.updated
  BY <1>1, <1>5
<1>7. Stamp = MaxTime(T)
  BY DEF Stamp, latest
<1> HIDE DEF T
<1> QED
  BY <1>6, <1>7, MaxTimeIs

\* The pages of a user are what they say they are, however many statements they are made
\* of and whatever commits between these: a page of a quiet moment has the right rows and
\* marks (user_usecase_impl.go, op_target.go); a kept page whose updated_at is still the
\* current one is current, because the player is read before the records; and nothing of a
\* private account is shown that was not to be seen during the request.
THEOREM SpecViewsHonest == ProfilesSpec => []ViewsHonest
<1>1. ViewInv => ViewsHonest
  <2> SUFFICES ASSUME ViewInv PROVE ViewsHonest
    OBVIOUS
  <2>1. StillIsRight
    BY DEF ViewInv, DoneInv
  <2>2. KeptIsCurrent
    <3> SUFFICES ASSUME Shows({"full", "rating"}), since.songs, ~since.bumped,
                        view.answer.player = owner.player, view.answer.updated = Stamp
                 PROVE  IsRight
      BY DEF KeptIsCurrent
    <3>1. Stamp = owner.updated
      BY StampIs DEF ViewInv
    <3>2. Unmoved(view.answer.player, view.answer.updated)
      BY <3>1 DEF Unmoved
    <3> QED
      BY <3>2 DEF ViewInv, DoneInv
  <2>3. ShownIsAllowed
    BY DEF ViewInv, AccessInv
  <2> QED
    BY <2>1, <2>2, <2>3 DEF ViewsHonest
<1> QED
  BY <1>1, InitView, NextView, PTL DEF ProfilesSpec

\* The rows, the request and the account are always typed, and no record of a play is newer
\* than the last time of collection (RegisterWithUpdateHistory).
THEOREM SpecProfilesTypeOK == ProfilesSpec => []ProfilesTypeOK
<1>1. ViewInv => ProfilesTypeOK
  <2> SUFFICES ASSUME ViewInv PROVE ProfilesTypeOK
    OBVIOUS
  <2>1. ViewTypes /\ RecordsInv
    BY DEF ViewInv
  <2>2. \A c \in ViewChart : recorded[c].lamp \in ComboLamp /\ recorded[c].at <= owner.collected
    BY <2>1 DEF ViewTypes, RecordsInv, Play
  <2>3. view.stage \in {"idle", "reading", "done"} /\ view.by \in Requester
    BY <2>1 DEF ViewTypes
  <2> QED
    BY <2>1, <2>2, <2>3 DEF ProfilesTypeOK, ViewTypes
<1> QED
  BY <1>1, InitView, NextView, PTL DEF ProfilesSpec
=============================================================================
