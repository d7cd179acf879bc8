-------------------------------- MODULE Gate ---------------------------------
(***************************************************************************)
(* What stands before the handlers: the gate of a maintenance, the two     *)
(* ways to be known (a session of Firebase, an API token), the checks of   *)
(* role and permission, and the limits of rate, in the order in which the  *)
(* router puts them for each group of routes.  A request goes through them *)
(* one at a time; roles, sessions, tokens and the maintenance change       *)
(* meanwhile.                                                              *)
(*                                                                         *)
(* One person with one address; requests come one after another, since     *)
(* they meet only in the stores of the limits, each under its mutex.  A    *)
(* session that is not "valid" was revoked, or its Firebase account        *)
(* disabled or deleted; tokens that never were good are left out, as are   *)
(* CORS, the size of bodies and unmatched routes.                          *)
(***************************************************************************)
EXTENDS Integers, Sequences, FiniteSets

CONSTANTS
  ApiLimit,       \* info.APIRateLimit*: requests in a window, by role
  LimitOf,        \* the limits of the other stores
  RateWindow,     \* their window
  MaxClock,       \* bounds the time,
  MaxRequests,    \* the requests
  MaxGateChanges  \* and the changes around them

AccountRole == DOMAIN ApiLimit

\* The stores of limits by address or by user; "v1" has one by user.
Store == {"badges", "badge", "login", "register", "anonymous"}

ASSUME GateAssumption ==
  /\ AccountRole \subseteq {"player", "editor", "admin", "extdev"}
  /\ "player" \in AccountRole /\ "admin" \in AccountRole
  /\ \A role \in AccountRole : ApiLimit[role] \in Nat \ {0}
  /\ LimitOf \in [Store -> Nat \ {0}]
  /\ RateWindow \in Nat \ {0} /\ {MaxClock, MaxRequests, MaxGateChanges} \subseteq Nat

VARIABLES
  person,       \* its rows in users and api_tokens, and its session with Firebase
  maintenance,  \* what this server publishes
  clock,
  entries,      \* FixedWindowStore.entries of each store: count and start of the window
  inflight,     \* the request: its route, its bearer, the middlewares left, what is known
  was,          \* what has been so at some moment since the request arrived
  served,       \* history: of each store and key, the requests let through: when, under what
                \* limit, and when the window began that they fall into
  arrived,      \* requests so far
  turns         \* changes so far

gateVars == <<person, maintenance, clock, entries, inflight, was, served, arrived, turns>>

Nobody == "nobody"

GateTypeOK ==
  /\ person \in [exists : BOOLEAN, role : AccountRole, session : {"valid", "revoked"},
                 token : {"none", "read", "write"}]
  /\ maintenance \in BOOLEAN
  /\ clock \in 0 .. MaxClock
  /\ \A k \in DOMAIN entries : entries[k].count \in Nat /\ entries[k].start \in 0 .. clock
  /\ inflight.stage \in {"none", "going", "handled", "refused"}
  /\ inflight.user \in AccountRole \cup {Nobody}
  /\ arrived \in 0 .. MaxRequests /\ turns \in 0 .. MaxGateChanges

-----------------------------------------------------------------------------
(***************************************************************************)
(* The routes, one of each kind, with their middlewares.  Left out are the *)
(* routes that differ from one of these in the store of their limit alone  *)
(* (signup, transfer, temporary data, the compatibility APIs), in the role *)
(* asked for, or have no more than the gate.  A limit is named like the    *)
(* store that it counts in.                                                *)
(***************************************************************************)
FirebaseGate == "firebase gate"
TokenGate == "token gate"

BadgeRoutes == [badge |-> <<FirebaseGate, "badges", "badge">>]

AuthRoutes == [login |-> <<"login", "strict", "log in">>]

MeRoutes ==
  [look |-> <<FirebaseGate, "fast">>,
   register |-> <<FirebaseGate, "strict", "register">>]

PublicRoutes == [pages |-> <<FirebaseGate, "optional", "anonymous">>]

StaffRoutes == [admin |-> <<FirebaseGate, "strict", "admin">>]

ExternalRoutes ==
  [v1 |-> <<TokenGate, "token", "v1">>,
   v1edit |-> <<TokenGate, "token", "v1", "write", "editor">>]

SystemRoutes == [status |-> <<>>, version |-> <<TokenGate, "token", "admin">>]

Chain(route) ==
  CASE route \in DOMAIN BadgeRoutes -> BadgeRoutes[route]
    [] route \in DOMAIN AuthRoutes -> AuthRoutes[route]
    [] route \in DOMAIN MeRoutes -> MeRoutes[route]
    [] route \in DOMAIN PublicRoutes -> PublicRoutes[route]
    [] route \in DOMAIN StaffRoutes -> StaffRoutes[route]
    [] route \in DOMAIN ExternalRoutes -> ExternalRoutes[route]
    [] route \in DOMAIN SystemRoutes -> SystemRoutes[route]

Route ==
  DOMAIN BadgeRoutes \cup DOMAIN AuthRoutes \cup DOMAIN MeRoutes \cup DOMAIN PublicRoutes
    \cup DOMAIN StaffRoutes \cup DOMAIN ExternalRoutes \cup DOMAIN SystemRoutes

\* info.HasRole: EXTDEV is a player with a greater limit, and no more.
HasRole(role, required) ==
  role \in (CASE required = "admin" -> {"admin"} [] required = "editor" -> {"editor", "admin"})

-----------------------------------------------------------------------------
(***************************************************************************)
(* The limits of rate.                                                     *)
(***************************************************************************)
Current(key, limit) == key \in DOMAIN entries /\ clock - entries[key].start < RateWindow

Entry0(key, limit) ==
  IF Current(key, limit) THEN [entries[key] EXCEPT !.limit = limit]
  ELSE [count |-> 0, start |-> clock, limit |-> limit]

\* Allow
Admits(key, limit) == Entry0(key, limit).count < limit

With(f, k, v) == [x \in DOMAIN f \cup {k} |-> IF x = k THEN v ELSE f[x]]

\* What has been let through under a key.  The first one begins a window, and so does the
\* first one that comes when the last window is over.
Passes(key) == IF key \in DOMAIN served THEN served[key] ELSE <<>>
InLastWindow(passes) == passes # <<>> /\ clock - passes[Len(passes)].window < RateWindow
Passing(passes, limit) ==
  [at |-> clock, limit |-> limit,
   window |-> IF InLastWindow(passes) THEN passes[Len(passes)].window ELSE clock]

Allow(key, limit) ==
  LET entry == Entry0(key, limit)
  IN IF Admits(key, limit)
     THEN /\ entries' = With(entries, key, [entry EXCEPT !.count = @ + 1])
          /\ served' = With(served, key, Append(Passes(key), Passing(Passes(key), limit)))
     ELSE entries' = With(entries, key, entry) /\ UNCHANGED served

\* Cleanup
Clearable(key) == clock - entries[key].start >= 2 * RateWindow

Cleanup ==
  /\ inflight.stage = "none" /\ \E key \in DOMAIN entries : Clearable(key)
  /\ entries' = [key \in {k \in DOMAIN entries : ~Clearable(k)} |-> entries[key]]
  /\ UNCHANGED <<person, maintenance, clock, inflight, was, served, arrived, turns>>

-----------------------------------------------------------------------------
(***************************************************************************)
(* A request.                                                              *)
(***************************************************************************)
Facts ==
  (IF maintenance THEN {} ELSE {"open"})
    \cup (IF person.exists THEN {"known"} ELSE {})
    \cup (IF person.exists /\ HasRole(person.role, "editor") THEN {"editor"} ELSE {})
    \cup (IF person.exists /\ HasRole(person.role, "admin") THEN {"admin"} ELSE {})
    \cup (IF person.session = "valid" THEN {"session"} ELSE {})
    \cup (IF person.token = "none" THEN {} ELSE {"token"})
    \cup (IF person.token = "write" THEN {"write"} ELSE {})

Idle == [stage |-> "none", route |-> "status", bearer |-> FALSE, left |-> <<>>,
         user |-> Nobody, token |-> "none"]

RequestArrives ==
  /\ inflight.stage = "none" /\ arrived < MaxRequests
  /\ \E route \in Route, bearer \in BOOLEAN :
       inflight' = [stage |-> "going", route |-> route, bearer |-> bearer, left |-> Chain(route),
                    user |-> Nobody, token |-> "none"]
  /\ arrived' = arrived + 1
  /\ was' = Facts
  /\ UNCHANGED <<person, maintenance, clock, entries, served, turns>>

\* The middleware whose turn it is goes on with these before the rest, or refuses.
GoesOn(more) ==
  inflight' = [inflight EXCEPT !.left = more \o Tail(@)]
Refuses == inflight' = [Idle EXCEPT !.stage = "refused"]
Turn(middleware) ==
  inflight.stage = "going" /\ inflight.left # <<>> /\ Head(inflight.left) = middleware

Unlimited ==
  UNCHANGED <<person, maintenance, clock, entries, was, served, arrived, turns>>

\* Mutant: the gate, too, does without asking whether the session was revoked.
GateSteps_Fast(gate) ==
  IF gate = "firebase gate" THEN <<"fast verify", "find", "staff">>
  ELSE <<"find token", "find owner", "staff">>

\* FirebaseMaintenanceMiddleware, APITokenMaintenanceMiddleware: in a maintenance only staff
\* passes, known by the strict way, and stays known to what follows.
GateSteps(gate) ==
  IF gate = "firebase gate" THEN <<"strict verify", "find", "staff">>
  ELSE <<"find token", "find owner", "staff">>

Gates ==
  /\ \E gate \in {"firebase gate", "token gate"} :
       /\ Turn(gate)
       /\ IF ~maintenance THEN GoesOn(<<>>)
          ELSE IF inflight.bearer THEN GoesOn(GateSteps(gate))
          ELSE Refuses
  /\ Unlimited

Verification(way) == IF way = "strict" THEN "strict verify" ELSE "fast verify"

\* FirebaseIDTokenMiddleware; "fast" for reads.
Authenticates ==
  /\ \E way \in {"strict", "fast"} :
       /\ Turn(way)
       /\ IF inflight.user # Nobody THEN GoesOn(<<>>)
          ELSE IF inflight.bearer THEN GoesOn(<<Verification(way), "find">>)
          ELSE Refuses
  /\ Unlimited

\* OptionalFirebaseIDTokenMiddleware
AuthenticatesOptionally ==
  /\ Turn("optional")
  /\ IF inflight.user # Nobody \/ ~inflight.bearer THEN GoesOn(<<>>)
     ELSE GoesOn(<<"fast verify", "find or not">>)
  /\ Unlimited

\* VerifyIDToken, VerifyIDTokenWithoutRevocationCheck
Verifies ==
  /\ \/ Turn("strict verify") /\ IF person.session = "valid" THEN GoesOn(<<>>) ELSE Refuses
     \/ Turn("fast verify") /\ GoesOn(<<>>)
  /\ Unlimited

\* The user of the Firebase account is read; the request keeps what was read.
Finds ==
  /\ Turn("find") \/ Turn("find or not")
  /\ IF person.exists
     THEN inflight' = [inflight EXCEPT !.left = Tail(@), !.user = person.role]
     ELSE IF Turn("find") THEN Refuses ELSE GoesOn(<<>>)
  /\ Unlimited

\* APITokenMiddleware
UsesToken ==
  /\ Turn("token")
  /\ IF inflight.user # Nobody THEN GoesOn(<<>>)
     ELSE IF inflight.bearer THEN GoesOn(<<"find token", "find owner">>)
     ELSE Refuses
  /\ Unlimited

\* Validate finds the token and, when the time of its use is due to be recorded, reads its
\* row again for that.
FindsToken ==
  /\ Turn("find token") \/ Turn("record use")
  /\ IF person.token # "none"
     THEN inflight' = [inflight EXCEPT !.left = Tail(@), !.token = person.token]
     ELSE Refuses
  /\ Unlimited

\* Validate: the owner of the token.
Validates ==
  /\ Turn("find owner")
  /\ \E due \in BOOLEAN :
       IF person.exists
       THEN inflight' = [inflight EXCEPT !.user = person.role,
                           !.left = (IF due THEN <<"record use">> ELSE <<>>) \o Tail(@)]
       ELSE Refuses
  /\ Unlimited

\* RequireRole, and the gate's own check.
ChecksRole ==
  /\ \E check \in {"staff", "editor", "admin"} :
       /\ Turn(check)
       /\ IF HasRole(inflight.user, IF check = "staff" THEN "editor" ELSE check)
          THEN GoesOn(<<>>) ELSE Refuses
  /\ Unlimited

\* RequireAPITokenWrite
ChecksWrite ==
  /\ Turn("write")
  /\ IF inflight.token = "write" THEN GoesOn(<<>>) ELSE Refuses
  /\ Unlimited

\* Login looks at the maintenance itself, its route passes by the gate.
LogsIn ==
  /\ Turn("log in")
  /\ IF maintenance /\ ~HasRole(inflight.user, "editor") THEN Refuses ELSE GoesOn(<<>>)
  /\ Unlimited

\* IPRateLimitMiddleware, IPAndUsernameRateLimitMiddleware, UserRateLimitMiddleware,
\* AnonymousIPRateLimitMiddleware and APIRateLimitMiddleware: a store each, with its keys.
Key(store) == <<store, IF store \in {"register", "v1"} THEN "user" ELSE "ip">>
LimitFor(store) ==
  IF store = "v1" THEN ApiLimit[inflight.user] ELSE LimitOf[store]

Limits ==
  /\ \E store \in Store \cup {"v1"} :
       /\ Turn(store)
       /\ IF store = "anonymous" /\ inflight.user # Nobody
          THEN GoesOn(<<>>) /\ UNCHANGED <<entries, served>>
          ELSE /\ IF Admits(Key(store), LimitFor(store)) THEN GoesOn(<<>>) ELSE Refuses
               /\ Allow(Key(store), LimitFor(store))
  /\ UNCHANGED <<person, maintenance, clock, was, arrived, turns>>

\* Nothing is left: the handler runs.
Handles ==
  /\ inflight.stage = "going" /\ inflight.left = <<>>
  /\ inflight' = [Idle EXCEPT !.stage = "handled", !.route = inflight.route]
  /\ Unlimited

\* The answer is sent; what was known is forgotten.
Responds ==
  /\ inflight.stage \in {"handled", "refused"}
  /\ inflight' = Idle /\ was' = {}
  /\ UNCHANGED <<person, maintenance, clock, entries, served, arrived, turns>>

-----------------------------------------------------------------------------
\* A role, a session or a token changes, the account is deleted, the maintenance begins or ends.
Changes ==
  /\ inflight.stage \in {"none", "going"}
  /\ turns < MaxGateChanges /\ turns' = turns + 1
  /\ \/ /\ \E role \in AccountRole \ {person.role} : person' = [person EXCEPT !.role = role]
        /\ UNCHANGED maintenance
     \/ person' = [person EXCEPT !.session = "revoked"] /\ UNCHANGED maintenance
     \/ person' = [person EXCEPT !.token = "none"] /\ UNCHANGED maintenance
     \/ person' = [person EXCEPT !.exists = FALSE, !.token = "none"] /\ UNCHANGED maintenance
     \/ maintenance' = ~maintenance /\ UNCHANGED person
  /\ was' = IF inflight.stage = "going" THEN was \cup Facts' ELSE was
  /\ UNCHANGED <<clock, entries, inflight, served, arrived>>

\* Only the limits look at the time and at the entries, and next to no time passes while a
\* request is on its way.
Tick ==
  /\ inflight.stage = "none"
  /\ clock < MaxClock /\ clock' = clock + 1
  /\ UNCHANGED <<person, maintenance, entries, inflight, was, served, arrived, turns>>

GateInit ==
  /\ person \in [exists : {TRUE}, role : {"player", "admin"}, session : {"valid"},
                 token : {"read", "write"}]
  /\ maintenance \in BOOLEAN
  /\ clock = 0
  /\ entries = <<>>
  /\ inflight = Idle
  /\ was = {}
  /\ served = <<>>
  /\ arrived = 0 /\ turns = 0

GateNext ==
  \/ RequestArrives \/ Gates \/ Authenticates \/ AuthenticatesOptionally \/ Verifies \/ Finds
  \/ UsesToken \/ FindsToken \/ Validates \/ ChecksRole \/ ChecksWrite \/ LogsIn \/ Limits \/ Handles \/ Responds
  \/ Cleanup \/ Changes \/ Tick

GateSpec == GateInit /\ [][GateNext]_gateVars

-----------------------------------------------------------------------------
\* What a handler of each route may count on, as docs/API.md lists it.
Promised(route) ==
  CASE route \in {"register", "login"} -> {"known", "session"}
    [] route = "look" -> {"known"}
    [] route = "admin" -> {"admin", "session"}
    [] route = "v1" -> {"known", "token"}
    [] route = "v1edit" -> {"editor", "write"}
    [] route = "version" -> {"admin", "token"}
    [] OTHER -> {}

\* Whatever changes while the request is on its way, its handler runs only if all that was
\* promised of it was so at some moment since it arrived; and while the maintenance lasts only
\* for staff, known by a session that is good or by a token, be it a read or not.
HandledRightly ==
  inflight.stage = "handled" =>
    /\ Promised(inflight.route) \subseteq was
    /\ \/ "open" \in was
       \/ inflight.route = "status"
       \/ "editor" \in was /\ (inflight.route \in DOMAIN ExternalRoutes \cup {"version"}
                               => "token" \in was)
                           /\ (inflight.route \notin DOMAIN ExternalRoutes \cup {"version"}
                               => "session" \in was)

\* No window lets more through than the limit that holds when the last of them comes,
\* whatever the limit was before in that window, and also when entries are cleared meanwhile;
\* no stretch of time as long as a window has more than twice the greatest limit that applied
\* (Allow, Cleanup).
RateHeld ==
  \A k \in DOMAIN served :
    LET passes == served[k]
        inWindow(i) == {j \in 1 .. i : passes[j].window = passes[i].window}
        soonAfter(i) == {j \in i .. Len(passes) : passes[j].at < passes[i].at + RateWindow}
    IN \A i \in DOMAIN passes :
         /\ Cardinality(inWindow(i)) <= passes[i].limit
         /\ \E j \in DOMAIN passes : Cardinality(soonAfter(i)) <= 2 * passes[j].limit

\* What the middlewares promise to the handlers and to the server.
GateHolds == HandledRightly /\ RateHeld
=============================================================================
