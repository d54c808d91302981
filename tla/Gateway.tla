------------------------------- MODULE Gateway -------------------------------
(***************************************************************************)
(* services/gateway: issuing development tokens, the dependencies a        *)
(* request passes (authentication, role, rate limit) in the order each     *)
(* route lists them, the proxied call or the three calls of /analyze, and  *)
(* the answer.                                                             *)
(*                                                                         *)
(* Everything up to the first downstream call runs without an await, so it *)
(* is one step.  A downstream call has a timeout: the service may do its   *)
(* work after the gateway has answered 503, or never.                      *)
(***************************************************************************)
EXTENDS RateLimit, FiniteSets, Sequences

CONSTANTS
  Caller,  \* requests at the gateway at a time
  Wanted,  \* [sub, role, tier] a token may be asked for
  DevTokens, \* ALLOW_DEV_TOKENS
  Secret,  \* DEV_TOKEN_BOOTSTRAP_SECRET is set
  Routes,  \* see Route
  NoToken  \* what is shown is missing, malformed, expired or wrongly signed

\* A route stands for those with the same dependencies.
Route == {"read", "start", "stop", "act", "analyze"}
Role == {"free", "premium", "enterprise", "admin"}

\* resolve_tier of the tier a token claims.
ResolveTier(claimed) ==
  CASE claimed = "admin" -> "enterprise"
    [] claimed \in Role \ {"admin"} -> claimed
    [] OTHER -> "free"

ASSUME GatewayAssumption ==
  /\ RateAssumption
  /\ Routes \subseteq Route
  /\ \A w \in Wanted : w.role \in Role /\ <<w.sub, ResolveTier(w.tier)>> \in Key
  /\ DevTokens \in BOOLEAN /\ Secret \in BOOLEAN

ASSUME NoTokenAssumption == NoToken \notin [want : Wanted, trusted : BOOLEAN]

VARIABLES
  issued, \* tokens given out, and whether the secret had been shown
  req,    \* each request: where it is, its route, token and answer
  done,   \* the calls the services carried out for it
  trail   \* refusals in the ledger: auth_failure

gatewayVars == <<rateVars, issued, req, done, trail>>

-------------------------------------------------------------------------------
(* Tokens: issue_dev_token.                                                *)

\* Not the code: the tier is not looked at.
RoleAlone(w) == w.role # "free"
\* requires_bootstrap_secret
NeedsSecret(w) == w.role # "free" \/ w.tier # "free"
\* bootstrap_secret_matches: nothing matches a secret that is not set.
Matches(shown) == Secret /\ shown
MayIssue(w, shown) == DevTokens /\ (NeedsSecret(w) => Matches(shown))
Token(w, shown) == [want |-> w, trusted |-> Matches(shown)]

Idle == [at |-> "idle", route |-> "token", token |-> NoToken, status |-> 0]

\* http_exception_handler: a 401 or 403 is audited before it is answered.
Rejected(c, route, token, status) ==
  req' = [req EXCEPT ![c] =
           [at |-> IF status \in {401, 403} THEN "audit" ELSE "answered",
            route |-> route, token |-> token, status |-> status]]

AskToken(c, w, shown) ==
  /\ req[c].at = "idle"
  /\ IF MayIssue(w, shown)
     THEN issued' = issued \cup {Token(w, shown)} /\ UNCHANGED req
     ELSE Rejected(c, "token", NoToken, 403) /\ UNCHANGED issued
  /\ UNCHANGED <<rateVars, done, trail>>

-------------------------------------------------------------------------------
(* A request, up to its first await.                                       *)

\* require_role
Allowed(route) ==
  CASE route = "read" -> Role
    [] route \in {"start", "analyze"} -> {"enterprise", "admin"}
    [] OTHER -> {"admin"}
\* The role is looked at before the bucket; elsewhere it is after.
RoleFirst(route) == route \in {"act", "analyze"}

Stages(route) ==
  IF route = "analyze" THEN <<"features", "predict", "log">> ELSE <<"call">>

KeyOf(token) == <<token.want.sub, ResolveTier(token.want.tier)>>

\* A body that is no JSON is refused before anything is looked at.
Unauthenticated(c, route) ==
  /\ \E status \in {400, 401} : Rejected(c, route, NoToken, status)
  /\ UNCHANGED bucket

\* Not the code: who has paid may.
Anyone(token, route) == TRUE
Permits(token, route) == token.want.role \in Allowed(route)

WrongRole(c, route, token) ==
  /\ ~Permits(token, route)
  /\ Rejected(c, route, token, 403)
  /\ IF RoleFirst(route) THEN UNCHANGED bucket ELSE Pay(KeyOf(token))

TooMany(c, route, token) ==
  /\ RoleFirst(route) => Permits(token, route)
  /\ Refuse(KeyOf(token))
  /\ Rejected(c, route, token, 429)

\* Past the dependencies: the body is refused, or the service is called.
Admit(c, route, token) ==
  /\ Permits(token, route) /\ Pay(KeyOf(token))
  /\ \/ Rejected(c, route, token, 400)
     \/ req' = [req EXCEPT ![c] =
                 [at |-> Stages(route)[1], route |-> route, token |-> token,
                  status |-> 0]]

Request(c, route) ==
  /\ req[c].at = "idle"
  /\ \/ Unauthenticated(c, route)
     \/ \E token \in issued :
          \/ WrongRole(c, route, token) \/ TooMany(c, route, token)
          \/ Admit(c, route, token)
  /\ UNCHANGED <<now, since, issued, done, trail>>

-------------------------------------------------------------------------------
(* Downstream.                                                             *)

Calls == {"call", "features", "predict", "log"}

\* A service carries out the call a request waits for, or waited for.
Perform(c) ==
  \E call \in Calls \ done[c] :
    /\ \/ req[c].at = call
       \/ req[c].at = "late" /\ \E n \in DOMAIN Stages(req[c].route) :
            /\ Stages(req[c].route)[n] = call
            /\ Cardinality(done[c]) = n - 1
    /\ done' = [done EXCEPT ![c] = @ \cup {call}]
    /\ UNCHANGED <<rateVars, issued, req, trail>>

\* What comes after the call that was answered: the next one, or the answer.
After(c) ==
  LET calls == Stages(req[c].route)
      n == CHOOSE i \in DOMAIN calls : calls[i] = req[c].at
  IN IF n = Len(calls) THEN "answered" ELSE calls[n + 1]

Reply(c) ==
  /\ req[c].at \in Calls /\ req[c].at \in done[c]
  /\ req' = [req EXCEPT ![c] =
              [@ EXCEPT !.at = After(c),
                        !.status = IF After(c) = "answered" THEN 200 ELSE 0]]
  /\ UNCHANGED <<rateVars, issued, done, trail>>

\* An error, unreachable, or no answer in time; the call may yet be made.
Fail(c) ==
  /\ req[c].at \in Calls
  /\ req' = [req EXCEPT ![c] = [@ EXCEPT !.at = "late", !.status = 503]]
  /\ UNCHANGED <<rateVars, issued, done, trail>>

\* audit_access_denial, best effort; the refusal is answered either way.
Audit(c) ==
  /\ req[c].at = "audit"
  /\ trail' \in {trail, trail \cup {req[c].status}}
  /\ req' = [req EXCEPT ![c].at = "answered"]
  /\ UNCHANGED <<rateVars, issued, done>>

\* The request is over.
Leave(c) ==
  /\ req[c].at \in {"answered", "late"}
  /\ req' = [req EXCEPT ![c] = Idle] /\ done' = [done EXCEPT ![c] = {}]
  /\ UNCHANGED <<rateVars, issued, trail>>

-------------------------------------------------------------------------------
Init ==
  /\ RateInit
  /\ issued = {} /\ trail = {}
  /\ req = [c \in Caller |-> Idle] /\ done = [c \in Caller |-> {}]

Next ==
  \/ (Tick \/ Observe) /\ UNCHANGED <<issued, req, done, trail>>
  \/ \E c \in Caller :
       \/ \E w \in Wanted, shown \in BOOLEAN : AskToken(c, w, shown)
       \/ \E route \in Routes : Request(c, route)
       \/ Perform(c) \/ Reply(c) \/ Fail(c) \/ Audit(c) \/ Leave(c)

Spec == Init /\ [][Next]_gatewayVars

-------------------------------------------------------------------------------
Tokens == [want : Wanted, trusted : BOOLEAN]

\* Every variable has its type, and a bucket its bounds.
TypeOK ==
  /\ RateInv
  /\ issued \subseteq Tokens
  /\ req \in [Caller -> [at : Calls \cup {"idle", "audit", "answered", "late"},
                         route : Route \cup {"token"},
                         token : Tokens \cup {NoToken},
                         status : {0, 200, 400, 401, 403, 429, 503}]]
  /\ done \in [Caller -> SUBSET Calls]
  /\ trail \subseteq {401, 403}

\* Whatever a service was made to do was asked for with a token whose role
\* the route permits, and beyond reading with one that was given for the
\* secret; a request answered 200 was carried out whole, one that was refused
\* not at all, whether its refusal could be audited or not.
DoneIsAllowed ==
  \A c \in Caller :
    LET r == req[c]
    IN /\ done[c] # {} =>
            /\ r.token # NoToken /\ Permits(r.token, r.route)
            /\ r.route # "read" => r.token.trusted
       /\ r.token # NoToken /\ ~r.token.trusted => r.token.want.tier = "free"
       /\ r.at = "answered" /\ r.status = 200
            => done[c] = {Stages(r.route)[n] : n \in DOMAIN Stages(r.route)}
       /\ r.status \in {400, 401, 403, 429} => done[c] = {}
=============================================================================
