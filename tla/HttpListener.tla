---------------------------- MODULE HttpListener ----------------------------
(***************************************************************************)
(* serve_http_requests of pingoo/listeners/http_listener.rs, which both    *)
(* HTTP listeners run for every connection: what happens to one request    *)
(* after another, from its headers to the service that answers it.         *)
(*                                                                         *)
(* A request is what the handler tells apart: its user agent, whether its  *)
(* path is the captcha's, its captcha_verified cookie (module Captcha says *)
(* when it is valid), and how each rule and each route evaluates on it.    *)
(* Rate limiters answer as module RateLimiterActor says they may.          *)
(***************************************************************************)
EXTENDS Naturals, Sequences

CONSTANTS
    RuleSets,     \* configurations: sequences of [actions, limiter]
    NumServices   \* services of the listener, in order

Actions == {"block", "captcha", "limit"}
Verdict == {"true", "false", "error"}    \* how an expression evaluates

ASSUME ListenerAssumption ==
    /\ NumServices \in Nat
    /\ \A rs \in RuleSets : rs \in Seq([actions : Seq(Actions), limiter : BOOLEAN])

VARIABLES
    rules,        \* the configuration, fixed at start
    alive,        \* the limiters' tasks run
    pc, req,      \* the handler, and the request it serves
    captcha_verified,
    at,           \* the rule and the action of the two loops
    response,
    probed        \* history: <<rule, action>> whose limiter counted this request, and said go on

httpVars == <<rules, alive, pc, req, captcha_verified, at, response, probed>>

Requests ==
    [user_agent : {"ok", "empty", "too long"}, captcha_path : BOOLEAN,
     cookie : {"none", "valid", "invalid"},
     verdict : [1..Len(rules) -> Verdict], route : [1..NumServices -> Verdict]]

NoRequest == [user_agent |-> "none"]
NoResponse == [status |-> "none", service |-> 0]

HttpInit ==
    /\ rules \in RuleSets
    /\ alive = TRUE
    /\ pc = "idle" /\ req = NoRequest /\ captcha_verified = FALSE
    /\ at = [rule |-> 1, action |-> 1]
    /\ response = NoResponse /\ probed = {}

Respond(status) == response' = [status |-> status, service |-> 0] /\ pc' = "answered"
Forward(s) == response' = [status |-> "forwarded", service |-> s] /\ pc' = "answered"

\* The next request of the connection arrives.
Receive ==
    /\ pc = "idle"
    /\ req' \in Requests
    /\ pc' = "received"
    /\ UNCHANGED <<rules, alive, captcha_verified, at, response, probed>>

\* The response is sent; the handler's state is dropped.
Sent ==
    /\ pc = "answered"
    /\ pc' = "idle" /\ req' = NoRequest /\ captcha_verified' = FALSE
    /\ at' = [rule |-> 1, action |-> 1]
    /\ response' = NoResponse /\ probed' = {}
    /\ UNCHANGED <<rules, alive>>

\* A user agent that does not fit its buffer is as good as none; one that fills it is refused too.
HasUserAgent == req.user_agent = "ok"

\* Up to the rules: user agent, captcha API, captcha_verified cookie.
Screen ==
    /\ pc = "received"
    /\ captcha_verified' = (req.cookie = "valid" /\ HasUserAgent /\ ~ req.captcha_path)
    /\ CASE ~ HasUserAgent -> Respond("blocked")
         [] HasUserAgent /\ req.captcha_path -> Respond("captcha api")
         [] HasUserAgent /\ ~ req.captcha_path /\ req.cookie = "invalid" -> Respond("captcha")
         [] OTHER -> pc' = "rules" /\ UNCHANGED response
    /\ UNCHANGED <<rules, alive, req, at, probed>>

\* Rule::match_request: an expression that cannot be evaluated does not match.
match_request(verdict) == verdict = "true"

\* Mutant: the inner loop goes on where the last rule's ended.
NextRuleSameAction == at' = [at EXCEPT !.rule = @ + 1] /\ pc' = "rules"

NextRule == at' = [rule |-> at.rule + 1, action |-> 1] /\ pc' = "rules"
NextAction == at' = [at EXCEPT !.action = @ + 1] /\ pc' = "actions"

MatchRule ==
    /\ pc = "rules" /\ at.rule <= Len(rules)
    /\ IF match_request(req.verdict[at.rule])
       THEN pc' = "actions" /\ UNCHANGED at
       ELSE NextRule
    /\ UNCHANGED <<rules, alive, req, captcha_verified, response, probed>>

ActionsDone ==
    /\ pc = "actions" /\ at.action > Len(rules[at.rule].actions)
    /\ NextRule
    /\ UNCHANGED <<rules, alive, req, captcha_verified, response, probed>>

Doing(action) ==
    /\ pc = "actions" /\ at.action <= Len(rules[at.rule].actions)
    /\ rules[at.rule].actions[at.action] = action

Block ==
    /\ Doing("block")
    /\ Respond("blocked")
    /\ UNCHANGED <<rules, alive, req, captcha_verified, at, probed>>

\* Mutant: no early return.
ServeCaptchaLater ==
    /\ Doing("captcha")
    /\ NextAction
    /\ UNCHANGED <<rules, alive, req, captcha_verified, response, probed>>

ServeCaptcha ==
    /\ Doing("captcha")
    /\ IF captcha_verified THEN NextAction /\ UNCHANGED response
                           ELSE Respond("captcha") /\ UNCHANGED at
    /\ UNCHANGED <<rules, alive, req, captcha_verified, probed>>

\* A rule without a limit section has no limiter: its limit action does nothing.
Limit ==
    /\ Doing("limit")
    /\ IF rules[at.rule].limiter THEN pc' = "limiting" /\ UNCHANGED at ELSE NextAction
    /\ UNCHANGED <<rules, alive, req, captcha_verified, response, probed>>

\* limit_http_request: the limiter's answer, or none when its task is gone.
limit_http_request ==
    /\ pc = "limiting"
    /\ \/ alive /\ NextAction /\ probed' = probed \cup {<<at.rule, at.action>>} /\ UNCHANGED response
       \/ alive /\ Respond("429") /\ UNCHANGED <<at, probed>>
       \/ alive /\ Respond("503") /\ UNCHANGED <<at, probed>>
       \/ ~ alive /\ Respond("500") /\ UNCHANGED <<at, probed>>
    /\ UNCHANGED <<rules, alive, req, captcha_verified>>

\* The first service whose route matches; it answers (module ProxyServices).
Route ==
    /\ pc = "rules" /\ at.rule > Len(rules)
    /\ LET matching == {s \in 1..NumServices : match_request(req.route[s])}
       IN IF matching = {}
          THEN Respond("not found")
          ELSE \E s \in matching : (\A o \in matching : s <= o) /\ Forward(s)
    /\ UNCHANGED <<rules, alive, req, captcha_verified, at, probed>>

\* The limiters' tasks are gone: the runtime is dropping its tasks.
LimitersStop ==
    /\ alive /\ alive' = FALSE
    /\ UNCHANGED <<rules, pc, req, captcha_verified, at, response, probed>>

Handle ==
    \/ Screen \/ MatchRule \/ ActionsDone \/ Block \/ ServeCaptcha \/ Limit
    \/ limit_http_request \/ Route

HttpNext == Receive \/ Handle \/ Sent \/ LimitersStop

HttpSpec == HttpInit /\ [][HttpNext]_httpVars
-----------------------------------------------------------------------------
(* Properties *)

Statuses == {"none", "forwarded", "blocked", "captcha", "captcha api", "429", "503", "500", "not found"}

\* Every variable has its type; the loops never run past the rules' actions.
HttpTypeOK ==
    /\ rules \in RuleSets /\ alive \in BOOLEAN
    /\ pc \in {"idle", "received", "rules", "actions", "limiting", "answered"}
    /\ req = NoRequest \/ req \in Requests
    /\ captcha_verified \in BOOLEAN
    /\ at.rule \in 1..Len(rules) + 1
    /\ at.action \in 1..(IF at.rule <= Len(rules) THEN Len(rules[at.rule].actions) + 1 ELSE 1)
    /\ response \in [status : Statuses, service : 0..NumServices]
    /\ probed \subseteq UNION {{r} \X DOMAIN rules[r].actions : r \in DOMAIN rules}

\* The actions that apply to the request, as <<rule, position>>, in the order of the loops.
Applies ==
    UNION {{r} \X DOMAIN rules[r].actions : r \in {n \in DOMAIN rules : req.verdict[n] = "true"}}

Act(p) == rules[p[1]].actions[p[2]]

Before(p, q) == p[1] < q[1] \/ (p[1] = q[1] /\ p[2] < q[2])

Limiting(p) == Act(p) = "limit" /\ rules[p[1]].limiter

\* Where the configuration turns the request away, given what the limiters said.
TurnedAwayAt(p) ==
    \/ Act(p) = "block"
    \/ Act(p) = "captcha" /\ req.cookie # "valid"
    \/ Limiting(p) /\ p \notin probed

\* What may be answered at such an action.
AnswersOf(action) ==
    CASE action = "block" -> {"blocked"}
      [] action = "captcha" -> {"captcha"}
      [] action = "limit" -> {"429", "503", "500"}

\* The first action that turns the request away, if any.
Decisive == {p \in Applies : TurnedAwayAt(p) /\ \A q \in Applies : Before(q, p) => ~ TurnedAwayAt(q)}

\* The first service whose route matches, if any.
Chosen == {s \in 1..NumServices : req.route[s] = "true" /\ \A o \in 1..(s - 1) : req.route[o] # "true"}

\* A request is answered as the configuration says, read without the loops: by
\* the first action of a matching rule that turns it away or, when none does,
\* by the first service whose route matches (lines 252-279).  And the limiters
\* of exactly the limit actions before that have counted it: a request turned
\* away earlier costs its client nothing.
AnsweredAsConfigured ==
    pc = "answered" =>
        CASE req.user_agent # "ok" -> response.status = "blocked" /\ probed = {}
          [] req.user_agent = "ok" /\ req.captcha_path -> response.status = "captcha api" /\ probed = {}
          [] req.user_agent = "ok" /\ ~ req.captcha_path /\ req.cookie = "invalid" ->
                response.status = "captcha" /\ probed = {}
          [] OTHER ->
                /\ probed = {p \in Applies : Limiting(p) /\ \A d \in Decisive : Before(p, d)}
                /\ \A d \in Decisive : response.status \in AnswersOf(Act(d))
                /\ Decisive = {} =>
                    IF Chosen = {} THEN response.status = "not found"
                                   ELSE response.status = "forwarded" /\ response.service \in Chosen
=============================================================================
