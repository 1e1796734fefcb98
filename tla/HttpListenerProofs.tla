------------------------- MODULE HttpListenerProofs -------------------------
(***************************************************************************)
(* Proofs about module HttpListener, for every set of configurations and   *)
(* every number of services: the handler's two nested loops, with their    *)
(* early returns, compute what AnsweredAsConfigured says without loops.    *)
(*                                                                         *)
(* The invariant of the loops (HandlerInv) is the usual one: everything before   *)
(* the position of the loops has let the request through, and exactly the  *)
(* limiters before it have counted it.                                     *)
(***************************************************************************)
EXTENDS HttpListener, TLAPS

\* Where the loops are, as an action's <<rule, position>>.
Position == <<at.rule, at.action>>

Looping == pc \in {"rules", "actions", "limiting"}

\* The handler's state between two requests and when one is received.
Fresh ==
    /\ pc \in {"idle", "received"} => probed = {} /\ at = [rule |-> 1, action |-> 1]
    /\ pc # "idle" => req \in Requests

\* What Screen lets through, and what it concludes from the cookie.
Screened ==
    Looping =>
        /\ req.user_agent = "ok" /\ ~ req.captcha_path /\ req.cookie # "invalid"
        /\ captcha_verified = (req.cookie = "valid")

\* The loops are at an action of a rule that matches the request.
InLoops ==
    /\ at \in [rule : Nat, action : Nat]
    /\ pc = "rules" => at.action = 1
    /\ pc \in {"actions", "limiting"} => at.rule \in DOMAIN rules /\ req.verdict[at.rule] = "true"
    /\ pc = "limiting" => at.action \in DOMAIN rules[at.rule].actions /\ Limiting(Position)

\* Nothing before the loops' position turns the request away, and the limiters
\* of the limit actions before it, and no others, have counted it.
Passed ==
    Looping =>
        /\ \A p \in Applies : Before(p, Position) => ~ TurnedAwayAt(p)
        /\ probed = {p \in Applies : Limiting(p) /\ Before(p, Position)}

\* The inductive invariant.
HandlerInv == HttpTypeOK /\ Fresh /\ Screened /\ InLoops /\ Passed /\ AnsweredAsConfigured
-----------------------------------------------------------------------------
(* Lemmas about the configuration and the order of its actions. *)

\* The elements of a sequence over S are members of S.
LEMMA SeqElement ==
    ASSUME NEW S, NEW s \in Seq(S), NEW n \in DOMAIN s
    PROVE  s[n] \in S
OBVIOUS

\* A configuration is a sequence of rules; a rule's actions are known ones.
LEMMA RulesFacts ==
    ASSUME rules \in RuleSets
    PROVE  /\ Len(rules) \in Nat /\ DOMAIN rules = 1..Len(rules)
           /\ \A r \in DOMAIN rules :
                /\ rules[r].limiter \in BOOLEAN
                /\ Len(rules[r].actions) \in Nat
                /\ DOMAIN rules[r].actions = 1..Len(rules[r].actions)
                /\ \A a \in DOMAIN rules[r].actions : rules[r].actions[a] \in Actions
<1> DEFINE Rule == [actions : Seq(Actions), limiter : BOOLEAN]
<1>1. rules \in Seq(Rule)
      BY ListenerAssumption
<1>2. \A r \in DOMAIN rules : rules[r] \in Rule
      BY <1>1, SeqElement
<1>3. ASSUME NEW r \in DOMAIN rules
      PROVE  rules[r].actions \in Seq(Actions) /\ rules[r].limiter \in BOOLEAN
      BY <1>2
<1>4. ASSUME NEW r \in DOMAIN rules, NEW a \in DOMAIN rules[r].actions
      PROVE  rules[r].actions[a] \in Actions
      BY <1>3, SeqElement
<1> HIDE DEF Rule
<1> QED BY <1>1, <1>3, <1>4

\* What applies to a request: the actions of the rules that match it.
LEMMA AppliesFacts ==
    ASSUME rules \in RuleSets
    PROVE  \A p : p \in Applies <=>
               \E r \in DOMAIN rules : \E a \in DOMAIN rules[r].actions :
                   req.verdict[r] = "true" /\ p = <<r, a>>
BY DEF Applies

\* Positions of actions that apply are pairs of numbers from 1 on.
LEMMA PositionFacts ==
    ASSUME rules \in RuleSets, NEW p \in Applies
    PROVE  /\ p[1] \in 1..Len(rules) /\ p[1] \in DOMAIN rules
           /\ p[2] \in 1..Len(rules[p[1]].actions)
           /\ p[2] \in DOMAIN rules[p[1]].actions
           /\ req.verdict[p[1]] = "true"
           /\ p = <<p[1], p[2]>>
           /\ Act(p) \in Actions
<1>1. PICK r \in DOMAIN rules : \E a \in DOMAIN rules[r].actions :
            req.verdict[r] = "true" /\ p = <<r, a>>
      BY AppliesFacts
<1>2. PICK a \in DOMAIN rules[r].actions : req.verdict[r] = "true" /\ p = <<r, a>>
      BY <1>1
<1> QED BY <1>2, RulesFacts DEF Act

\* Two actions that apply are the same, or one comes before the other.
LEMMA BeforeIsTotal ==
    ASSUME rules \in RuleSets, NEW p \in Applies, NEW q \in Applies
    PROVE  /\ p = q \/ Before(p, q) \/ Before(q, p)
           /\ ~ (Before(p, q) /\ Before(q, p))
           /\ ~ Before(p, p)
<1>1. /\ p[1] \in Nat /\ p[2] \in Nat /\ p = <<p[1], p[2]>>
      /\ q[1] \in Nat /\ q[2] \in Nat /\ q = <<q[1], q[2]>>
      BY PositionFacts, RulesFacts
<1> QED BY <1>1 DEF Before

-----------------------------------------------------------------------------
(* Where the loops stop. *)

\* The action that turns the request away when nothing before it does is the
\* decisive one, and the limiters counted so far are those before it.
LEMMA DecidedHere ==
    ASSUME HandlerInv, Looping, Position \in Applies, TurnedAwayAt(Position)
    PROVE  /\ Decisive = {Position}
           /\ probed = {p \in Applies : Limiting(p) /\ \A d \in Decisive : Before(p, d)}
<1>1. rules \in RuleSets
      BY DEF HandlerInv, HttpTypeOK
<1>2. \A p \in Applies : Before(p, Position) => ~ TurnedAwayAt(p)
      BY DEF HandlerInv, Passed
<1>3. \A p \in Applies : p = Position \/ Before(p, Position) \/ Before(Position, p)
      BY <1>1, BeforeIsTotal
<1>4. Decisive = {Position}
      BY <1>2, <1>3 DEF Decisive
<1>5. probed = {p \in Applies : Limiting(p) /\ Before(p, Position)}
      BY DEF HandlerInv, Passed
<1> QED BY <1>4, <1>5

\* When the loops end, nothing was decisive and every limiter that applies has counted.
LEMMA NothingDecisive ==
    ASSUME HandlerInv, pc = "rules", at.rule > Len(rules)
    PROVE  /\ Decisive = {}
           /\ probed = {p \in Applies : Limiting(p) /\ \A d \in Decisive : Before(p, d)}
<1>1. rules \in RuleSets /\ Looping /\ at.rule \in Nat
      BY DEF HandlerInv, HttpTypeOK, Looping, InLoops
<1>2. \A p \in Applies : Before(p, Position)
      BY <1>1, PositionFacts, RulesFacts DEF Before, Position
<1>3. \A p \in Applies : ~ TurnedAwayAt(p)
      BY <1>1, <1>2 DEF HandlerInv, Passed
<1>4. Decisive = {}
      BY <1>3 DEF Decisive
<1>5. probed = {p \in Applies : Limiting(p) /\ Before(p, Position)}
      BY <1>1 DEF HandlerInv, Passed
<1> QED BY <1>2, <1>4, <1>5

\* An action that is being done applies to the request.
LEMMA PositionApplies ==
    ASSUME HandlerInv, pc \in {"actions", "limiting"}, at.action <= Len(rules[at.rule].actions)
    PROVE  Position \in Applies
<1>1. /\ rules \in RuleSets /\ at.rule \in DOMAIN rules /\ req.verdict[at.rule] = "true"
      /\ at.action \in Nat /\ at.action >= 1
      BY DEF HandlerInv, HttpTypeOK, InLoops
<1>2. at.action \in DOMAIN rules[at.rule].actions
      BY <1>1, RulesFacts
<1> QED BY <1>1, <1>2, AppliesFacts DEF Position

-----------------------------------------------------------------------------
(* The actions preserve the invariant. *)

\* A step that changes neither the configuration, the request nor the counted
\* limiters changes nothing of what AnsweredAsConfigured reads from them.
LEMMA SameReading ==
    ASSUME UNCHANGED <<rules, req, probed>>
    PROVE  /\ Applies' = Applies /\ Decisive' = Decisive /\ Chosen' = Chosen
           /\ \A p : Act(p)' = Act(p) /\ Limiting(p)' = Limiting(p)
                    /\ TurnedAwayAt(p)' = TurnedAwayAt(p)
BY DEF Applies, Decisive, Chosen, Act, Limiting, TurnedAwayAt

\* An answer at the decisive action is the configured one.
LEMMA AnswerAtPosition ==
    ASSUME HandlerInv, Looping, Position \in Applies, TurnedAwayAt(Position),
           UNCHANGED <<rules, alive, req, captcha_verified, at, probed>>, pc' = "answered",
           response'.status \in AnswersOf(Act(Position)),
           response' \in [status : Statuses, service : 0..NumServices]
    PROVE  HandlerInv'
<1>1. /\ Decisive = {Position}
      /\ probed = {p \in Applies : Limiting(p) /\ \A d \in Decisive : Before(p, d)}
      BY DecidedHere
<1>2. HttpTypeOK'
      BY DEF HandlerInv, HttpTypeOK, Requests, NoRequest
<1>3. Fresh' /\ Screened' /\ InLoops' /\ Passed'
  <2>1. Fresh'
        BY DEF HandlerInv, Fresh, Looping, Requests
  <2>2. InLoops'
        BY DEF HandlerInv, InLoops
  <2> QED BY <2>1, <2>2 DEF Screened, Passed, Looping
<1>4. /\ probed' = {p \in Applies' : Limiting(p)' /\ \A d \in Decisive' : Before(p, d)}
      /\ \A d \in Decisive' : response'.status \in AnswersOf(Act(d)')
      /\ Decisive' # {}
      BY <1>1, SameReading
<1>5. req'.user_agent = "ok" /\ ~ req'.captcha_path /\ req'.cookie # "invalid"
      BY DEF HandlerInv, Screened
<1>6. AnsweredAsConfigured'
      BY <1>4, <1>5 DEF AnsweredAsConfigured
<1> QED BY <1>2, <1>3, <1>6 DEF HandlerInv

\* The loops move on without counting when everything before the new position
\* was before the old one, or is the action they leave, which lets the request through.
LEMMA PassedOn ==
    ASSUME HandlerInv, Looping, UNCHANGED <<rules, req, probed>>,
           \A p \in Applies : Before(p, Position') <=>
                (Before(p, Position) \/ (p = Position /\ ~ TurnedAwayAt(p) /\ ~ Limiting(p)))
    PROVE  Passed'
<1>1. /\ \A p \in Applies : Before(p, Position) => ~ TurnedAwayAt(p)
      /\ probed = {p \in Applies : Limiting(p) /\ Before(p, Position)}
      BY DEF HandlerInv, Passed
<1>2. \A p \in Applies : Before(p, Position') => ~ TurnedAwayAt(p)
      BY <1>1
<1>3. probed = {p \in Applies : Limiting(p) /\ Before(p, Position')}
      BY <1>1
<1>4. \A p : Before(p, Position)' <=> Before(p, Position')
      BY DEF Before
<1> QED BY <1>2, <1>3, <1>4, SameReading DEF Passed

\* The position after an action's: before it is what was before, and that action.
LEMMA AfterAction ==
    ASSUME HandlerInv, Position \in Applies, NextAction
    PROVE  \A p \in Applies : Before(p, Position') <=> (Before(p, Position) \/ p = Position)
<1>1. rules \in RuleSets /\ at \in [rule : Nat, action : Nat]
      BY DEF HandlerInv, HttpTypeOK, InLoops
<1>2. at'.rule = at.rule /\ at'.action = at.action + 1
      BY <1>1 DEF NextAction
<1>3. SUFFICES ASSUME NEW p \in Applies
               PROVE  Before(p, Position') <=> (Before(p, Position) \/ p = Position)
      OBVIOUS
<1>4. p[1] \in Nat /\ p[2] \in Nat /\ p = <<p[1], p[2]>>
      BY <1>1, PositionFacts, RulesFacts
<1> QED BY <1>1, <1>2, <1>4 DEF Before, Position

\* The first position of the next rule, when no action of this one is left or none applies.
LEMMA AfterRule ==
    ASSUME HandlerInv, NextRule, at.rule \in DOMAIN rules,
           \/ req.verdict[at.rule] # "true"
           \/ at.action > Len(rules[at.rule].actions)
    PROVE  \A p \in Applies : Before(p, Position') <=> Before(p, Position)
<1>1. rules \in RuleSets /\ at \in [rule : Nat, action : Nat]
      BY DEF HandlerInv, HttpTypeOK, InLoops
<1>2. at'.rule = at.rule + 1 /\ at'.action = 1
      BY <1>1 DEF NextRule
<1>3. SUFFICES ASSUME NEW p \in Applies
               PROVE  Before(p, Position') <=> Before(p, Position)
      OBVIOUS
<1>4. /\ p[1] \in Nat /\ p[2] \in 1..Len(rules[p[1]].actions)
      /\ req.verdict[p[1]] = "true" /\ p[1] \in DOMAIN rules
      BY <1>1, PositionFacts, RulesFacts
<1>5. Len(rules[p[1]].actions) \in Nat /\ Len(rules[at.rule].actions) \in Nat
      BY <1>1, <1>4, RulesFacts
<1> QED BY <1>1, <1>2, <1>4, <1>5 DEF Before, Position

\* Initially.
LEMMA HandlerInit == HttpInit => HandlerInv
<1>1. SUFFICES ASSUME HttpInit PROVE HandlerInv
      OBVIOUS
<1>2. rules \in RuleSets /\ at = [rule |-> 1, action |-> 1] /\ pc = "idle"
      BY <1>1 DEF HttpInit
<1>3. at.rule \in 1..Len(rules) + 1
      BY <1>2, RulesFacts
<1>4. at.action \in 1..(IF at.rule <= Len(rules) THEN Len(rules[at.rule].actions) + 1 ELSE 1)
      BY <1>2, RulesFacts
<1>5. response \in [status : Statuses, service : 0..NumServices]
      BY <1>1, ListenerAssumption DEF HttpInit, NoResponse, Statuses
<1>6. HttpTypeOK
      BY <1>1, <1>3, <1>4, <1>5 DEF HttpInit, HttpTypeOK
<1>7. Fresh /\ Screened /\ InLoops /\ Passed /\ AnsweredAsConfigured
      BY <1>1 DEF HttpInit, Fresh, Screened, InLoops, Passed, AnsweredAsConfigured, Looping
<1> QED BY <1>6, <1>7 DEF HandlerInv

\* Every step of the loops to a next action keeps the invariant, given Passed'.
LEMMA NextActionPreserves ==
    ASSUME HandlerInv, pc \in {"actions", "limiting"}, at.action \in DOMAIN rules[at.rule].actions,
           NextAction, UNCHANGED <<rules, alive, req, captcha_verified, response>>, Passed',
           probed' \subseteq probed \cup {Position}
    PROVE  HandlerInv'
<1>1. /\ rules \in RuleSets /\ at \in [rule : Nat, action : Nat]
      /\ at.rule \in DOMAIN rules /\ req.verdict[at.rule] = "true" /\ Looping
      BY DEF HandlerInv, HttpTypeOK, InLoops, Looping
<1>2. /\ at' \in [rule : Nat, action : Nat] /\ at'.rule = at.rule /\ at'.action = at.action + 1
      /\ pc' = "actions"
      BY <1>1 DEF NextAction
<1>3. Len(rules) \in Nat /\ DOMAIN rules = 1..Len(rules) /\ Len(rules[at.rule].actions) \in Nat
      /\ DOMAIN rules[at.rule].actions = 1..Len(rules[at.rule].actions)
      BY <1>1, RulesFacts
<1>4. /\ at'.rule \in 1..Len(rules') + 1
      /\ at'.action \in 1..(IF at'.rule <= Len(rules') THEN Len(rules'[at'.rule].actions) + 1 ELSE 1)
      BY <1>1, <1>2, <1>3
<1>5. Position \in UNION {{r} \X DOMAIN rules[r].actions : r \in DOMAIN rules}
      BY <1>1 DEF Position
<1>6. probed' \subseteq UNION {{r} \X DOMAIN rules'[r].actions : r \in DOMAIN rules'}
      BY <1>5 DEF HandlerInv, HttpTypeOK
<1>7. HttpTypeOK'
      BY <1>2, <1>4, <1>6 DEF HandlerInv, HttpTypeOK, Requests, NoRequest
<1>8. Fresh'
      BY <1>1, <1>2 DEF HandlerInv, Fresh, Requests, Looping
<1>9. Screened'
      BY <1>1, <1>2 DEF HandlerInv, Screened, Looping
<1>10. InLoops' /\ AnsweredAsConfigured'
      BY <1>1, <1>2 DEF InLoops, AnsweredAsConfigured
<1> QED BY <1>7, <1>8, <1>9, <1>10 DEF HandlerInv

\* Every step of the loops to the next rule keeps the invariant.
LEMMA NextRulePreserves ==
    ASSUME HandlerInv, Looping, NextRule, at.rule \in DOMAIN rules,
           UNCHANGED <<rules, alive, req, captcha_verified, response, probed>>,
           \/ req.verdict[at.rule] # "true"
           \/ at.action > Len(rules[at.rule].actions)
    PROVE  HandlerInv'
<1>1. rules \in RuleSets /\ at \in [rule : Nat, action : Nat]
      BY DEF HandlerInv, HttpTypeOK, InLoops
<1>2. /\ at' \in [rule : Nat, action : Nat] /\ at'.rule = at.rule + 1 /\ at'.action = 1
      /\ pc' = "rules"
      BY <1>1 DEF NextRule
<1>3. /\ Len(rules) \in Nat /\ DOMAIN rules = 1..Len(rules)
      /\ \A r \in DOMAIN rules : Len(rules[r].actions) \in Nat
      BY <1>1, RulesFacts
<1>4. /\ at'.rule \in 1..Len(rules') + 1
      /\ at'.action \in 1..(IF at'.rule <= Len(rules') THEN Len(rules'[at'.rule].actions) + 1 ELSE 1)
      BY <1>1, <1>2, <1>3
<1>5. HttpTypeOK'
      BY <1>2, <1>4 DEF HandlerInv, HttpTypeOK, Requests, NoRequest
<1>6. Fresh'
      BY <1>2 DEF HandlerInv, Fresh, Requests, Looping
<1>7. Screened'
      BY <1>2 DEF HandlerInv, Screened, Looping
<1>8. InLoops' /\ AnsweredAsConfigured'
      BY <1>2 DEF InLoops, AnsweredAsConfigured
<1>9. Passed'
  <2>1. \A p \in Applies : Before(p, Position') <=> Before(p, Position)
        BY AfterRule
  <2>2. Position \notin Applies
    <3>1. SUFFICES ASSUME Position \in Applies PROVE FALSE
          OBVIOUS
    <3>2. /\ req.verdict[Position[1]] = "true"
          /\ Position[2] \in 1..Len(rules[Position[1]].actions)
          BY <1>1, <3>1, PositionFacts
    <3>3. req.verdict[at.rule] = "true" /\ at.action \in 1..Len(rules[at.rule].actions)
          BY <3>2 DEF Position
    <3> QED BY <1>1, <1>3, <3>3
  <2> QED BY <2>1, <2>2, PassedOn
<1> QED BY <1>5, <1>6, <1>7, <1>8, <1>9 DEF HandlerInv

\* A step that changes only whether the limiters run, or nothing.
LEMMA OutsidePreserves ==
    ASSUME HandlerInv, alive' \in BOOLEAN,
           UNCHANGED <<rules, pc, req, captcha_verified, at, response, probed>>
    PROVE  HandlerInv'
<1>1. HttpTypeOK'
      BY DEF HandlerInv, HttpTypeOK, Requests, NoRequest
<1>2. Fresh' /\ Screened' /\ InLoops'
      BY DEF HandlerInv, Fresh, Screened, InLoops, Requests, Looping, Limiting, Act, Position
<1>3. Passed'
      BY SameReading DEF HandlerInv, Passed, Looping, Position, Before
<1>4. AnsweredAsConfigured'
      BY SameReading DEF HandlerInv, AnsweredAsConfigured, Before
<1> QED BY <1>1, <1>2, <1>3, <1>4 DEF HandlerInv

\* A request arrives.
LEMMA ReceivePreserves == HandlerInv /\ Receive => HandlerInv'
<1>1. SUFFICES ASSUME HandlerInv, Receive PROVE HandlerInv'
      OBVIOUS
<1>2. req' \in Requests'
      BY <1>1 DEF Receive, Requests
<1>3. HttpTypeOK'
      BY <1>1, <1>2 DEF HandlerInv, HttpTypeOK, Receive
<1>4. Fresh' /\ Screened' /\ InLoops' /\ Passed' /\ AnsweredAsConfigured'
      BY <1>1, <1>2 DEF HandlerInv, Receive, Fresh, Screened, InLoops, Passed,
                        AnsweredAsConfigured, Looping
<1> QED BY <1>3, <1>4 DEF HandlerInv

\* The response is sent.
LEMMA SentPreserves == HandlerInv /\ Sent => HandlerInv'
<1>1. SUFFICES ASSUME HandlerInv, Sent PROVE HandlerInv'
      OBVIOUS
<1>2. /\ rules \in RuleSets /\ rules' = rules /\ at' = [rule |-> 1, action |-> 1]
      /\ pc' = "idle"
      BY <1>1 DEF HandlerInv, HttpTypeOK, Sent
<1>3. /\ at'.rule \in 1..Len(rules') + 1
      /\ at'.action \in 1..(IF at'.rule <= Len(rules') THEN Len(rules'[at'.rule].actions) + 1 ELSE 1)
      BY <1>2, RulesFacts
<1>4. response' \in [status : Statuses, service : 0..NumServices]
      BY <1>1, ListenerAssumption DEF Sent, NoResponse, Statuses
<1>5. HttpTypeOK'
      BY <1>1, <1>2, <1>3, <1>4 DEF HandlerInv, HttpTypeOK, Sent, NoRequest
<1>6. Fresh' /\ Screened' /\ InLoops' /\ Passed' /\ AnsweredAsConfigured'
      BY <1>1, <1>2 DEF Sent, Fresh, Screened, InLoops, Passed, AnsweredAsConfigured, Looping
<1> QED BY <1>5, <1>6 DEF HandlerInv

\* What Respond does.
LEMMA RespondFacts ==
    ASSUME NEW status \in Statuses, Respond(status)
    PROVE  /\ response' \in [status : Statuses, service : 0..NumServices]
           /\ response'.status = status /\ pc' = "answered"
BY ListenerAssumption DEF Respond

\* The checks before the rules.
LEMMA ScreenPreserves == HandlerInv /\ Screen => HandlerInv'
<1>1. SUFFICES ASSUME HandlerInv, Screen PROVE HandlerInv'
      OBVIOUS
<1>2. /\ pc = "received" /\ UNCHANGED <<rules, alive, req, at, probed>>
      /\ captcha_verified' = (req.cookie = "valid" /\ HasUserAgent /\ ~ req.captcha_path)
      BY <1>1 DEF Screen
<1>3. /\ rules \in RuleSets /\ req \in Requests /\ probed = {} /\ at = [rule |-> 1, action |-> 1]
      BY <1>1, <1>2 DEF HandlerInv, HttpTypeOK, Fresh
<1>4. /\ req.captcha_path \in BOOLEAN
      /\ \/ ~ HasUserAgent /\ Respond("blocked")
         \/ HasUserAgent /\ req.captcha_path /\ Respond("captcha api")
         \/ HasUserAgent /\ ~ req.captcha_path /\ req.cookie = "invalid" /\ Respond("captcha")
         \/ /\ HasUserAgent /\ ~ req.captcha_path /\ req.cookie # "invalid"
            /\ pc' = "rules" /\ UNCHANGED response
  <2>1. req.captcha_path \in BOOLEAN
        BY <1>3 DEF Requests
  <2>2. CASE ~ HasUserAgent
        BY <1>1, <2>1, <2>2 DEF Screen
  <2>3. CASE HasUserAgent /\ req.captcha_path
        BY <1>1, <2>1, <2>3 DEF Screen
  <2>4. CASE HasUserAgent /\ ~ req.captcha_path /\ req.cookie = "invalid"
        BY <1>1, <2>1, <2>4 DEF Screen
  <2>5. CASE HasUserAgent /\ ~ req.captcha_path /\ req.cookie # "invalid"
        BY <1>1, <2>1, <2>5 DEF Screen
  <2> QED BY <2>1, <2>2, <2>3, <2>4, <2>5
<1>5. captcha_verified' \in BOOLEAN
      BY <1>2
<1>6. pc' \in {"rules", "answered"} /\ response' \in [status : Statuses, service : 0..NumServices]
  <2>1. response \in [status : Statuses, service : 0..NumServices]
        BY <1>1 DEF HandlerInv, HttpTypeOK
  <2>2. {"blocked", "captcha api", "captcha"} \subseteq Statuses
        BY DEF Statuses
  <2> QED BY <1>4, <2>1, <2>2, RespondFacts
<1>7. HttpTypeOK'
      BY <1>1, <1>2, <1>5, <1>6 DEF HandlerInv, HttpTypeOK, Requests, NoRequest
<1>8. Fresh' /\ InLoops'
      BY <1>2, <1>3, <1>6 DEF Fresh, InLoops, Requests
<1>9. Screened'
      BY <1>2, <1>4, <1>6 DEF Screened, Looping, HasUserAgent, Respond
<1>10. Passed'
  <2>1. \A p \in Applies' : ~ Before(p, Position)'
    <3>1. SUFFICES ASSUME NEW p \in Applies PROVE ~ Before(p, <<1, 1>>)
          BY <1>2, <1>3, SameReading DEF Position, Before
    <3>2. p[1] \in 1..Len(rules) /\ p[2] \in 1..Len(rules[p[1]].actions)
          BY <1>3, PositionFacts
    <3> QED BY <3>2 DEF Before
  <2> QED BY <1>2, <1>3, <2>1 DEF Passed
<1>11. AnsweredAsConfigured'
  <2>1. {"blocked", "captcha api", "captcha"} \subseteq Statuses
        BY DEF Statuses
  <2>2. CASE ~ HasUserAgent /\ Respond("blocked")
        BY <1>2, <1>3, <2>1, <2>2, RespondFacts DEF AnsweredAsConfigured, HasUserAgent
  <2>3. CASE HasUserAgent /\ req.captcha_path /\ Respond("captcha api")
        BY <1>2, <1>3, <2>1, <2>3, RespondFacts DEF AnsweredAsConfigured, HasUserAgent
  <2>4. CASE HasUserAgent /\ ~ req.captcha_path /\ req.cookie = "invalid" /\ Respond("captcha")
        BY <1>2, <1>3, <2>1, <2>4, RespondFacts DEF AnsweredAsConfigured, HasUserAgent
  <2>5. CASE pc' = "rules"
        BY <2>5 DEF AnsweredAsConfigured
  <2> QED BY <1>4, <2>2, <2>3, <2>4, <2>5
<1> QED BY <1>7, <1>8, <1>9, <1>10, <1>11 DEF HandlerInv

\* The outer loop evaluates the next rule.
LEMMA MatchRulePreserves == HandlerInv /\ MatchRule => HandlerInv'
<1>1. SUFFICES ASSUME HandlerInv, MatchRule PROVE HandlerInv'
      OBVIOUS
<1>2. /\ pc = "rules" /\ at.rule <= Len(rules) /\ Looping
      /\ UNCHANGED <<rules, alive, req, captcha_verified, response, probed>>
      BY <1>1 DEF MatchRule, Looping
<1>3. rules \in RuleSets /\ at \in [rule : Nat, action : Nat] /\ at.rule \in DOMAIN rules
      BY <1>1, <1>2, RulesFacts DEF HandlerInv, HttpTypeOK, InLoops
<1>4. CASE req.verdict[at.rule] = "true"
  <2>1. pc' = "actions" /\ at' = at
        BY <1>1, <1>4 DEF MatchRule, match_request
  <2>2. HttpTypeOK' /\ Fresh' /\ Screened' /\ InLoops'
    <3>1. HttpTypeOK'
          BY <1>1, <1>2, <2>1 DEF HandlerInv, HttpTypeOK, Requests, NoRequest
    <3>2. Fresh' /\ Screened'
          BY <1>1, <1>2, <2>1 DEF HandlerInv, Fresh, Screened, Looping, Requests
    <3>3. InLoops'
          BY <1>2, <1>3, <1>4, <2>1 DEF InLoops
    <3> QED BY <3>1, <3>2, <3>3
  <2>3. Passed'
        BY <1>1, <1>2, <2>1, SameReading DEF HandlerInv, Passed, Position, Before
  <2> QED BY <2>1, <2>2, <2>3 DEF HandlerInv, AnsweredAsConfigured
<1>5. CASE req.verdict[at.rule] # "true"
  <2>1. NextRule
        BY <1>1, <1>5 DEF MatchRule, match_request
  <2> QED BY <1>1, <1>2, <1>3, <1>5, <2>1, NextRulePreserves
<1> QED BY <1>4, <1>5

\* The inner loop ends.
LEMMA ActionsDonePreserves == HandlerInv /\ ActionsDone => HandlerInv'
<1>1. SUFFICES ASSUME HandlerInv, ActionsDone PROVE HandlerInv'
      OBVIOUS
<1>2. /\ Looping /\ NextRule /\ at.action > Len(rules[at.rule].actions) /\ at.rule \in DOMAIN rules
      /\ UNCHANGED <<rules, alive, req, captcha_verified, response, probed>>
      BY <1>1 DEF ActionsDone, Looping, HandlerInv, InLoops
<1> QED BY <1>1, <1>2, NextRulePreserves

\* What the inner loop is doing.
LEMMA DoingFacts ==
    ASSUME HandlerInv, NEW action \in Actions, Doing(action)
    PROVE  /\ Looping /\ pc = "actions" /\ Position \in Applies /\ Act(Position) = action
           /\ at.rule \in DOMAIN rules /\ at.action \in DOMAIN rules[at.rule].actions
<1>1. /\ pc = "actions" /\ at.action <= Len(rules[at.rule].actions) /\ Looping
      /\ rules[at.rule].actions[at.action] = action /\ rules \in RuleSets
      BY DEF Doing, Looping, HandlerInv, HttpTypeOK
<1>2. Position \in Applies
      BY <1>1, PositionApplies
<1>3. at.rule \in DOMAIN rules /\ at.action \in DOMAIN rules[at.rule].actions
      BY <1>1, <1>2, PositionFacts DEF Position
<1> QED BY <1>1, <1>2, <1>3 DEF Act, Position

\* A block action.
LEMMA BlockPreserves == HandlerInv /\ Block => HandlerInv'
<1>1. SUFFICES ASSUME HandlerInv, Block PROVE HandlerInv'
      OBVIOUS
<1>2. /\ Doing("block") /\ Respond("blocked")
      /\ UNCHANGED <<rules, alive, req, captcha_verified, at, probed>>
      BY <1>1 DEF Block
<1>3. Looping /\ Position \in Applies /\ Act(Position) = "block"
      BY <1>1, <1>2, DoingFacts DEF Actions
<1>4. TurnedAwayAt(Position)
      BY <1>3 DEF TurnedAwayAt
<1>5. /\ response'.status \in AnswersOf(Act(Position)) /\ pc' = "answered"
      /\ response' \in [status : Statuses, service : 0..NumServices]
      BY <1>2, <1>3, ListenerAssumption DEF Respond, AnswersOf, Statuses
<1> QED BY <1>1, <1>2, <1>3, <1>4, <1>5, AnswerAtPosition

\* A captcha action: passed by a client that was verified, an answer otherwise.
LEMMA ServeCaptchaPreserves == HandlerInv /\ ServeCaptcha => HandlerInv'
<1>1. SUFFICES ASSUME HandlerInv, ServeCaptcha PROVE HandlerInv'
      OBVIOUS
<1>2. Doing("captcha") /\ UNCHANGED <<rules, alive, req, captcha_verified, probed>>
      BY <1>1 DEF ServeCaptcha
<1>3. /\ Looping /\ pc = "actions" /\ Position \in Applies /\ Act(Position) = "captcha"
      /\ at.action \in DOMAIN rules[at.rule].actions
      BY <1>1, <1>2, DoingFacts DEF Actions
<1>4. captcha_verified = (req.cookie = "valid")
      BY <1>1, <1>3 DEF HandlerInv, Screened
<1>5. CASE req.cookie = "valid"
  <2>1. NextAction /\ UNCHANGED response
        BY <1>1, <1>4, <1>5 DEF ServeCaptcha
  <2>2. ~ TurnedAwayAt(Position) /\ ~ Limiting(Position)
        BY <1>3, <1>5 DEF TurnedAwayAt, Limiting
  <2>3. \A p \in Applies : Before(p, Position') <=> (Before(p, Position) \/ p = Position)
        BY <1>1, <1>3, <2>1, AfterAction
  <2>4. Passed'
        BY <1>1, <1>2, <1>3, <2>2, <2>3, PassedOn
  <2> QED BY <1>1, <1>2, <1>3, <2>1, <2>4, NextActionPreserves
<1>6. CASE req.cookie # "valid"
  <2>1. Respond("captcha") /\ at' = at
        BY <1>1, <1>4, <1>6 DEF ServeCaptcha
  <2>2. TurnedAwayAt(Position)
        BY <1>3, <1>6 DEF TurnedAwayAt
  <2>3. /\ response'.status \in AnswersOf(Act(Position)) /\ pc' = "answered"
        /\ response' \in [status : Statuses, service : 0..NumServices]
        BY <1>3, <2>1, ListenerAssumption DEF Respond, AnswersOf, Statuses
  <2> QED BY <1>1, <1>2, <1>3, <2>1, <2>2, <2>3, AnswerAtPosition
<1> QED BY <1>5, <1>6

\* A limit action asks the rule's limiter, if the rule has one.
LEMMA LimitPreserves == HandlerInv /\ Limit => HandlerInv'
<1>1. SUFFICES ASSUME HandlerInv, Limit PROVE HandlerInv'
      OBVIOUS
<1>2. Doing("limit") /\ UNCHANGED <<rules, alive, req, captcha_verified, response, probed>>
      BY <1>1 DEF Limit
<1>3. /\ Looping /\ pc = "actions" /\ Position \in Applies /\ Act(Position) = "limit"
      /\ at.rule \in DOMAIN rules /\ at.action \in DOMAIN rules[at.rule].actions
      BY <1>1, <1>2, DoingFacts DEF Actions
<1>4. CASE rules[at.rule].limiter
  <2>1. pc' = "limiting" /\ at' = at
        BY <1>1, <1>4 DEF Limit
  <2>2. Limiting(Position)
        BY <1>3, <1>4 DEF Limiting, Position
  <2>3. HttpTypeOK'
        BY <1>1, <1>2, <2>1 DEF HandlerInv, HttpTypeOK, Requests, NoRequest
  <2>4. Fresh' /\ Screened'
        BY <1>1, <1>2, <1>3, <2>1 DEF HandlerInv, Fresh, Screened, Looping, Requests
  <2>5. Limiting(Position)'
        BY <1>2, <2>1, <2>2 DEF Limiting, Act, Position
  <2>6. InLoops'
        BY <1>1, <1>2, <1>3, <2>1, <2>5 DEF HandlerInv, InLoops
  <2>7. Passed'
        BY <1>1, <1>2, <1>3, <2>1, SameReading DEF HandlerInv, Passed, Position, Before
  <2> QED BY <2>1, <2>3, <2>4, <2>6, <2>7 DEF HandlerInv, AnsweredAsConfigured
<1>5. CASE ~ rules[at.rule].limiter
  <2>1. NextAction
        BY <1>1, <1>5 DEF Limit
  <2>2. ~ TurnedAwayAt(Position) /\ ~ Limiting(Position)
        BY <1>3, <1>5 DEF TurnedAwayAt, Limiting, Position
  <2>3. \A p \in Applies : Before(p, Position') <=> (Before(p, Position) \/ p = Position)
        BY <1>1, <1>3, <2>1, AfterAction
  <2>4. Passed'
        BY <1>1, <1>2, <1>3, <2>2, <2>3, PassedOn
  <2> QED BY <1>1, <1>2, <1>3, <2>1, <2>4, NextActionPreserves
<1> QED BY <1>4, <1>5

\* The limiter counts the request and lets it go on, or it is turned away.
LEMMA LimitHttpRequestPreserves == HandlerInv /\ limit_http_request => HandlerInv'
<1>1. SUFFICES ASSUME HandlerInv, limit_http_request PROVE HandlerInv'
      OBVIOUS
<1>2. pc = "limiting" /\ Looping /\ UNCHANGED <<rules, alive, req, captcha_verified>>
      BY <1>1 DEF limit_http_request, Looping
<1>3. /\ rules \in RuleSets /\ at.rule \in DOMAIN rules
      /\ at.action \in DOMAIN rules[at.rule].actions /\ Limiting(Position)
      BY <1>1, <1>2 DEF HandlerInv, HttpTypeOK, InLoops
<1>4. Position \in Applies
      BY <1>1, <1>2, <1>3, RulesFacts, PositionApplies
<1>5. Passed /\ ~ Before(Position, Position)
      BY <1>1, <1>3, <1>4, BeforeIsTotal DEF HandlerInv
<1>6. CASE NextAction /\ probed' = probed \cup {<<at.rule, at.action>>} /\ UNCHANGED response
  <2>1. \A p \in Applies : Before(p, Position') <=> (Before(p, Position) \/ p = Position)
        BY <1>1, <1>4, <1>6, AfterAction
  <2>2. probed' = probed \cup {Position}
        BY <1>6 DEF Position
  <2>3. Applies' = Applies /\ (\A p : Act(p)' = Act(p)) /\ (\A p : Limiting(p)' = Limiting(p))
        BY <1>2 DEF Applies, Act, Limiting
  <2>4. probed' = {p \in Applies : Limiting(p) /\ Before(p, Position')}
        BY <1>2, <1>3, <1>4, <1>5, <2>1, <2>2 DEF Passed
  <2>5. ASSUME NEW p \in Applies, Before(p, Position')
        PROVE  ~ TurnedAwayAt(p)'
    <3>1. CASE p = Position
      <4>1. Act(p) = "limit" /\ p \in probed'
            BY <1>3, <2>2, <3>1 DEF Limiting
      <4> QED BY <2>3, <4>1 DEF TurnedAwayAt
    <3>2. CASE Before(p, Position)
      <4>1. ~ TurnedAwayAt(p)
            BY <1>2, <1>5, <3>2 DEF Passed
      <4> QED BY <1>2, <2>2, <2>3, <4>1 DEF TurnedAwayAt
    <3> QED BY <2>1, <2>5, <3>1, <3>2
  <2>6. \A p : Before(p, Position)' <=> Before(p, Position')
        BY DEF Before
  <2>7. Passed'
        BY <2>3, <2>4, <2>5, <2>6 DEF Passed
  <2> QED BY <1>1, <1>2, <1>3, <1>6, <2>2, <2>7, NextActionPreserves
<1>7. ASSUME NEW status \in {"429", "503", "500"}, Respond(status), UNCHANGED <<at, probed>>
      PROVE  HandlerInv'
  <2>1. TurnedAwayAt(Position) /\ Act(Position) = "limit"
        BY <1>2, <1>3, <1>5 DEF TurnedAwayAt, Passed, Limiting
  <2>2. status \in AnswersOf(Act(Position)) /\ status \in Statuses
        BY <2>1 DEF AnswersOf, Statuses
  <2> QED BY <1>1, <1>2, <1>4, <1>7, <2>1, <2>2, RespondFacts, AnswerAtPosition
<1> QED BY <1>1, <1>6, <1>7 DEF limit_http_request

\* After the last rule: the first service whose route matches, or not found.
LEMMA RoutePreserves == HandlerInv /\ Route => HandlerInv'
<1>1. SUFFICES ASSUME HandlerInv, Route PROVE HandlerInv'
      OBVIOUS
<1> DEFINE matching == {s \in 1..NumServices : match_request(req.route[s])}
<1>2. /\ pc = "rules" /\ at.rule > Len(rules) /\ Looping
      /\ UNCHANGED <<rules, alive, req, captcha_verified, at, probed>>
      BY <1>1 DEF Route, Looping
<1>3. /\ Decisive = {}
      /\ probed = {p \in Applies : Limiting(p) /\ \A d \in Decisive : Before(p, d)}
      BY <1>1, <1>2, NothingDecisive
<1>4. /\ pc' = "answered" /\ response' \in [status : Statuses, service : 0..NumServices]
      /\ IF Chosen = {} THEN response'.status = "not found"
                        ELSE response'.status = "forwarded" /\ response'.service \in Chosen
  <2>1. CASE matching = {}
    <3>1. Respond("not found") /\ "not found" \in Statuses
          BY <1>1, <2>1 DEF Route, Statuses
    <3>2. Chosen = {}
          BY <2>1 DEF Chosen, match_request
    <3> QED BY <3>1, <3>2, RespondFacts
  <2>2. CASE matching # {}
    <3>1. PICK s \in matching : (\A o \in matching : s <= o) /\ Forward(s)
          BY <1>1, <2>2 DEF Route
    <3>2. \A o \in 1..(s - 1) : o \in 1..NumServices /\ ~ (s <= o)
          BY ListenerAssumption
    <3>3. s \in Chosen
          BY <3>1, <3>2 DEF Chosen, match_request
    <3>4. /\ pc' = "answered" /\ response' \in [status : Statuses, service : 0..NumServices]
          /\ response'.status = "forwarded" /\ response'.service = s
          BY ListenerAssumption, <3>1 DEF Forward, Statuses
    <3> QED BY <3>3, <3>4
  <2> QED BY <2>1, <2>2
<1>5. HttpTypeOK'
      BY <1>1, <1>2, <1>4 DEF HandlerInv, HttpTypeOK, Requests, NoRequest
<1>6. Fresh' /\ InLoops' /\ Screened' /\ Passed'
  <2>1. Fresh' /\ InLoops'
        BY <1>1, <1>2, <1>4 DEF HandlerInv, Fresh, InLoops, Requests
  <2> QED BY <1>4, <2>1 DEF Screened, Passed, Looping
<1>7. req'.user_agent = "ok" /\ ~ req'.captcha_path /\ req'.cookie # "invalid"
      BY <1>1, <1>2 DEF HandlerInv, Screened
<1>8. /\ probed' = {p \in Applies' : Limiting(p)' /\ \A d \in Decisive' : Before(p, d)}
      /\ Decisive' = {} /\ Chosen' = Chosen
      BY <1>2, <1>3, SameReading
<1>9. AnsweredAsConfigured'
      BY <1>4, <1>7, <1>8 DEF AnsweredAsConfigured
<1> QED BY <1>5, <1>6, <1>9 DEF HandlerInv

-----------------------------------------------------------------------------
(* Theorems *)

\* The invariant of the loops holds in every state: nothing before their
\* position has turned the request away, and exactly the limiters before it
\* have counted the request.
THEOREM HandlerInvariant == HttpSpec => []HandlerInv
<1>1. HandlerInv /\ [HttpNext]_httpVars => HandlerInv'
  <2>1. SUFFICES ASSUME HandlerInv, [HttpNext]_httpVars PROVE HandlerInv'
        OBVIOUS
  <2>2. CASE Handle
        BY <2>1, <2>2, ScreenPreserves, MatchRulePreserves, ActionsDonePreserves, BlockPreserves,
           ServeCaptchaPreserves, LimitPreserves, LimitHttpRequestPreserves, RoutePreserves DEF Handle
  <2>3. CASE Receive
        BY <2>1, <2>3, ReceivePreserves
  <2>4. CASE Sent
        BY <2>1, <2>4, SentPreserves
  <2>5. CASE LimitersStop
        BY <2>1, <2>5, OutsidePreserves DEF LimitersStop
  <2>6. CASE UNCHANGED httpVars
        BY <2>1, <2>6, OutsidePreserves DEF httpVars, HandlerInv, HttpTypeOK
  <2> QED BY <2>1, <2>2, <2>3, <2>4, <2>5, <2>6 DEF HttpNext
<1> QED BY <1>1, HandlerInit, PTL DEF HttpSpec

\* Every variable keeps its type, and the loops' position never runs past the
\* rules and their actions, whatever the configuration.
THEOREM HandlerTypeCorrect == HttpSpec => []HttpTypeOK
<1>1. HandlerInv => HttpTypeOK
      BY DEF HandlerInv
<1> QED BY <1>1, HandlerInvariant, PTL

\* serve_http_requests answers as the configuration says, read without its
\* loops, for every list of rules, of actions and of services: the first
\* action that turns the request away, else the first service that matches;
\* and exactly the limiters before that action have counted the request.
THEOREM AnswersFollowConfiguration == HttpSpec => []AnsweredAsConfigured
<1>1. HandlerInv => AnsweredAsConfigured
      BY DEF HandlerInv
<1> QED BY <1>1, HandlerInvariant, PTL
=============================================================================
