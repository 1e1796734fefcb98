--------------------------- MODULE MCHttpListener ---------------------------
(* One listener with two services and up to two rules.  The limiter of a   *)
(* rule matters only if the rule has a limit action.                        *)
EXTENDS HttpListener

MCRule(actions, limiter) == [actions |-> actions, limiter |-> limiter]

MCSimple == {MCRule(<<"block">>, FALSE), MCRule(<<"captcha">>, FALSE),
             MCRule(<<"limit">>, TRUE), MCRule(<<"limit">>, FALSE)}

MCCompound == {MCRule(<<>>, FALSE), MCRule(<<"captcha", "limit">>, TRUE),
               MCRule(<<"limit", "captcha">>, TRUE), MCRule(<<"limit", "block">>, TRUE),
               MCRule(<<"limit", "limit">>, TRUE)}

MCRuleSets == {<<>>} \cup {<<q, r>> : q \in MCSimple, r \in MCSimple \cup MCCompound}
=============================================================================
