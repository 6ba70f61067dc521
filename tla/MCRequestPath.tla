----------------------------- MODULE MCRequestPath -----------------------------
(* Four gateways: a shadow and an enforcing gate; identity providers and      *)
(* transforms without a gate; no plugin but another surface that writes       *)
(* records; no plugin and more changes by the operator.                       *)
EXTENDS RequestPath

(* The collector and its mirror are two sinks under one configured name. *)
MCSinkOrder == <<"ledger", "collector", "mirror">>
MCGating    == {"ledger"}
MCPolicyOf  == [s \in {"ledger", "collector", "mirror"} |->
    IF s = "ledger" THEN "books" ELSE "siem"]

(* What each policy allows and denies. *)
MCAllowActions == [s \in {"ledger", "collector", "mirror"} |->
    IF s = "ledger" THEN {} ELSE {<<<<"mcpg">>, <<>>>>, <<<<"governance">>, <<"warn">>>>}]
MCDenyActions == [s \in {"ledger", "collector", "mirror"} |->
    IF s = "ledger" THEN {<<<<"mcpg", "progress">>, <<>>>>}
                    ELSE {<<<<"mcpg">>, <<"completed">>>>}]

Deployment(identity, transforms, gates, emit, surfaces, maxToggles) ==
    [identity |-> identity, transforms |-> transforms, gates |-> gates,
     emitAllowed |-> emit, emitCompleted |-> emit,
     surfaces |-> surfaces, maxToggles |-> maxToggles]

MCDeployments ==
    {Deployment(<<>>, <<>>, <<"shadow", "pay">>, TRUE, {}, 1),
     Deployment(<<"oidc", "apikey">>, <<"mask", "trim">>, <<>>, FALSE, {}, 1),
     Deployment(<<>>, <<>>, <<>>, TRUE, Surfaces, 1),
     Deployment(<<>>, <<>>, <<>>, TRUE, {}, 3)}

MCOtherEvents == {Event(<<"governance", "quota", "warn">>, "Success", "caller", TRUE)}

(* glob_match decides what a glob means. *)
ASSUME GlobMatchesMeaning ==
    LET Words(n) == UNION {[1..k -> {"a", "b"}] : k \in 0..n}
    IN  \A n \in 1..3 : \A parts \in [1..n -> Words(2)], text \in Words(4) :
            GlobMatch(parts, text) <=> GlobMeans(parts, text)
===============================================================================
