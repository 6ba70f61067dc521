----------------------------- MODULE MCPluginHost ------------------------------
(* Three kinds of deployment: a native plugin's load under every policy while *)
(* its path is rewritten, its calls and handles for every class, and a boot   *)
(* of first-party plugins whose aliases, ids and schemes collide.             *)
EXTENDS PluginHost

MCArtifacts == {"release", "patched", "stranger"}
MCSignedBy  == [release |-> {"vendor"}, patched |-> {"vendor", "mirror"}, stranger |-> {}]

NoList       == [version |-> 1, entries |-> <<>>]
Revoking(a)  == [version |-> 1, entries |-> <<[hash |-> a, reason |-> TRUE]>>]
TwiceListed  == [version |-> 1, entries |-> <<[hash |-> "patched", reason |-> TRUE],
                                              [hash |-> "patched", reason |-> TRUE]>>]

Plugin(class, id, alias, keys) ==
    [class |-> class, id |-> id, alias |-> alias, keys |-> keys, provides |-> {},
     valid |-> TRUE, native |-> FALSE, state |-> "Active", anyKey |-> FALSE,
     routes |-> {"relative"}, override |-> FALSE, declaresServe |-> FALSE,
     schema |-> TRUE, requires |-> {}, granted |-> {}]

NativePlugin(class) ==
    [Plugin(class, "native", "native", <<"n">>) EXCEPT !.native = TRUE]

Register(e)          == [do |-> "register", entry |-> e]
FirstParty(e)        == [do |-> "firstparty", entry |-> e]
BindTo(class, k, id) == [do |-> "bind", class |-> class, key |-> k, id |-> id]
BindAll(class)       == [do |-> "autobind", class |-> class]
Load                 == [do |-> "native"]

AnyOptions == [pin |-> "none", policy |-> "Disabled", keys |-> {}, list |-> NoList]

Host(boot, native, options, artifact, rt, callers, swaps, toggles) ==
    [boot |-> boot, native |-> native, options |-> options, artifact |-> artifact,
     probed |-> swaps = 0, rt |-> rt, callers |-> callers, swaps |-> swaps,
     toggles |-> toggles, slots |-> SlotsOf[native.class], asks |-> FALSE]

Workers == [inline |-> FALSE, multi |-> TRUE, workers |-> 2]
Inline  == [inline |-> TRUE, multi |-> FALSE, workers |-> 1]
Mixed   == [inline |-> TRUE, multi |-> TRUE, workers |-> 1]

Loads ==
    {Host({Load}, NativePlugin("secret_provider"),
          [pin |-> p, policy |-> s, keys |-> k, list |-> l], a, Workers, {}, 2, 0) :
        p \in {"none", "release"}, s \in SignaturePolicies, k \in {{}, {"vendor"}, {"mirror"}},
        l \in {NoList, Revoking("patched"), TwiceListed}, a \in {"release", "stranger"}}

Calls(classes, rt, callers) ==
    {Host({Load}, NativePlugin(class), AnyOptions, "release", rt, callers, 0, 0) :
        class \in classes}

(* Two callers where one may go through the other's handle. *)
Shared == {"cluster", "transport", "watch_strategy"}

(* Two calls of a backend that hands identities back: on threads of their    *)
(* own, and with one worker that may be inside one of them.                  *)
Relay(slots, rt) ==
    [Host({Load}, NativePlugin("backend"), AnyOptions, "release", rt, Callers, 0, 0)
        EXCEPT !.slots = slots, !.asks = TRUE]

Relays == {Relay({BackendExecute, ExecuteStreaming}, Workers),
           Relay({BackendExecute, InputSchema}, Mixed)}

Boots ==
    {Host({Register(Plugin("secret_provider", "vault", "v1", <<"vault", "env">>)),
           Register(Plugin("config_provider", "cfg", "c1", <<"file", "git">>)),
           Register(Plugin("config_provider", "cfg", "c2", <<"s3">>)),
           Register(Plugin("transform", "mask", "v1", <<>>)),
           BindTo("secret_provider", "env", "builtin"),
           FirstParty(Plugin("secret_provider", "builtin", "b1", <<"env">>)),
           BindAll("secret_provider"), BindAll("config_provider")},
          NativePlugin("cache"), AnyOptions, "release", Workers, {}, 0, 0),
     Host({Register(Plugin("store", "pg", "s1", <<"jobs", "audit">>)),
           Register(Plugin("store", "pg", "s2", <<"blobs">>)),
           Register([Plugin("cache", "mem", "m1", <<>>) EXCEPT !.anyKey = TRUE]),
           BindTo("store", "jobs", "pg"), BindTo("store", "blobs", "pg"),
           BindTo("cache", "hot", "mem"), Load},
          NativePlugin("cache"), AnyOptions, "release", Workers, {}, 0, 1),
     Host({Register(Plugin("backend", "sql", "q1", <<"sql">>)),
           Register(Plugin("backend", "sql2", "q2", <<"sql">>)),
           Register(Plugin("cluster", "redis", "k1", <<>>)),
           Register(Plugin("cluster", "raft", "k2", <<>>)),
           Register([Plugin("http_route", "ui", "h1", <<"admin">>) EXCEPT !.override = TRUE]),
           FirstParty([Plugin("http_route", "ui", "h2", <<"admin">>)
                           EXCEPT !.requires = {"fetch"}, !.granted = {"fetch"}]),
           FirstParty([Plugin("policy_engine", "rego", "p1", <<"rego">>)
                           EXCEPT !.requires = {"fetch"}])},
          NativePlugin("cache"), AnyOptions, "release", Workers, {}, 0, 1)}

MCDeployments == Loads \cup Calls(Classes \ Shared, Workers, {"x"})
    \cup Calls(Shared, Workers, Callers) \cup Calls(Classes, Inline, {"x"})
    \cup Relays \cup Boots
===============================================================================
