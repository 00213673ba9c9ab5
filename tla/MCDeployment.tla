---------------------------- MODULE MCDeployment -----------------------------
(* Templates that differ in what the code tells apart. *)
EXTENDS Deployment, TLC

MCMethods == {"GET", "POST"}
MCPaths == {<<"a">>, <<"b">>, <<"healthz">>, <<"a", "b">>, <<"c", "b">>, <<"c", "c">>}
MCBuiltin == {<<"healthz">>}

Static(n) == [segments |-> <<Literal(n)>>, wellFormed |-> TRUE]
Free(n) == [segments |-> <<Param(n)>>, wellFormed |-> TRUE]
Two(s, t) == [segments |-> <<s, t>>, wellFormed |-> TRUE]

Op(l) == [target |-> "function", lambda |-> l, maxBatch |-> 2, maxWait |-> 5, key |-> <<>>,
          isDynamic |-> FALSE, dynamic |-> [minWait |-> 0, interval |-> 0, samples |-> 0, curve |-> ""]]
Dynamic(l) == [Op(l) EXCEPT !.isDynamic = TRUE,
                  !.dynamic = [minWait |-> 1, interval |-> 1, samples |-> 1, curve |-> "usable"]]
Keyed(l) == [Op(l) EXCEPT !.key = <<[kind |-> "implied", name |-> "method"],
                                    [kind |-> "header", name |-> "x"]>>]

DocA == (Static("a") :> ("GET" :> Op("f") @@ "POST" :> Keyed("g"))) @@ (Free("x") :> ("POST" :> Op("f")))
        @@ (Static("healthz") :> ("GET" :> Op("f")))
\* a path without operations, one whose operation no field reads, overlaps
DocB == (Static("a") :> <<>>) @@ (Free("x") :> ("GET" :> Dynamic("g"))) @@ (Static("b") :> ("LINK" :> Op("h")))
        @@ (Two(Param("y"), Literal("b")) :> ("GET" :> Op("f")))
        @@ (Two(Literal("a"), Param("z")) :> ("POST" :> Op("g")))
\* the macro accepts it, the gateway does not
DocC == (Static("a") :> ("GET" :> [Op("f") EXCEPT !.target = "none"]))

\* the macro refuses it
DocD == Static("a") :> ("GET" :> [Op("f") EXCEPT !.target = "string"])

Plain(name) == [name |-> name, slash |-> FALSE]
Template(prefix, spec) ==
    [prefix |-> prefix, port |-> 8080, listen |-> NoListen, numbers |-> "good", headers |-> "usable",
     spec |-> spec]

T1 == Template(Plain("p"), "A")
T2 == Template(Plain("q"), "B")
T3 == Template(Plain("p"), "C")
T4 == Template([name |-> "p", slash |-> TRUE], "A")
T5 == [T1 EXCEPT !.port = BadPort]
T6 == [T1 EXCEPT !.headers = "unusable"]
T7 == [T2 EXCEPT !.listen = 9090]
T8 == Template(Plain("p"), "D")
MCDocuments == "A" :> DocA @@ "B" :> DocB @@ "C" :> DocC @@ "D" :> DocD
MCTemplates == {T1, T2, T3, T4, T5, T6, T7, T8}
=============================================================================
