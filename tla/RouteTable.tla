----------------------------- MODULE RouteTable ------------------------------
(***************************************************************************)
(* From the paths of an OpenAPI-like document to the operation a request is *)
(* handed to: CompiledSpec of gateway/src/spec.rs, the router in front of   *)
(* it in gateway/src/server.rs, and what the macro reads of the same        *)
(* document (bootstrap/gateway_macro/app.py).                               *)
(*                                                                          *)
(* A path is a sequence of segment names.  A route template is a record of  *)
(* its segments, literal or {parameter}, and of whether its text is well    *)
(* formed.  A document maps templates to path items, a path item maps       *)
(* methods to operations.                                                   *)
(***************************************************************************)
EXTENDS Integers, Sequences, FiniteSets

CONSTANTS
    Methods,      \* the methods a PathItem has a field for
    Paths,        \* the request paths looked at
    BuiltinPaths  \* /healthz and /readyz

Literal(n) == [kind |-> "literal", name |-> n]
Param(n) == [kind |-> "param", name |-> n]

\* A template's segments: each a literal or a parameter.
WellTyped(t) ==
    /\ Len(t.segments) \in Nat
    /\ \A i \in 1 .. Len(t.segments) :
          LET s == t.segments[i] IN s = Literal(s.name) \/ s = Param(s.name)

(***************************************************************************)
(* An operation: what its x-target-lambda is (a Lambda function's ARN,      *)
(* another ARN, some other string, missing), the Lambda it names, and the   *)
(* fields of x-smug that are checked.                                       *)
(***************************************************************************)
TargetKinds == {"function", "arn", "string", "none"}

(***************************************************************************)
(* parse_batch_key_dimensions.  A dimension is the kind before the colon    *)
(* and the name after it, both normalised; "method", "route" and the words  *)
(* for the target are accepted and add nothing ("implied").                 *)
(***************************************************************************)
ValidDimensions(key) ==
    /\ \A i \in 1 .. Len(key) :
          \/ key[i].kind = "implied"
          \/ key[i].kind \in {"header", "query"} /\ key[i].name # ""
    /\ \A i, j \in 1 .. Len(key) : key[i].kind # "implied" /\ key[i] = key[j] => i = j

\* The checks of add_op on dynamicWait; "usable" stands for finite numbers in
\* range as targetRps and steepness.
ValidDynamicWait(op) ==
    /\ op.dynamic.minWait <= op.maxWait
    /\ op.dynamic.interval > 0
    /\ op.dynamic.samples > 0
    /\ op.dynamic.curve = "usable"

ValidOperation(op) ==
    /\ op.target = "function"
    /\ op.maxBatch > 0
    /\ ValidDimensions(op.key)
    /\ op.isDynamic => ValidDynamicWait(op)

-----------------------------------------------------------------------------
(* CompiledSpec::compile.                                                   *)

\* The operations of a path item the gateway looks at: serde ignores the rest.
Operations(doc, t) == DOMAIN doc[t] \cap Methods

\* Mutant of Routed: a path without operations is inserted as well.
RoutedAll(doc) == DOMAIN doc

Routed(doc) == {t \in DOMAIN doc : Operations(doc, t) # {}}

\* matchit refuses a template that differs from another in its names only.
Shape(t) == [i \in 1 .. Len(t.segments) |->
                IF t.segments[i].kind = "param" THEN Param("") ELSE t.segments[i]]

Compiles(doc) ==
    /\ \A t \in DOMAIN doc :
          /\ t.wellFormed
          /\ \A m \in Operations(doc, t) : ValidOperation(doc[t][m])
    /\ \A t, u \in Routed(doc) : Shape(t) = Shape(u) => t = u

RoutesOf(doc) == [t \in Routed(doc) |-> [m \in Operations(doc, t) |-> doc[t][m]]]

-----------------------------------------------------------------------------
(* Router::at of matchit, match_request, and the router of build_app.       *)

Fits(t, path) ==
    /\ Len(t.segments) = Len(path)
    /\ \A i \in 1 .. Len(path) : t.segments[i].kind = "literal" => t.segments[i].name = path[i]

\* The tree is walked literal first: where t and u part, t has the literal.
Preferred(t, u) ==
    \E i \in 1 .. Len(t.segments) :
        /\ t.segments[i].kind = "literal" /\ u.segments[i].kind = "param"
        /\ \A j \in 1 .. i - 1 : t.segments[j].kind = u.segments[j].kind

At(routes, path) ==
    {t \in DOMAIN routes : /\ Fits(t, path)
                           /\ \A u \in DOMAIN routes \ {t} : Fits(u, path) => Preferred(t, u)}

Outcome(kind, route, methods, op) ==
    [kind |-> kind, route |-> route, methods |-> methods, op |-> op]

\* Mutant of MatchRequest: an unknown method is reported as an unknown path.
MatchPathOnly(routes, m, path) ==
    IF \A t \in At(routes, path) : m \notin DOMAIN routes[t]
    THEN Outcome("NotFound", {}, {}, {})
    ELSE Outcome("Matched", At(routes, path), {m}, {routes[t][m] : t \in At(routes, path)})

MatchRequest(routes, m, path) ==
    IF At(routes, path) = {} THEN Outcome("NotFound", {}, {}, {})
    ELSE LET t == CHOOSE t \in At(routes, path) : TRUE IN
         IF m \in DOMAIN routes[t] THEN Outcome("Matched", {t}, {m}, {routes[t][m]})
         ELSE Outcome("MethodNotAllowed", {t}, DOMAIN routes[t], {})

\* build_app: the two built-in routes come before the fallback handle_any.
Route(routes, m, path) ==
    IF path \in BuiltinPaths THEN Outcome("Builtin", {}, {}, {})
    ELSE MatchRequest(routes, m, path)

-----------------------------------------------------------------------------
(* The macro: _collect_target_lambda_arns and its checks.                   *)

OperationsOf(doc) == UNION {{doc[t][m] : m \in DOMAIN doc[t]} : t \in DOMAIN doc}

\* Operations without x-target-lambda are passed over.
Targeted(doc) == {op \in OperationsOf(doc) : op.target # "none"}

AcceptsTargets(doc) == \A op \in Targeted(doc) : op.target \in {"function", "arn"}

\* Mutant of InvokeLambdaArns: one operation of a path item is collected.
InvokeLambdaArnsOfFirst(doc) ==
    {op.lambda : op \in Targeted(doc) \cap
        {doc[t][CHOOSE m \in DOMAIN doc[t] : TRUE] : t \in {t \in DOMAIN doc : DOMAIN doc[t] # {}}}}

InvokeLambdaArns(doc) == {op.lambda : op \in Targeted(doc)}

-----------------------------------------------------------------------------
(***************************************************************************)
(* The reference: what the document itself says of a request, without a     *)
(* table.  Of the templates that fit the path and have an operation, the    *)
(* one counts whose literals come first, each literal weighing more than    *)
(* all that follow it.                                                      *)
(***************************************************************************)
Weight(t) ==
    LET w[i \in 0 .. Len(t.segments)] ==
            IF i = 0 THEN 0
            ELSE 2 * w[i - 1] + (IF t.segments[i].kind = "literal" THEN 1 ELSE 0)
    IN w[Len(t.segments)]

Declared(doc, path) ==
    LET fitting == {t \in DOMAIN doc : Fits(t, path) /\ DOMAIN doc[t] \cap Methods # {}} IN
    {t \in fitting : \A u \in fitting : Weight(u) <= Weight(t)}

(***************************************************************************)
(* A table answers every request as its document says: 404 only where no    *)
(* operation is declared for the path, an operation only of the declared    *)
(* template and method, and 405 with exactly the methods that would be      *)
(* matched.                                                                 *)
(***************************************************************************)
AnswersAsDeclared(routes, doc) ==
    \A m \in Methods, path \in Paths \ BuiltinPaths :
        LET o == Route(routes, m, path) IN
        /\ o.route = Declared(doc, path)
        /\ o.kind = "NotFound" <=> Declared(doc, path) = {}
        /\ o.kind = "Matched" <=> \E t \in Declared(doc, path) : m \in DOMAIN doc[t]
        /\ o.kind = "Matched" => \E t \in o.route : o.op = {doc[t][m]}
        /\ o.kind = "MethodNotAllowed" =>
              o.methods = {n \in Methods : Route(routes, n, path).kind = "Matched"}
=============================================================================
