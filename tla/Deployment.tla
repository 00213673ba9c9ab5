----------------------------- MODULE Deployment ------------------------------
(***************************************************************************)
(* How a route reaches a running gateway.  The macro expands the service    *)
(* resource of a template (bootstrap/gateway_macro/app.py), the publisher   *)
(* writes its manifest to S3 as a CloudFormation custom resource            *)
(* (bootstrap/config_publisher/app.py), and a gateway instance reads the    *)
(* manifest its environment names when it starts (gateway/src/main.rs,      *)
(* location.rs, config.rs, RouteTable for spec.rs).                         *)
(*                                                                          *)
(* CloudFormation, App Runner, Lambda and S3 are external.  CloudFormation  *)
(* updates the role and the custom resource before the service that depends *)
(* on them, takes the first answer to a request, and rolls back by asking   *)
(* for the previous properties; Lambda delivers a request at least once.    *)
(***************************************************************************)
EXTENDS RouteTable

CONSTANTS
    Documents,    \* the documents of RouteTable, by name
    Templates,    \* what may be deployed
    NoTemplate,
    MaxInstances, \* bound: instances at a time, at most one of each version
    MaxUpdates,   \* bound: stack operations
    MaxFaults     \* bound: failed or lost calls, duplicate deliveries, crashes

(***************************************************************************)
(* A template: prefix is ConfigPrefix, its name and whether it begins with  *)
(* a slash; port is Port; listen the ListenAddr of GatewayConfig, whose     *)
(* numbers the gateway can parse or not; headers is the secret with the     *)
(* OpenTelemetry headers; spec names a document.                            *)
(***************************************************************************)
NoListen == 0
BadPort == -1
ASSUME DocumentsAssumption ==
    \A d \in DOMAIN Documents : \A t \in DOMAIN Documents[d] : WellTyped(t)
Fields == {"prefix", "port", "listen", "numbers", "headers", "spec"}
ASSUME TemplatesAssumption ==
    /\ \A t \in Templates :
          /\ DOMAIN t = Fields /\ t.spec \in DOMAIN Documents
          /\ t.prefix = [name |-> t.prefix.name, slash |-> t.prefix.slash]
          /\ t.prefix.slash \in BOOLEAN
    /\ NoTemplate \notin Templates
ASSUME BoundsAssumption == {MaxUpdates, MaxFaults, MaxInstances} \subseteq Nat

VARIABLES
    phase,      \* of the stack
    current,    \* the template of the last completed operation
    target,     \* the template of the operation in progress
    role,       \* the template whose policy the instance role has
    resource,   \* the custom resource: whose properties, physical id, ConfigS3Uri
    stale,      \* physical ids to be deleted in the cleanup phase
    before,     \* the faults there were when the operation started (history)
    touched,    \* the operation has sent a request to the publisher
    request,    \* the request CloudFormation waits for, and its answer
    executions, \* the running executions of the publisher's handler
    objects,    \* the bucket: [keys -> manifests]
    service,    \* the version App Runner routes traffic to
    deploying,  \* the version App Runner tries to bring up
    failed,     \* an instance of it exited while starting
    instances,  \* the gateway processes
    updates, faults

stackVars == <<phase, current, target, role, resource, stale, before, touched>>
serviceVars == <<service, deploying, failed, instances>>
dpvars == <<stackVars, request, executions, objects, serviceVars, updates, faults>>

-----------------------------------------------------------------------------
(* The publisher: the manifest, its key and the physical id.                *)

NoUri == [prefix |-> NoTemplate, sha |-> NoTemplate]
Unnamed == "smug-config-publisher"

\* _normalize_prefix drops the slash; the policy of the role has it still.
Normalize(prefix) == [prefix EXCEPT !.slash = FALSE]

\* setdefault("ListenAddr") and the embedded Spec.
Manifest(t) ==
    [listen |-> IF t.listen = NoListen THEN t.port ELSE t.listen,
     numbers |-> t.numbers, spec |-> t.spec]
Manifests == {Manifest(t) : t \in Templates}

\* Mutants of ConfigKey: a fixed name; the prefix is left out.
FixedKey(t) == [prefix |-> Normalize(t.prefix), sha |-> "config"]
KeyWithoutPrefix(t) == [prefix |-> [name |-> "", slash |-> FALSE], sha |-> Manifest(t)]

\* The name of the object is the hash of its content.
ConfigKey(t) == [prefix |-> Normalize(t.prefix), sha |-> Manifest(t)]

PhysicalId(t) == Normalize(t.prefix).name

\* What the handler checks, beyond what the macro has checked.
PropertiesValid(t) == t.port # BadPort

\* ResourceProperties: an update is requested when they differ.
Properties(t) == [prefix |-> t.prefix, port |-> t.port, listen |-> t.listen,
                  numbers |-> t.numbers, spec |-> t.spec]

\* The bucket after put_object.
Stored(key, body) == [k \in DOMAIN objects \cup {key} |-> IF k = key THEN body ELSE objects[k]]

\* The request CloudFormation sent last, "closed" once it waits no more.
NoRequest == [id |-> 0, kind |-> "none", template |-> NoTemplate, physical |-> Unnamed,
              answer |-> "closed", uri |-> NoUri, made |-> Unnamed]

\* What handler(event) does first: it answers a Delete at once, and checks the
\* properties before it calls _publish.
First(kind, t) ==
    IF kind = "Delete" THEN "succeed" ELSE IF PropertiesValid(t) THEN "put" ELSE "fail"

\* An execution of handler(event): try says which part of it is next, made
\* is its variable physical_resource_id.
Execution(r, n) == [id |-> r.id, kind |-> r.kind, template |-> r.template,
                    made |-> r.physical, physical |-> r.physical,
                    try |-> First(r.kind, r.template), copy |-> n]

\* CloudFormation takes the first answer to the request it waits for.
Answered(x, status) ==
    IF request.id = x.id /\ request.answer = "none"
    THEN [request EXCEPT !.answer = status, !.made = x.made,
             !.uri = IF x.kind # "Delete" /\ status = "SUCCESS" THEN ConfigKey(x.template) ELSE NoUri]
    ELSE request

Becomes(x, try, made) ==
    executions' = (executions \ {x}) \cup {[x EXCEPT !.try = try, !.made = made]}
Ends(x) == executions' = executions \ {x}
Restarts(x) == Becomes(x, First(x.kind, x.template), x.physical)

Fault == faults < MaxFaults /\ faults' = faults + 1

Put(x) ==
    /\ x.try = "put"
    /\ objects' = Stored(ConfigKey(x.template), Manifest(x.template))
    /\ Becomes(x, "succeed", PhysicalId(x.template))
    /\ UNCHANGED <<stackVars, request, serviceVars, updates, faults>>

PutFails(x) ==
    /\ x.try = "put"
    /\ Fault
    /\ Becomes(x, "fail", x.made)
    /\ UNCHANGED <<stackVars, request, objects, serviceVars, updates>>

\* _cfn_send_response, of SUCCESS or in the except clause of FAILED.
Status(x) == IF x.try = "succeed" THEN "SUCCESS" ELSE "FAILED"

Respond(x) ==
    /\ x.try \in {"succeed", "fail"}
    /\ request' = Answered(x, Status(x))
    /\ Ends(x)
    /\ UNCHANGED <<stackVars, objects, serviceVars, updates, faults>>

\* urlopen raises, before or after the answer arrived: the except clause sends
\* FAILED, and where that raises too Lambda runs the event again or gives up.
RespondFails(x) ==
    /\ x.try \in {"succeed", "fail"}
    /\ Fault
    /\ request' \in {request, Answered(x, Status(x))}
    /\ \/ x.try = "succeed" /\ Becomes(x, "fail", x.made)
       \/ x.try = "fail" /\ (Restarts(x) \/ Ends(x))
    /\ UNCHANGED <<stackVars, objects, serviceVars, updates>>

\* Lambda kills the function, and runs the event again or gives up.
PublisherCrashes(x) ==
    /\ Fault
    /\ Restarts(x) \/ Ends(x)
    /\ UNCHANGED <<stackVars, request, objects, serviceVars, updates>>

\* The event is delivered once more.
Duplicate(x) ==
    /\ x.copy = 1
    /\ \A y \in executions : y.id = x.id => y = x
    /\ Fault
    /\ executions' = executions \cup
          {[x EXCEPT !.try = First(x.kind, x.template), !.made = x.physical, !.copy = 2]}
    /\ UNCHANGED <<stackVars, request, objects, serviceVars, updates>>

Handler(x) == Put(x) \/ PutFails(x) \/ Respond(x) \/ RespondFails(x)

-----------------------------------------------------------------------------
(* The macro, and a stack operation.                                        *)

\* _expand_gateway_service: a template it refuses changes nothing.
MacroAccepts(t) == AcceptsTargets(Documents[t.spec])

NoResource == [template |-> NoTemplate, physical |-> Unnamed, uri |-> NoUri]
NoVersion == [template |-> NoTemplate, uri |-> NoUri, number |-> 0]
NoManifest == [listen |-> NoListen, numbers |-> "none", spec |-> "none"]

DPInit ==
    /\ phase = "none"
    /\ current = NoTemplate /\ target = NoTemplate /\ role = NoTemplate
    /\ resource = NoResource /\ stale = {} /\ before = 0 /\ touched = FALSE
    /\ request = NoRequest /\ executions = {}
    /\ objects = [k \in {} |-> {}]
    /\ service = NoVersion /\ deploying = NoVersion /\ failed = FALSE
    /\ instances = {}
    /\ updates = 0 /\ faults = 0

StartOperation(t) ==
    /\ phase \in {"none", "idle"}
    /\ updates < MaxUpdates
    /\ updates' = updates + 1
    /\ t # current
    /\ MacroAccepts(t)
    /\ phase' = "updating"
    /\ target' = t
    /\ before' = faults
    /\ UNCHANGED <<current, role, resource, stale, touched, request, executions, objects,
                   serviceVars, faults>>

\* Where the operation takes the stack.
Goal == IF phase = "updating" THEN target ELSE current
InOperation == phase \in {"updating", "rolling_back"}

UpdateRole ==
    /\ InOperation
    /\ role # Goal
    /\ role' = Goal
    /\ UNCHANGED <<phase, current, target, resource, stale, before, touched, request, executions, objects,
                   serviceVars, updates, faults>>

Awaiting == request.answer # "closed"
Close == request' = [request EXCEPT !.answer = "closed"]

\* CloudFormation invokes the publisher.
Send(kind, t) ==
    LET r == [id |-> request.id + 1, kind |-> kind, template |-> t,
              physical |-> resource.physical, answer |-> "none", uri |-> NoUri, made |-> Unnamed]
    IN /\ ~Awaiting
       /\ request' = r
       /\ executions' = executions \cup {Execution(r, 1)}

\* FAILED, or no answer within the time CloudFormation waits.
NoSuccess ==
    \/ request.answer = "FAILED"
    \/ request.answer = "none" /\ \A x \in executions : x.id # request.id

Published(t) == resource.template # NoTemplate /\ Properties(resource.template) = Properties(t)

SendUpdate ==
    /\ phase = "updating"
    /\ ~touched
    /\ ~Published(target)
    /\ Send(IF resource.template = NoTemplate THEN "Create" ELSE "Update", target)
    /\ touched' = TRUE
    /\ UNCHANGED <<phase, current, target, role, resource, stale, before, objects, serviceVars, updates, faults>>

\* The resource after a successful answer; a replaced one is cleaned up later.
Adopt(t) ==
    /\ resource' = [template |-> t, physical |-> request.made, uri |-> request.uri]
    /\ stale' = IF resource.template = NoTemplate THEN {}
                ELSE {resource.physical} \ {request.made}

PublisherSucceeded ==
    /\ phase = "updating"
    /\ request.answer = "SUCCESS"
    /\ Adopt(target)
    /\ Close
    /\ UNCHANGED <<phase, current, target, role, before, touched, executions, objects, serviceVars, updates, faults>>

PublisherFailed ==
    /\ phase = "updating"
    /\ NoSuccess
    /\ phase' = "rolling_back"
    /\ resource' = IF resource.template = NoTemplate
                   THEN [resource EXCEPT !.physical = request.made] ELSE resource
    /\ Close
    /\ UNCHANGED <<current, target, role, stale, before, touched, executions, objects, serviceVars, updates, faults>>

\* The previous properties again, or the deletion of what was created.
SendRollback ==
    /\ phase = "rolling_back"
    /\ touched
    /\ IF current = NoTemplate THEN Send("Delete", target) ELSE Send("Update", current)
    /\ UNCHANGED <<stackVars, objects, serviceVars, updates, faults>>

RolledBack ==
    /\ phase = "rolling_back"
    /\ \/ request.answer = "SUCCESS" /\ request.kind = "Update" /\ Adopt(current)
       \/ request.kind = "Delete" /\ (request.answer = "SUCCESS" \/ NoSuccess)
          /\ resource' = NoResource /\ stale' = {}
    /\ touched' = FALSE
    /\ Close
    /\ UNCHANGED <<phase, current, target, role, before, executions, objects, serviceVars, updates, faults>>

\* The operator continues a rollback that failed: the request is sent again.
RollbackFailed ==
    /\ phase = "rolling_back"
    /\ request.kind = "Update"
    /\ NoSuccess
    /\ Close
    /\ UNCHANGED <<stackVars, executions, objects, serviceVars, updates, faults>>

FinishRollback ==
    /\ phase = "rolling_back"
    /\ role = current /\ ~touched /\ ~Awaiting
    /\ phase' = "cleanup"
    /\ UNCHANGED <<current, target, role, resource, stale, before, touched, request, executions, objects,
                   serviceVars, updates, faults>>

SendDelete ==
    /\ phase = "cleanup"
    /\ stale # {}
    /\ ~Awaiting
    /\ \E id \in stale :
          LET r == [id |-> request.id + 1, kind |-> "Delete", template |-> target, physical |-> id,
                    answer |-> "none", uri |-> NoUri, made |-> Unnamed]
          IN request' = r /\ executions' = executions \cup {Execution(r, 1)}
    /\ UNCHANGED <<stackVars, objects, serviceVars, updates, faults>>

CleanedUp ==
    /\ phase = "cleanup"
    /\ request.answer = "SUCCESS" \/ NoSuccess
    /\ stale' = {}
    /\ Close
    /\ UNCHANGED <<phase, current, target, role, resource, before, touched, executions, objects, serviceVars,
                   updates, faults>>

EndOperation ==
    /\ phase = "cleanup"
    /\ stale = {} /\ ~Awaiting
    /\ phase' = IF current = NoTemplate THEN "none" ELSE "idle"
    /\ target' = NoTemplate
    /\ touched' = FALSE
    /\ UNCHANGED <<current, role, resource, stale, before, request, executions, objects, serviceVars, updates, faults>>

StackStep ==
    \/ UpdateRole \/ SendUpdate \/ PublisherSucceeded \/ PublisherFailed
    \/ SendRollback \/ RolledBack \/ RollbackFailed \/ FinishRollback
    \/ SendDelete \/ CleanedUp \/ EndOperation

-----------------------------------------------------------------------------
(* App Runner brings up a version: the image with the environment of a      *)
(* template, SMUG_CONFIG_URI being the uri the publisher answered.          *)

\* What the service's properties say of an instance.
Environment(v) == [uri |-> v.uri, port |-> v.template.port, headers |-> v.template.headers]

\* A service whose properties are the same is not deployed anew.
UpdateService ==
    /\ phase = "updating"
    /\ role = target /\ Published(target) /\ ~Awaiting
    /\ deploying = NoVersion
    /\ LET v == [template |-> target, uri |-> resource.uri, number |-> updates] IN
       IF service # NoVersion /\ Environment(service) = Environment(v)
       THEN /\ service' = v /\ current' = target /\ phase' = "cleanup"
            /\ instances' = {IF i.version = service THEN [i EXCEPT !.version = v] ELSE i : i \in instances}
            /\ UNCHANGED <<deploying, failed>>
       ELSE /\ deploying' = v /\ failed' = FALSE
            /\ UNCHANGED <<service, current, phase, instances>>
    /\ UNCHANGED <<target, role, resource, stale, touched, before, request, executions, objects,
                   updates, faults>>

\* The health check of the macro: /readyz on the port of the service.
Ready(i) == i.pc = "serving" /\ i.body.listen = i.version.template.port

Of(v) == {i \in instances : i.version = v}

DeploymentDone ==
    /\ deploying # NoVersion
    /\ \E i \in Of(deploying) : Ready(i)
    /\ service' = deploying
    /\ deploying' = NoVersion
    /\ current' = target
    /\ phase' = "cleanup"
    /\ UNCHANGED <<target, role, resource, stale, touched, before, request, executions, objects, failed,
                   instances, updates, faults>>

DeploymentFails ==
    /\ deploying # NoVersion
    /\ failed \/ \E i \in Of(deploying) : i.pc = "serving" /\ ~Ready(i)
    /\ deploying' = NoVersion
    /\ failed' = FALSE
    /\ phase' = "rolling_back"
    /\ UNCHANGED <<current, target, role, resource, stale, touched, before, request, executions, objects,
                   service, instances, updates, faults>>

ServiceStep == UpdateService \/ DeploymentDone \/ DeploymentFails

-----------------------------------------------------------------------------
(* The life of a gateway process: main and run, up to readyz and the drain. *)

\* The rest of what there is: only instances, failed and faults change below.
Elsewhere == UNCHANGED <<stackVars, request, executions, objects, service, deploying, updates>>

Move(i, pc, body) ==
    /\ instances' = (instances \ {i}) \cup {[i EXCEPT !.pc = pc, !.body = body]}
    /\ UNCHANGED <<failed, faults>>
    /\ Elsewhere

Wanted(v) == v \in {service, deploying}

StartInstance(v) ==
    /\ v # NoVersion /\ Wanted(v)
    /\ Of(v) = {}
    /\ Cardinality(instances) < MaxInstances
    /\ instances' = instances \cup {[version |-> v, pc |-> "started", body |-> NoManifest]}
    /\ UNCHANGED <<failed, faults>>
    /\ Elsewhere

\* The policy of the role names the prefix as the template writes it.
Covers(t, uri) == t # NoTemplate /\ t.prefix = uri.prefix
Readable(uri) == Covers(role, uri) /\ uri \in DOMAIN objects

Exit(i) ==
    /\ instances' = instances \ {i}
    /\ failed' = (failed \/ i.version = deploying)
    /\ Elsewhere

\* from_yaml_bytes, from_spec and what run checks before it listens.
Accepted(body) == body.numbers = "good" /\ Compiles(Documents[body.spec])

\* The secret, the location, the manifest and its checks; then run listens.
Starts(v) == v.template.headers = "usable" /\ Readable(v.uri) /\ Accepted(objects[v.uri])

Serve(i) ==
    /\ i.pc = "started"
    /\ Starts(i.version)
    /\ Move(i, "serving", objects[i.version.uri])

StartFails(i) ==
    /\ i.pc = "started"
    /\ ~Starts(i.version)
    /\ Exit(i)
    /\ UNCHANGED faults

\* The process dies, or reading the manifest fails for another reason.
InstanceCrash(i) ==
    /\ i.pc \in {"started", "serving"}
    /\ Fault
    /\ Exit(i)

\* shutdown_signal: /readyz answers 503 from here on, requests are served
\* until the delay is over and those in flight are answered.
Sigterm(i) ==
    /\ i.pc = "serving"
    /\ ~Wanted(i.version)
    /\ Move(i, "draining", i.body)

\* Mutant of Stopped: the drain waits for requests nobody answers.
DrainsForever(i) ==
    \/ i.pc = "draining" /\ UNCHANGED dpvars
    \/ i.pc = "started" /\ ~Wanted(i.version) /\ Exit(i) /\ UNCHANGED faults

\* The process ends after its drain; one that has not served yet is killed.
Stopped(i) ==
    /\ i.pc = "draining" \/ (i.pc = "started" /\ ~Wanted(i.version))
    /\ Exit(i)
    /\ UNCHANGED faults

InstanceStep(i) == Serve(i) \/ StartFails(i) \/ Sigterm(i) \/ Stopped(i)

-----------------------------------------------------------------------------
(* The whole.                                                               *)

Quiescent ==
    /\ phase \in {"none", "idle"} /\ executions = {}
    /\ UNCHANGED dpvars

DPNext ==
    \/ \E t \in Templates : StartOperation(t)
    \/ StackStep \/ ServiceStep
    \/ \E x \in executions : Handler(x) \/ PublisherCrashes(x) \/ Duplicate(x)
    \/ \E v \in {service, deploying} : StartInstance(v)
    \/ \E i \in instances : InstanceStep(i) \/ InstanceCrash(i)
    \/ Quiescent

DPSpec == DPInit /\ [][DPNext]_dpvars

(***************************************************************************)
(* CloudFormation goes on with an operation, App Runner with a deployment   *)
(* and starts an instance of the version it brings up, Lambda runs an       *)
(* execution to its end, and a process gets on with what it does.  No       *)
(* fairness is assumed of an operator, none of a fault, and none of the     *)
(* instances of the version that serves.                                    *)
(***************************************************************************)
DPFairness ==
    /\ WF_dpvars(StackStep) /\ WF_dpvars(ServiceStep)
    /\ WF_dpvars(\E x \in executions : Handler(x))
    /\ WF_dpvars(\E i \in instances : i.version # service /\ InstanceStep(i))
    /\ WF_dpvars(StartInstance(deploying))

DPFairSpec == DPSpec /\ DPFairness

-----------------------------------------------------------------------------
(* Properties.                                                              *)

Uris == {ConfigKey(t) : t \in Templates} \cup {NoUri}
Ids == {PhysicalId(t) : t \in Templates} \cup {Unnamed}
Versions == [template : Templates, uri : Uris, number : Nat] \cup {NoVersion}
AnyTemplate == Templates \cup {NoTemplate}

Phases == {"none", "idle", "updating", "rolling_back", "cleanup"}
Kinds == {"Create", "Update", "Delete"}
Answers == {"none", "SUCCESS", "FAILED", "closed"}

Requests == [id : Nat, kind : Kinds \cup {"none"}, template : AnyTemplate, physical : Ids,
             answer : Answers, uri : Uris, made : Ids]
Executions == [id : Nat, kind : Kinds, template : Templates, made : Ids, physical : Ids,
               try : {"put", "succeed", "fail"}, copy : 1 .. 2]
Resources == [template : AnyTemplate, physical : Ids, uri : Uris]
Processes == [version : Versions, pc : {"started", "serving", "draining"},
              body : Manifests \cup {NoManifest}]

\* Type invariant of the stack, the publisher, the bucket and the instances.
DPTypeOK ==
    /\ phase \in Phases
    /\ current \in AnyTemplate /\ target \in AnyTemplate /\ role \in AnyTemplate
    /\ resource \in Resources /\ stale \subseteq Ids /\ touched \in BOOLEAN
    /\ request \in Requests /\ executions \subseteq Executions
    /\ DOMAIN objects \subseteq Uris /\ \A k \in DOMAIN objects : objects[k] \in Manifests
    /\ service \in Versions /\ deploying \in Versions /\ failed \in BOOLEAN
    /\ instances \subseteq Processes
    /\ updates \in 0 .. MaxUpdates /\ faults \in 0 .. MaxFaults /\ before \in 0 .. faults

(***************************************************************************)
(* What an environment names exists and is its own: the uri of the version  *)
(* that serves, and of the one brought up, is an object with the manifest   *)
(* of that version's template, whatever executions of the publisher are     *)
(* still to come (late, twice, of an operation that was rolled back, of the *)
(* cleanup of a prefix that is in use again).                               *)
(***************************************************************************)
UriResolves ==
    \A v \in {service, deploying} \ {NoVersion} :
        v.uri \in DOMAIN objects /\ objects[v.uri] = Manifest(v.template)

(***************************************************************************)
(* An instance answers requests as the document of its own template         *)
(* declares, also when it was started after the template, the role and the  *)
(* bucket had changed.                                                      *)
(***************************************************************************)
ServesItsTemplate ==
    \A i \in instances :
        i.pc \in {"serving", "draining"} =>
            AnswersAsDeclared(RoutesOf(Documents[i.body.spec]), Documents[i.version.template.spec])

\* The operations a request can reach through a table.
Reachable(routes) ==
    UNION {Route(routes, m, path).op : m \in Methods, path \in Paths}

(***************************************************************************)
(* Once an operation is over, rolled back or not, an instance may be        *)
(* replaced at any time: the role reads the manifest the environment names  *)
(* and may invoke every function a request is routed to.  Templates whose   *)
(* ConfigPrefix begins with a slash are left out: for them the policy names *)
(* a prefix the publisher never writes to.                                  *)
(***************************************************************************)
SettledMeansReplaceable ==
    phase = "idle" /\ ~current.prefix.slash =>
        /\ Readable(service.uri)
        /\ \A op \in Reachable(RoutesOf(Documents[objects[service.uri].spec])) :
              op.lambda \in InvokeLambdaArns(Documents[role.spec])

\* The template has nothing the publisher, the gateway or App Runner refuses.
Deployable(t) ==
    /\ PropertiesValid(t) /\ ~t.prefix.slash /\ t.headers = "usable"
    /\ Accepted(Manifest(t)) /\ Manifest(t).listen = t.port

(***************************************************************************)
(* An operation is rolled back for a reason: a fault since it started, or a *)
(* template that is at fault.  What an earlier operation left behind (late  *)
(* executions, instances that drain, a role that has moved on) is none.     *)
(***************************************************************************)
RollbackHasReason ==
    [][phase = "updating" /\ phase' = "rolling_back" => faults > before \/ ~Deployable(target)]_dpvars

(***************************************************************************)
(* Every stack operation ends, with the new template or the previous one,   *)
(* whatever fails in between.                                               *)
(***************************************************************************)
OperationSettles == phase = "updating" ~> phase \in {"none", "idle"}
=============================================================================
