-------------------------- MODULE Deployment_proofs --------------------------
(***************************************************************************)
(* Proofs about Deployment: for every set of templates, any number of       *)
(* operations, faults and instances, the uri in the environment of a        *)
(* version names the manifest of that version's own template, an instance   *)
(* answers as that template's document declares, a settled stack can        *)
(* replace its instances, and a rollback has a reason.                      *)
(***************************************************************************)
EXTENDS Deployment, SequenceLemmas

\* What the steps of the stack and of the publisher read.
PublisherTyped ==
    /\ phase \in Phases
    /\ current \in AnyTemplate /\ target \in AnyTemplate
    /\ resource \in Resources /\ stale \subseteq Ids
    /\ request \in Requests /\ executions \subseteq Executions

\* The manifest of a template is in the bucket.
Has(t) == t \in Templates /\ ConfigKey(t) \in DOMAIN objects

\* The bucket holds under each key what the key is the hash of.
Content == \A k \in DOMAIN objects : objects[k] = k.sha

\* The executions of the request CloudFormation waits for are of that request,
\* and one that reports success has written its object.
Honest ==
    \A x \in executions :
        /\ x.id <= request.id
        /\ x.id = request.id => x.kind = request.kind /\ x.template = request.template
        /\ x.try = "succeed" /\ x.kind # "Delete" => Has(x.template)

AnswerHolds ==
    request.answer = "SUCCESS" /\ request.kind # "Delete" =>
        Has(request.template) /\ request.uri = ConfigKey(request.template)

\* What CloudFormation waits for is what the operation asked for.
Asked ==
    /\ phase \in {"none", "idle"} => ~Awaiting
    /\ phase \notin {"none", "idle"} => target \in Templates
    /\ phase = "updating" /\ Awaiting => request.kind # "Delete" /\ request.template = target
    /\ phase = "rolling_back" /\ Awaiting /\ request.kind # "Delete" =>
          request.kind = "Update" /\ request.template = current

ResourceHolds ==
    resource.template # NoTemplate =>
        Has(resource.template) /\ resource.uri = ConfigKey(resource.template)

Resolves(v) == v # NoVersion => Has(v.template) /\ v.uri = ConfigKey(v.template)

PubInv ==
    /\ PublisherTyped /\ Content /\ Honest /\ AnswerHolds /\ Asked /\ ResourceHolds
    /\ Resolves(service) /\ Resolves(deploying)

\* A version is brought up by an operation that waits for nothing else.
BringingUp ==
    deploying # NoVersion => phase = "updating" /\ ~Awaiting /\ Published(target)

-----------------------------------------------------------------------------
(* The operators of the publisher.                                          *)

LEMMA KeysTyped ==
    ASSUME NEW t \in Templates
    PROVE  /\ ConfigKey(t) \in Uris /\ Manifest(t) \in Manifests /\ PhysicalId(t) \in Ids
           /\ ConfigKey(t).sha = Manifest(t)
BY DEF Uris, Manifests, Ids, ConfigKey

LEMMA ConstantsTyped == NoUri \in Uris /\ Unnamed \in Ids /\ NoTemplate \notin Templates
BY TemplatesAssumption DEF Uris, Ids

\* Equal properties lead to equal keys.
LEMMA PropertiesDetermineKey ==
    ASSUME NEW t, NEW u, Properties(t) = Properties(u)
    PROVE  ConfigKey(t) = ConfigKey(u)
<1>1. /\ t.prefix = u.prefix /\ t.port = u.port /\ t.listen = u.listen
      /\ t.numbers = u.numbers /\ t.spec = u.spec
  BY DEF Properties
<1> QED
  BY <1>1 DEF ConfigKey, Manifest

\* What the resource was published with is what the template asks for.
LEMMA PublishedHas ==
    ASSUME PubInv, NEW t \in Templates, Published(t)
    PROVE  Has(t) /\ resource.uri = ConfigKey(t)
BY PropertiesDetermineKey DEF PubInv, ResourceHolds, Has, Published

\* put_object adds an object and keeps the others: no key names two manifests.
LEMMA StoredKeeps ==
    ASSUME Content, NEW t \in Templates, objects' = Stored(ConfigKey(t), Manifest(t))
    PROVE  /\ Content' /\ Has(t)'
           /\ \A u : Has(u) => Has(u)'
<1>1. DOMAIN objects' = DOMAIN objects \cup {ConfigKey(t)}
  BY DEF Stored
<1>2. \A k \in DOMAIN objects' :
         objects'[k] = IF k = ConfigKey(t) THEN Manifest(t) ELSE objects[k]
  BY <1>1 DEF Stored
<1>3. Content'
  BY <1>1, <1>2, KeysTyped DEF Content
<1> QED
  BY <1>1, <1>3 DEF Has

-----------------------------------------------------------------------------
(* The steps of the publisher.                                              *)

LEMMA InitPublisher == DPInit => PubInv
<1> SUFFICES ASSUME DPInit PROVE PubInv
  OBVIOUS
<1>1. PublisherTyped
  BY ConstantsTyped DEF DPInit, PublisherTyped, Phases, AnyTemplate, Resources, NoResource, Requests,
                        NoRequest, Kinds, Answers
<1>2. Content /\ Honest /\ ResourceHolds
  BY DEF DPInit, Content, Honest, ResourceHolds, NoResource
<1>3. AnswerHolds /\ Asked
  BY DEF DPInit, AnswerHolds, Asked, Awaiting, NoRequest
<1>4. Resolves(service) /\ Resolves(deploying)
  BY DEF DPInit, Resolves
<1> QED
  BY <1>1, <1>2, <1>3, <1>4 DEF PubInv

\* Every execution goes on from one there was, and claims no more than it.
Follows ==
    /\ executions' \subseteq Executions
    /\ \A y \in executions' : \E x \in executions :
          /\ y.id = x.id /\ y.kind = x.kind /\ y.template = x.template
          /\ y.try = "succeed" /\ y.kind # "Delete" => Has(x.template)

\* Steps of an execution that leave the bucket, the request and the stack.
LEMMA ExecutionsKeep ==
    ASSUME PubInv, UNCHANGED <<stackVars, request, objects, service, deploying>>,
           Follows
    PROVE  PubInv'
<1>1. PublisherTyped' /\ Content' /\ AnswerHolds' /\ ResourceHolds'
  BY DEF PubInv, PublisherTyped, Content, AnswerHolds, ResourceHolds, Has, stackVars, Follows
<1>2. Asked'
  BY DEF PubInv, Asked, Awaiting, stackVars
<1>3. Honest'
  BY DEF PubInv, Honest, Has, Follows
<1>4. Resolves(service)' /\ Resolves(deploying)'
  BY DEF PubInv, Resolves, Has
<1> QED
  BY <1>1, <1>2, <1>3, <1>4 DEF PubInv

LEMMA FirstTyped ==
    ASSUME NEW k, NEW t
    PROVE  /\ First(k, t) \in {"put", "succeed", "fail"}
           /\ First(k, t) = "succeed" => k = "Delete"
BY DEF First

LEMMA SucceededHas ==
    ASSUME PubInv
    PROVE  \A z \in executions : z.try = "succeed" /\ z.kind # "Delete" => Has(z.template)
BY DEF PubInv, Honest

LEMMA RestartFollows ==
    ASSUME PubInv, NEW x \in executions, Restarts(x) \/ Ends(x)
    PROVE  Follows
<1>1. x \in Executions /\ executions \subseteq Executions
  BY DEF PubInv, PublisherTyped
<1> DEFINE y == [x EXCEPT !.try = First(x.kind, x.template), !.made = x.physical]
<1>2. /\ y \in Executions
      /\ y.id = x.id /\ y.kind = x.kind /\ y.template = x.template
      /\ y.try = First(x.kind, x.template)
  BY <1>1, FirstTyped DEF Executions
<1>3. executions' \subseteq executions \cup {y}
  BY DEF Restarts, Ends, Becomes
<1> HIDE DEF y
<1> QED
  BY <1>1, <1>2, <1>3, SucceededHas, FirstTyped DEF Follows

LEMMA PutKeeps ==
    ASSUME PubInv, NEW x \in executions, Put(x)
    PROVE  PubInv'
<1>1. x \in Executions /\ executions \subseteq Executions
  BY DEF PubInv, PublisherTyped
<1>2. x.template \in Templates
  BY <1>1 DEF Executions
<1>3. Content' /\ Has(x.template)' /\ \A u : Has(u) => Has(u)'
  BY <1>2, StoredKeeps DEF PubInv, Put
<1> DEFINE y == [x EXCEPT !.try = "succeed", !.made = PhysicalId(x.template)]
<1>4. /\ y \in Executions
      /\ y.id = x.id /\ y.kind = x.kind /\ y.template = x.template
  BY <1>1, <1>2, KeysTyped DEF Executions
<1>5. executions' = (executions \ {x}) \cup {y}
  BY DEF Put, Becomes
<1> HIDE DEF y
<1>6. PublisherTyped'
  BY <1>1, <1>4, <1>5 DEF PubInv, PublisherTyped, Put, stackVars
<1>7. Honest'
  <2> SUFFICES ASSUME NEW z \in executions'
               PROVE  /\ z.id <= request.id
                      /\ z.id = request.id => z.kind = request.kind /\ z.template = request.template
                      /\ z.try = "succeed" /\ z.kind # "Delete" => Has(z.template)'
    BY DEF Honest, Put
  <2>1. CASE z \in executions
    BY <1>3, <2>1 DEF PubInv, Honest
  <2>2. CASE z = y
    BY <1>3, <1>4, <2>2 DEF PubInv, Honest
  <2> QED
    BY <1>5, <2>1, <2>2
<1>8. AnswerHolds' /\ ResourceHolds'
  BY <1>3 DEF PubInv, AnswerHolds, ResourceHolds, Put, stackVars
<1>9. Asked'
  BY DEF PubInv, Asked, Awaiting, Put, stackVars
<1>10. Resolves(service)' /\ Resolves(deploying)'
  BY <1>3 DEF PubInv, Resolves, Put, serviceVars
<1> QED
  BY <1>3, <1>6, <1>7, <1>8, <1>9, <1>10 DEF PubInv

LEMMA FailFollows ==
    ASSUME PubInv, NEW x \in executions, Becomes(x, "fail", x.made)
    PROVE  Follows
<1>1. x \in Executions /\ executions \subseteq Executions
  BY DEF PubInv, PublisherTyped
<1> DEFINE y == [x EXCEPT !.try = "fail", !.made = x.made]
<1>2. /\ y \in Executions
      /\ y.id = x.id /\ y.kind = x.kind /\ y.template = x.template /\ y.try = "fail"
  BY <1>1 DEF Executions
<1>3. executions' = (executions \ {x}) \cup {y}
  BY DEF Becomes
<1> HIDE DEF y
<1> QED
  BY <1>1, <1>2, <1>3, SucceededHas DEF Follows

LEMMA DuplicateKeeps ==
    ASSUME PubInv, NEW x \in executions, Duplicate(x)
    PROVE  PubInv'
<1>1. x \in Executions /\ executions \subseteq Executions
  BY DEF PubInv, PublisherTyped
<1> DEFINE y == [x EXCEPT !.try = First(x.kind, x.template), !.made = x.physical, !.copy = 2]
<1> DEFINE first == First(x.kind, x.template)
<1>5. first \in {"put", "succeed", "fail"} /\ x.physical \in Ids /\ 2 \in 1 .. 2
  BY <1>1, FirstTyped DEF Executions
<1>6. y = [x EXCEPT !.try = first, !.made = x.physical, !.copy = 2]
  OBVIOUS
<1> HIDE DEF first, y
<1>2. /\ y \in Executions
      /\ y.id = x.id /\ y.kind = x.kind /\ y.template = x.template
      /\ y.try = first
  BY <1>1, <1>5, <1>6 DEF Executions
<1>3. executions' = executions \cup {y}
  BY DEF Duplicate, y, first
<1>4. Follows
  BY <1>1, <1>2, <1>3, SucceededHas, FirstTyped DEF Follows, first
<1> QED
  BY <1>4, ExecutionsKeep DEF Duplicate, serviceVars

\* An answer is taken, of an execution of the request that is waited for.
LEMMA AnswerKeeps ==
    ASSUME PubInv, NEW x \in executions, x.try \in {"succeed", "fail"},
           request' = Answered(x, Status(x)),
           Follows, UNCHANGED <<stackVars, objects, service, deploying>>
    PROVE  PubInv'
<1>1. x \in Executions /\ request \in Requests
  BY DEF PubInv, PublisherTyped
<1>2. CASE request' = request
  BY <1>2, ExecutionsKeep
<1>3. CASE request' # request
  <2>1. x.id = request.id /\ request.answer = "none"
    BY <1>3 DEF Answered
  <2>2. x.kind = request.kind /\ x.template = request.template
    BY <2>1 DEF PubInv, Honest
  <2> DEFINE uri == IF x.kind # "Delete" /\ Status(x) = "SUCCESS" THEN ConfigKey(x.template) ELSE NoUri
  <2>3. request' = [request EXCEPT !.answer = Status(x), !.made = x.made, !.uri = uri]
    BY <2>1 DEF Answered
  <2>4. uri \in Uris /\ Status(x) \in Answers /\ x.made \in Ids
    BY <1>1, KeysTyped, ConstantsTyped DEF Executions, Status, Answers
  <2>5. Status(x) = "SUCCESS" /\ x.kind # "Delete" => Has(x.template) /\ uri = ConfigKey(x.template)
    BY DEF PubInv, Honest, Status
  <2> HIDE DEF uri
  <2>6. /\ request' \in Requests
        /\ request'.id = request.id /\ request'.kind = request.kind
        /\ request'.template = request.template
        /\ request'.answer = Status(x) /\ request'.uri = uri
    BY <1>1, <2>3, <2>4 DEF Requests
  <2>7. PublisherTyped' /\ Content' /\ ResourceHolds'
    BY <2>6 DEF PubInv, PublisherTyped, Content, ResourceHolds, Has, stackVars, Follows
  <2>8. Honest'
    BY <2>6 DEF PubInv, Honest, Has, Follows
  <2>9. AnswerHolds'
    BY <2>2, <2>5, <2>6 DEF AnswerHolds, Has
  <2>10. Asked'
    BY <2>1, <2>6 DEF PubInv, Asked, Awaiting, stackVars
  <2>11. Resolves(service)' /\ Resolves(deploying)'
    BY DEF PubInv, Resolves, Has
  <2> QED
    BY <2>7, <2>8, <2>9, <2>10, <2>11 DEF PubInv
<1> QED
  BY <1>2, <1>3

LEMMA HandlerKeeps ==
    ASSUME PubInv, NEW x \in executions, Handler(x) \/ PublisherCrashes(x) \/ Duplicate(x)
    PROVE  PubInv'
<1>1. CASE Put(x)
  BY <1>1, PutKeeps
<1>2. CASE PutFails(x)
  BY <1>2, FailFollows, ExecutionsKeep DEF PutFails, serviceVars
<1>3. CASE Respond(x)
  BY <1>3, RestartFollows, AnswerKeeps DEF Respond, serviceVars
<1>4. CASE RespondFails(x)
  <2>1. Follows
    BY <1>4, RestartFollows, FailFollows DEF RespondFails
  <2>2. CASE request' = request
    BY <1>4, <2>1, <2>2, ExecutionsKeep DEF RespondFails, serviceVars
  <2>3. CASE request' = Answered(x, Status(x))
    BY <1>4, <2>1, <2>3, AnswerKeeps DEF RespondFails, serviceVars
  <2> QED
    BY <1>4, <2>2, <2>3 DEF RespondFails
<1>5. CASE PublisherCrashes(x)
  BY <1>5, RestartFollows, ExecutionsKeep DEF PublisherCrashes, serviceVars
<1>6. CASE Duplicate(x)
  BY <1>6, DuplicateKeeps
<1> QED
  BY <1>1, <1>2, <1>3, <1>4, <1>5, <1>6 DEF Handler

-----------------------------------------------------------------------------
(* The steps of the stack.                                                  *)

LEMMA SentKeeps ==
    ASSUME PubInv, NEW r \in Requests, r.id = request.id + 1, r.kind \in Kinds,
           r.template \in Templates, r.answer = "none",
           request' = r, executions' = executions \cup {Execution(r, 1)}, objects' = objects
    PROVE  executions' \subseteq Executions /\ Honest' /\ AnswerHolds'
<1> DEFINE y == Execution(r, 1)
<1>1. First(r.kind, r.template) \in {"put", "succeed", "fail"} /\ 1 \in 1 .. 2
  BY FirstTyped
<1>2. r.id \in Nat /\ r.physical \in Ids
  BY DEF Requests
<1>3. /\ y \in Executions
      /\ y.id = r.id /\ y.kind = r.kind /\ y.template = r.template
      /\ y.try = First(r.kind, r.template)
  BY <1>1, <1>2 DEF Execution, Executions
<1> HIDE DEF y
<1>4. executions' = executions \cup {y}
  BY DEF y
<1>5. executions' \subseteq Executions
  BY <1>3, <1>4 DEF PubInv, PublisherTyped
<1>6. Honest'
  <2> SUFFICES ASSUME NEW z \in executions'
               PROVE  /\ z.id <= r.id
                      /\ z.id = r.id => z.kind = r.kind /\ z.template = r.template
                      /\ z.try = "succeed" /\ z.kind # "Delete" => Has(z.template)'
    BY DEF Honest
  <2>1. CASE z \in executions
    <3>1. z.id <= request.id /\ (z.try = "succeed" /\ z.kind # "Delete" => Has(z.template))
      BY <2>1 DEF PubInv, Honest
    <3>2. z.id \in Nat /\ request.id \in Nat
      BY <2>1 DEF PubInv, PublisherTyped, Executions, Requests
    <3> QED
      BY <3>1, <3>2 DEF Has
  <2>2. CASE z = y
    BY <1>2, <1>3, <2>2, FirstTyped
  <2> QED
    BY <1>4, <2>1, <2>2
<1>7. AnswerHolds'
  BY DEF AnswerHolds
<1> QED
  BY <1>5, <1>6, <1>7

LEMMA SendKeeps ==
    ASSUME PubInv, NEW kind \in Kinds, NEW t \in Templates, Send(kind, t), objects' = objects
    PROVE  /\ request' \in Requests /\ request'.kind = kind /\ request'.template = t
           /\ executions' \subseteq Executions /\ Honest' /\ AnswerHolds'
<1> DEFINE r == [id |-> request.id + 1, kind |-> kind, template |-> t,
                 physical |-> resource.physical, answer |-> "none", uri |-> NoUri, made |-> Unnamed]
<1>1. request.id \in Nat /\ resource.physical \in Ids
  BY DEF PubInv, PublisherTyped, Requests, Resources
<1>2. /\ r \in Requests /\ r.id = request.id + 1 /\ r.kind = kind /\ r.template = t
      /\ r.answer = "none"
  BY <1>1, ConstantsTyped DEF Requests, AnyTemplate, Answers
<1>3. request' = r /\ executions' = executions \cup {Execution(r, 1)}
  BY DEF Send
<1> HIDE DEF r
<1> QED
  BY <1>2, <1>3, SentKeeps

LEMMA CloseKeeps ==
    ASSUME PubInv, Close, executions' = executions, objects' = objects
    PROVE  /\ request' \in Requests /\ request'.answer = "closed"
           /\ Honest' /\ AnswerHolds' /\ ~Awaiting'
<1>1. request \in Requests
  BY DEF PubInv, PublisherTyped
<1>2. /\ request' \in Requests /\ request'.answer = "closed"
      /\ request'.id = request.id /\ request'.kind = request.kind
      /\ request'.template = request.template
  BY <1>1 DEF Close, Requests, Answers
<1> QED
  BY <1>2 DEF PubInv, Honest, AnswerHolds, Awaiting, Has

\* The parts that only read the bucket, where that stays.
LEMMA BucketKept ==
    ASSUME PubInv, objects' = objects
    PROVE  /\ Content' /\ \A t : Has(t)' = Has(t)
           /\ resource' = resource => ResourceHolds'
           /\ \A v : Resolves(v) => (v # NoVersion => Has(v.template)' /\ v.uri = ConfigKey(v.template))
BY DEF PubInv, Content, Has, ResourceHolds, Resolves

\* Steps that leave the versions of the service as they are.
LEMMA VersionsKept ==
    ASSUME PubInv, UNCHANGED <<objects, service, deploying>>
    PROVE  Resolves(service)' /\ Resolves(deploying)'
BY DEF PubInv, Has, Resolves

LEMMA StartOperationKeeps ==
    ASSUME PubInv, NEW t \in Templates, StartOperation(t)
    PROVE  PubInv'
<1>1. PublisherTyped'
  BY DEF PubInv, PublisherTyped, StartOperation, Phases, AnyTemplate
<1>2. Content' /\ Honest' /\ AnswerHolds' /\ ResourceHolds'
  BY BucketKept DEF PubInv, Honest, AnswerHolds, StartOperation
<1>3. Asked'
  BY DEF PubInv, Asked, Awaiting, StartOperation
<1>4. Resolves(service)' /\ Resolves(deploying)'
  BY VersionsKept DEF StartOperation, serviceVars
<1> QED
  BY <1>1, <1>2, <1>3, <1>4 DEF PubInv

LEMMA UpdateRoleKeeps ==
    ASSUME PubInv, UpdateRole
    PROVE  PubInv'
<1>1. PublisherTyped'
  BY DEF PubInv, PublisherTyped, UpdateRole
<1>2. Content' /\ Honest' /\ AnswerHolds' /\ ResourceHolds'
  BY BucketKept DEF PubInv, Honest, AnswerHolds, UpdateRole
<1>3. Asked'
  BY DEF PubInv, Asked, Awaiting, UpdateRole
<1>4. Resolves(service)' /\ Resolves(deploying)'
  BY VersionsKept DEF UpdateRole, serviceVars
<1> QED
  BY <1>1, <1>2, <1>3, <1>4 DEF PubInv

LEMMA SendUpdateKeeps ==
    ASSUME PubInv, SendUpdate
    PROVE  PubInv'
<1>1. target \in Templates
  BY DEF PubInv, Asked, SendUpdate
<1>2. PICK kind \in {"Create", "Update"} : Send(kind, target)
  BY DEF SendUpdate
<1>3. kind \in Kinds /\ objects' = objects
  BY DEF Kinds, SendUpdate
<1>4. /\ request' \in Requests /\ request'.kind = kind /\ request'.template = target
      /\ executions' \subseteq Executions /\ Honest' /\ AnswerHolds'
  BY <1>1, <1>2, <1>3, SendKeeps
<1>5. PublisherTyped'
  BY <1>4 DEF PubInv, PublisherTyped, SendUpdate
<1>6. Asked'
  BY <1>1, <1>4 DEF Asked, SendUpdate
<1>7. Content' /\ ResourceHolds' /\ Resolves(service)' /\ Resolves(deploying)'
  BY BucketKept, VersionsKept DEF SendUpdate, serviceVars
<1> QED
  BY <1>4, <1>5, <1>6, <1>7 DEF PubInv

\* What a successful answer makes of the resource.
LEMMA AdoptHolds ==
    ASSUME PubInv, NEW t \in Templates, Adopt(t), objects' = objects,
           request.answer = "SUCCESS", request.kind # "Delete", request.template = t
    PROVE  resource' \in Resources /\ stale' \subseteq Ids /\ ResourceHolds'
<1>1. Has(t) /\ request.uri = ConfigKey(t)
  BY DEF PubInv, AnswerHolds
<1>2. request \in Requests /\ resource \in Resources
  BY DEF PubInv, PublisherTyped
<1>3. resource' = [template |-> t, physical |-> request.made, uri |-> request.uri]
  BY DEF Adopt
<1>4. resource' \in Resources
  BY <1>2, <1>3 DEF Resources, Requests, AnyTemplate
<1>5. stale' \subseteq Ids
  BY <1>2 DEF Adopt, Resources
<1>6. ResourceHolds'
  BY <1>1, <1>3 DEF ResourceHolds, Has
<1> QED
  BY <1>4, <1>5, <1>6

LEMMA PublisherSucceededKeeps ==
    ASSUME PubInv, PublisherSucceeded
    PROVE  PubInv'
<1>1. Awaiting /\ request.kind # "Delete" /\ request.template = target /\ target \in Templates
  BY DEF PubInv, Asked, Awaiting, PublisherSucceeded
<1>2. resource' \in Resources /\ stale' \subseteq Ids /\ ResourceHolds'
  BY <1>1, AdoptHolds DEF PublisherSucceeded
<1>3. request' \in Requests /\ Honest' /\ AnswerHolds' /\ ~Awaiting'
  BY CloseKeeps DEF PublisherSucceeded
<1>4. PublisherTyped'
  BY <1>2, <1>3 DEF PubInv, PublisherTyped, PublisherSucceeded
<1>5. Asked'
  BY <1>1, <1>3 DEF Asked, PublisherSucceeded
<1>6. Content' /\ Resolves(service)' /\ Resolves(deploying)'
  BY BucketKept, VersionsKept DEF PublisherSucceeded, serviceVars
<1> QED
  BY <1>2, <1>3, <1>4, <1>5, <1>6 DEF PubInv

LEMMA PublisherFailedKeeps ==
    ASSUME PubInv, PublisherFailed
    PROVE  PubInv'
<1>1. target \in Templates
  BY DEF PubInv, Asked, PublisherFailed
<1>2. request \in Requests /\ resource \in Resources
  BY DEF PubInv, PublisherTyped
<1>3. /\ resource' \in Resources /\ resource'.template = resource.template
      /\ resource'.uri = resource.uri
  BY <1>2 DEF PublisherFailed, Resources, Requests
<1>4. request' \in Requests /\ Honest' /\ AnswerHolds' /\ ~Awaiting'
  BY CloseKeeps DEF PublisherFailed
<1>5. PublisherTyped'
  BY <1>3, <1>4 DEF PubInv, PublisherTyped, PublisherFailed, Phases
<1>6. Asked'
  BY <1>1, <1>4 DEF Asked, PublisherFailed
<1>7. Content' /\ Resolves(service)' /\ Resolves(deploying)'
  BY BucketKept, VersionsKept DEF PublisherFailed, serviceVars
<1>8. ResourceHolds'
  BY <1>3 DEF PubInv, ResourceHolds, Has, PublisherFailed
<1> QED
  BY <1>4, <1>5, <1>6, <1>7, <1>8 DEF PubInv

LEMMA SendRollbackKeeps ==
    ASSUME PubInv, SendRollback
    PROVE  PubInv'
<1>1. target \in Templates /\ current \in AnyTemplate /\ objects' = objects
  BY DEF PubInv, PublisherTyped, Asked, SendRollback
<1>2. PICK kind \in Kinds, t \in Templates :
         Send(kind, t) /\ (kind = "Delete" \/ (kind = "Update" /\ t = current))
  <2>1. CASE current = NoTemplate
    BY <1>1, <2>1 DEF SendRollback, Kinds
  <2>2. CASE current # NoTemplate
    BY <1>1, <2>2 DEF SendRollback, AnyTemplate, Kinds
  <2> QED
    BY <2>1, <2>2
<1>3. /\ request' \in Requests /\ request'.kind = kind /\ request'.template = t
      /\ executions' \subseteq Executions /\ Honest' /\ AnswerHolds'
  BY <1>1, <1>2, SendKeeps
<1>4. PublisherTyped'
  BY <1>3 DEF PubInv, PublisherTyped, SendRollback, stackVars
<1>5. Asked'
  BY <1>1, <1>2, <1>3 DEF Asked, SendRollback, stackVars
<1>6. Content' /\ ResourceHolds' /\ Resolves(service)' /\ Resolves(deploying)'
  BY BucketKept, VersionsKept DEF SendRollback, serviceVars, stackVars
<1> QED
  BY <1>3, <1>4, <1>5, <1>6 DEF PubInv

LEMMA RolledBackKeeps ==
    ASSUME PubInv, RolledBack
    PROVE  PubInv'
<1>1. request \in Requests /\ current \in AnyTemplate
  BY DEF PubInv, PublisherTyped
<1>2. request' \in Requests /\ Honest' /\ AnswerHolds' /\ ~Awaiting'
  BY CloseKeeps DEF RolledBack
<1>3. resource' \in Resources /\ stale' \subseteq Ids /\ ResourceHolds'
  <2>1. CASE request.answer = "SUCCESS" /\ request.kind = "Update" /\ Adopt(current)
    <3>1. request.template = current
      BY <2>1 DEF PubInv, Asked, Awaiting, RolledBack
    <3>2. Has(current)
      BY <2>1, <3>1 DEF PubInv, AnswerHolds
    <3> QED
      BY <2>1, <3>1, <3>2, AdoptHolds DEF Has, RolledBack
  <2>2. CASE resource' = NoResource /\ stale' = {}
    BY <2>2, ConstantsTyped DEF NoResource, Resources, AnyTemplate, ResourceHolds
  <2> QED
    BY <2>1, <2>2 DEF RolledBack
<1>4. PublisherTyped'
  BY <1>2, <1>3 DEF PubInv, PublisherTyped, RolledBack
<1>5. Asked'
  BY <1>2 DEF PubInv, Asked, RolledBack
<1>6. Content' /\ Resolves(service)' /\ Resolves(deploying)'
  BY BucketKept, VersionsKept DEF RolledBack, serviceVars
<1> QED
  BY <1>2, <1>3, <1>4, <1>5, <1>6 DEF PubInv

LEMMA RollbackFailedKeeps ==
    ASSUME PubInv, RollbackFailed
    PROVE  PubInv'
<1>1. request' \in Requests /\ Honest' /\ AnswerHolds' /\ ~Awaiting'
  BY CloseKeeps DEF RollbackFailed
<1>2. PublisherTyped'
  BY <1>1 DEF PubInv, PublisherTyped, RollbackFailed, stackVars
<1>3. Asked'
  BY <1>1 DEF PubInv, Asked, RollbackFailed, stackVars
<1>4. Content' /\ ResourceHolds' /\ Resolves(service)' /\ Resolves(deploying)'
  BY BucketKept, VersionsKept DEF RollbackFailed, serviceVars, stackVars
<1> QED
  BY <1>1, <1>2, <1>3, <1>4 DEF PubInv

LEMMA FinishRollbackKeeps ==
    ASSUME PubInv, FinishRollback
    PROVE  PubInv'
<1>1. PublisherTyped'
  BY DEF PubInv, PublisherTyped, FinishRollback, Phases
<1>2. Content' /\ Honest' /\ AnswerHolds' /\ ResourceHolds'
  BY BucketKept DEF PubInv, Honest, AnswerHolds, FinishRollback
<1>3. Asked'
  BY DEF PubInv, Asked, Awaiting, FinishRollback
<1>4. Resolves(service)' /\ Resolves(deploying)'
  BY VersionsKept DEF FinishRollback, serviceVars
<1> QED
  BY <1>1, <1>2, <1>3, <1>4 DEF PubInv

LEMMA SendDeleteKeeps ==
    ASSUME PubInv, SendDelete
    PROVE  PubInv'
<1>1. request.id \in Nat /\ target \in Templates /\ stale \subseteq Ids
  BY DEF PubInv, PublisherTyped, Asked, Requests, SendDelete
<1>2. PICK id \in stale :
         LET r == [id |-> request.id + 1, kind |-> "Delete", template |-> target, physical |-> id,
                   answer |-> "none", uri |-> NoUri, made |-> Unnamed]
         IN request' = r /\ executions' = executions \cup {Execution(r, 1)}
  BY DEF SendDelete
<1> DEFINE r == [id |-> request.id + 1, kind |-> "Delete", template |-> target, physical |-> id,
                 answer |-> "none", uri |-> NoUri, made |-> Unnamed]
<1>3. /\ r \in Requests /\ r.id = request.id + 1 /\ r.kind = "Delete" /\ r.template = target
      /\ r.answer = "none"
  BY <1>1, ConstantsTyped DEF Requests, AnyTemplate, Answers, Kinds
<1>4. request' = r /\ executions' = executions \cup {Execution(r, 1)}
  BY <1>2
<1> HIDE DEF r
<1>5. executions' \subseteq Executions /\ Honest' /\ AnswerHolds'
  BY <1>1, <1>3, <1>4, SentKeeps DEF SendDelete, Kinds
<1>6. PublisherTyped'
  BY <1>3, <1>4, <1>5 DEF PubInv, PublisherTyped, SendDelete, stackVars
<1>7. Asked'
  BY <1>3, <1>4 DEF PubInv, Asked, SendDelete, stackVars
<1>8. Content' /\ ResourceHolds' /\ Resolves(service)' /\ Resolves(deploying)'
  BY BucketKept, VersionsKept DEF SendDelete, serviceVars, stackVars
<1> QED
  BY <1>5, <1>6, <1>7, <1>8 DEF PubInv

LEMMA CleanedUpKeeps ==
    ASSUME PubInv, CleanedUp
    PROVE  PubInv'
<1>1. request' \in Requests /\ Honest' /\ AnswerHolds' /\ ~Awaiting'
  BY CloseKeeps DEF CleanedUp
<1>2. PublisherTyped'
  BY <1>1 DEF PubInv, PublisherTyped, CleanedUp
<1>3. Asked'
  BY <1>1 DEF PubInv, Asked, CleanedUp
<1>4. Content' /\ ResourceHolds' /\ Resolves(service)' /\ Resolves(deploying)'
  BY BucketKept, VersionsKept DEF CleanedUp, serviceVars
<1> QED
  BY <1>1, <1>2, <1>3, <1>4 DEF PubInv

LEMMA EndOperationKeeps ==
    ASSUME PubInv, EndOperation
    PROVE  PubInv'
<1>1. PublisherTyped'
  BY DEF PubInv, PublisherTyped, EndOperation, Phases, AnyTemplate
<1>2. Content' /\ Honest' /\ AnswerHolds' /\ ResourceHolds'
  BY BucketKept DEF PubInv, Honest, AnswerHolds, EndOperation
<1>3. Asked'
  BY DEF PubInv, Asked, Awaiting, EndOperation
<1>4. Resolves(service)' /\ Resolves(deploying)'
  BY VersionsKept DEF EndOperation, serviceVars
<1> QED
  BY <1>1, <1>2, <1>3, <1>4 DEF PubInv

-----------------------------------------------------------------------------
(* The steps of the service and of the instances.                           *)

\* A version takes its uri from the resource that was published for it.
LEMMA UpdateServiceKeeps ==
    ASSUME PubInv, UpdateService
    PROVE  PubInv'
<1>1. target \in Templates /\ Has(target) /\ resource.uri = ConfigKey(target)
  BY PublishedHas DEF PubInv, Asked, UpdateService
<1> DEFINE v == [template |-> target, uri |-> resource.uri, number |-> updates]
<1>2. v.template = target /\ v.uri = resource.uri
  OBVIOUS
<1>3. \/ service' = v /\ current' = target /\ phase' = "cleanup" /\ deploying' = deploying
      \/ deploying' = v /\ UNCHANGED <<service, current, phase>>
  BY DEF UpdateService
<1> HIDE DEF v
<1>4. PublisherTyped'
  BY <1>1, <1>3 DEF PubInv, PublisherTyped, UpdateService, Phases, AnyTemplate
<1>5. Content' /\ Honest' /\ AnswerHolds' /\ ResourceHolds'
  BY BucketKept DEF PubInv, Honest, AnswerHolds, UpdateService
<1>6. Asked'
  BY <1>1, <1>3 DEF PubInv, Asked, Awaiting, UpdateService
<1>7. Resolves(service)' /\ Resolves(deploying)'
  BY <1>1, <1>2, <1>3 DEF PubInv, Resolves, Has, UpdateService
<1> QED
  BY <1>4, <1>5, <1>6, <1>7 DEF PubInv

LEMMA DeploymentDoneKeeps ==
    ASSUME PubInv, BringingUp, DeploymentDone
    PROVE  PubInv'
<1>1. target \in Templates /\ ~Awaiting
  BY DEF PubInv, Asked, BringingUp, DeploymentDone
<1>2. PublisherTyped'
  BY <1>1 DEF PubInv, PublisherTyped, DeploymentDone, Phases, AnyTemplate
<1>3. Content' /\ Honest' /\ AnswerHolds' /\ ResourceHolds'
  BY BucketKept DEF PubInv, Honest, AnswerHolds, DeploymentDone
<1>4. Asked'
  BY <1>1 DEF PubInv, Asked, Awaiting, DeploymentDone
<1>5. Resolves(service)' /\ Resolves(deploying)'
  BY DEF PubInv, Resolves, Has, DeploymentDone
<1> QED
  BY <1>2, <1>3, <1>4, <1>5 DEF PubInv

LEMMA DeploymentFailsKeeps ==
    ASSUME PubInv, BringingUp, DeploymentFails
    PROVE  PubInv'
<1>1. target \in Templates /\ ~Awaiting
  BY DEF PubInv, Asked, BringingUp, DeploymentFails
<1>2. PublisherTyped'
  BY DEF PubInv, PublisherTyped, DeploymentFails, Phases
<1>3. Content' /\ Honest' /\ AnswerHolds' /\ ResourceHolds'
  BY BucketKept DEF PubInv, Honest, AnswerHolds, DeploymentFails
<1>4. Asked'
  BY <1>1 DEF PubInv, Asked, Awaiting, DeploymentFails
<1>5. Resolves(service)' /\ Resolves(deploying)'
  BY DEF PubInv, Resolves, Has, DeploymentFails
<1> QED
  BY <1>2, <1>3, <1>4, <1>5 DEF PubInv

\* What none of the parts mentions may change at will.
LEMMA ElsewhereKeeps ==
    ASSUME PubInv, UNCHANGED <<stackVars, request, executions, objects, service, deploying>>
    PROVE  PubInv'
<1>1. Follows
  BY SucceededHas DEF PubInv, PublisherTyped, Follows
<1> QED
  BY <1>1, ExecutionsKeep

LEMMA InstancesElsewhere ==
    ASSUME (\E v \in {service, deploying} : StartInstance(v))
           \/ (\E i \in instances : InstanceStep(i) \/ InstanceCrash(i))
           \/ Quiescent \/ UNCHANGED dpvars
    PROVE  UNCHANGED <<stackVars, request, executions, objects, service, deploying>>
<1>1. CASE \E v \in {service, deploying} : StartInstance(v)
  BY <1>1 DEF StartInstance, Elsewhere
<1>2. CASE \E i \in instances : InstanceStep(i) \/ InstanceCrash(i)
  BY <1>2 DEF InstanceStep, Serve, StartFails, Sigterm, Stopped, InstanceCrash, Move, Exit, Elsewhere
<1>3. CASE Quiescent \/ UNCHANGED dpvars
  BY <1>3 DEF Quiescent, dpvars, serviceVars
<1> QED
  BY <1>1, <1>2, <1>3

LEMMA BringingUpKept ==
    ASSUME PubInv, BringingUp, [DPNext]_dpvars
    PROVE  BringingUp'
<1>1. CASE \E t \in Templates : StartOperation(t)
  BY <1>1 DEF BringingUp, StartOperation, serviceVars
<1>2. CASE StackStep
  BY <1>2 DEF BringingUp, Awaiting, NoSuccess, Published, serviceVars, stackVars, StackStep,
              UpdateRole, SendUpdate, PublisherSucceeded, PublisherFailed, SendRollback, RolledBack,
              RollbackFailed, FinishRollback, SendDelete, CleanedUp, EndOperation
<1>3. CASE UpdateService
  BY <1>3 DEF UpdateService, BringingUp, Awaiting, Published
<1>4. CASE DeploymentDone \/ DeploymentFails
  BY <1>4 DEF BringingUp, DeploymentDone, DeploymentFails
<1>5. ASSUME NEW x \in executions, Handler(x) \/ PublisherCrashes(x) \/ Duplicate(x)
      PROVE  BringingUp'
  <2>1. request' = request \/ request' = Answered(x, Status(x))
    BY <1>5 DEF Handler, Put, PutFails, Respond, RespondFails, PublisherCrashes, Duplicate
  <2>2. ~Awaiting => request' = request
    BY <2>1 DEF Answered, Awaiting
  <2>3. UNCHANGED <<stackVars, deploying>>
    BY <1>5 DEF Handler, Put, PutFails, Respond, RespondFails, PublisherCrashes, Duplicate, serviceVars
  <2> QED
    BY <2>2, <2>3 DEF BringingUp, Awaiting, Published, stackVars
<1>6. CASE UNCHANGED <<stackVars, request, deploying>>
  BY <1>6 DEF BringingUp, Awaiting, Published, stackVars
<1> QED
  BY <1>1, <1>2, <1>3, <1>4, <1>5, <1>6, InstancesElsewhere DEF DPNext, ServiceStep

LEMMA PublisherStep ==
    ASSUME PubInv, BringingUp, [DPNext]_dpvars
    PROVE  PubInv'
<1>1. CASE \E t \in Templates : StartOperation(t)
  BY <1>1, StartOperationKeeps
<1>2. CASE StackStep
  BY <1>2, UpdateRoleKeeps, SendUpdateKeeps, PublisherSucceededKeeps, PublisherFailedKeeps,
     SendRollbackKeeps, RolledBackKeeps, RollbackFailedKeeps, FinishRollbackKeeps, SendDeleteKeeps,
     CleanedUpKeeps, EndOperationKeeps DEF StackStep
<1>3. CASE ServiceStep
  BY <1>3, UpdateServiceKeeps, DeploymentDoneKeeps, DeploymentFailsKeeps DEF ServiceStep
<1>4. CASE \E x \in executions : Handler(x) \/ PublisherCrashes(x) \/ Duplicate(x)
  BY <1>4, HandlerKeeps
<1>5. CASE UNCHANGED <<stackVars, request, executions, objects, service, deploying>>
  BY <1>5, ElsewhereKeeps
<1> QED
  BY <1>1, <1>2, <1>3, <1>4, <1>5, InstancesElsewhere DEF DPNext

(***************************************************************************)
(* What was published stays, and CloudFormation's idea of it is right:      *)
(* whichever executions of the publisher run, late, twice, in parallel or   *)
(* for an operation that was rolled back.                                   *)
(***************************************************************************)
THEOREM PublisherInvariant == DPSpec => [](PubInv /\ BringingUp)
<1>1. DPInit => PubInv /\ BringingUp
  BY InitPublisher DEF DPInit, BringingUp
<1>2. PubInv /\ BringingUp /\ [DPNext]_dpvars => (PubInv /\ BringingUp)'
  BY PublisherStep, BringingUpKept
<1> QED
  BY <1>1, <1>2, PTL DEF DPSpec

(***************************************************************************)
(* The uri in the environment of the version that serves, and of the one    *)
(* that is brought up, is an object with the manifest of that version.      *)
(***************************************************************************)
THEOREM UrisResolve == DPSpec => []UriResolves
<1>1. PubInv => UriResolves
  <2> SUFFICES ASSUME PubInv, NEW v \in {service, deploying} \ {NoVersion}
               PROVE  v.uri \in DOMAIN objects /\ objects[v.uri] = Manifest(v.template)
    BY DEF UriResolves
  <2>1. Has(v.template) /\ v.uri = ConfigKey(v.template)
    BY DEF PubInv, Resolves
  <2> QED
    BY <2>1, KeysTyped DEF PubInv, Content, Has
<1> QED
  BY <1>1, PublisherInvariant, PTL

-----------------------------------------------------------------------------
(* The types of everything else.                                            *)

ServiceTyped ==
    /\ role \in AnyTemplate /\ touched \in BOOLEAN
    /\ DOMAIN objects \subseteq Uris /\ \A k \in DOMAIN objects : objects[k] \in Manifests
    /\ service \in Versions /\ deploying \in Versions /\ failed \in BOOLEAN
    /\ instances \subseteq Processes
    /\ updates \in 0 .. MaxUpdates /\ faults \in 0 .. MaxFaults /\ before \in 0 .. faults

\* A fault is counted, and up to the bound.
LEMMA FaultsTyped ==
    ASSUME ServiceTyped, UNCHANGED before, UNCHANGED faults \/ Fault
    PROVE  faults' \in 0 .. MaxFaults /\ before' \in 0 .. faults'
BY BoundsAssumption DEF ServiceTyped, Fault

LEMMA StackTypes ==
    ASSUME PubInv, ServiceTyped, StackStep
    PROVE  ServiceTyped'
<1>1. UNCHANGED <<objects, serviceVars, updates, faults, before>>
      /\ role' \in AnyTemplate /\ touched' \in BOOLEAN
  BY DEF StackStep, UpdateRole, SendUpdate, PublisherSucceeded, PublisherFailed, SendRollback,
         RolledBack, RollbackFailed, FinishRollback, SendDelete, CleanedUp, EndOperation,
         stackVars, Goal, PubInv, PublisherTyped, ServiceTyped
<1> QED
  BY <1>1 DEF ServiceTyped, serviceVars

LEMMA PublisherTypes ==
    ASSUME PubInv, ServiceTyped, NEW x \in executions,
           Handler(x) \/ PublisherCrashes(x) \/ Duplicate(x)
    PROVE  ServiceTyped'
<1>1. UNCHANGED <<stackVars, serviceVars, updates>> /\ (UNCHANGED faults \/ Fault)
  BY DEF Handler, Put, PutFails, Respond, RespondFails, PublisherCrashes, Duplicate
<1>2. faults' \in 0 .. MaxFaults /\ before' \in 0 .. faults'
  BY <1>1, FaultsTyped DEF stackVars
<1>3. DOMAIN objects' \subseteq Uris /\ \A k \in DOMAIN objects' : objects'[k] \in Manifests
  <2>1. CASE Put(x)
    <3>1. x.template \in Templates
      BY DEF PubInv, PublisherTyped, Executions
    <3>2. objects' = Stored(ConfigKey(x.template), Manifest(x.template))
      BY <2>1 DEF Put
    <3> QED
      BY <3>1, <3>2, KeysTyped DEF ServiceTyped, Stored
  <2>2. CASE objects' = objects
    BY <2>2 DEF ServiceTyped
  <2> QED
    BY <2>1, <2>2 DEF Handler, PutFails, Respond, RespondFails, PublisherCrashes, Duplicate
<1> QED
  BY <1>1, <1>2, <1>3 DEF ServiceTyped, stackVars, serviceVars

LEMMA ServiceTypes ==
    ASSUME PubInv, ServiceTyped, ServiceStep
    PROVE  ServiceTyped'
<1>1. UNCHANGED <<objects, role, touched, before, updates, faults>>
  BY DEF ServiceStep, UpdateService, DeploymentDone, DeploymentFails
<1>2. CASE UpdateService
  <2> DEFINE v == [template |-> target, uri |-> resource.uri, number |-> updates]
  <2>1. v \in Versions
    BY <1>2, BoundsAssumption DEF UpdateService, PubInv, PublisherTyped, Asked, Resources, Versions,
                                  ServiceTyped
  <2>2. \A i \in Processes : [i EXCEPT !.version = v] \in Processes
    BY <2>1 DEF Processes
  <2>3. \/ /\ service' = v /\ UNCHANGED <<deploying, failed>>
           /\ instances' = {IF i.version = service THEN [i EXCEPT !.version = v] ELSE i : i \in instances}
        \/ deploying' = v /\ failed' = FALSE /\ UNCHANGED <<service, instances>>
    BY <1>2 DEF UpdateService
  <2>4. instances' \subseteq Processes
    BY <2>2, <2>3 DEF ServiceTyped
  <2> QED
    BY <1>1, <2>1, <2>3, <2>4 DEF ServiceTyped
<1>3. CASE DeploymentDone \/ DeploymentFails
  BY <1>1, <1>3 DEF DeploymentDone, DeploymentFails, ServiceTyped, Versions
<1> QED
  BY <1>2, <1>3 DEF ServiceStep

LEMMA InstanceTypes ==
    ASSUME ServiceTyped,
           \/ \E v \in {service, deploying} : StartInstance(v)
           \/ \E i \in instances : InstanceStep(i) \/ InstanceCrash(i)
    PROVE  ServiceTyped'
<1>1. Elsewhere /\ (UNCHANGED faults \/ Fault)
  BY DEF StartInstance, InstanceStep, InstanceCrash, Serve, StartFails, Sigterm, Stopped, Move, Exit
<1>2. faults' \in 0 .. MaxFaults /\ before' \in 0 .. faults'
  BY <1>1, FaultsTyped DEF Elsewhere, stackVars
<1>3. failed' \in BOOLEAN /\ instances' \subseteq Processes
  <2>1. ASSUME NEW v \in {service, deploying}, StartInstance(v)
        PROVE  failed' = failed /\ instances' \subseteq Processes
    <3>1. [version |-> v, pc |-> "started", body |-> NoManifest] \in Processes
      BY DEF ServiceTyped, Processes
    <3> QED
      BY <2>1, <3>1 DEF StartInstance, ServiceTyped
  <2>2. ASSUME NEW i \in instances, Exit(i)
        PROVE  failed' \in BOOLEAN /\ instances' \subseteq Processes
    BY <2>2 DEF Exit, ServiceTyped
  <2>3. ASSUME NEW i \in instances, NEW pc \in {"serving", "draining"},
               NEW body \in Manifests \cup {NoManifest}, Move(i, pc, body)
        PROVE  failed' = failed /\ instances' \subseteq Processes
    <3>1. [i EXCEPT !.pc = pc, !.body = body] \in Processes
      BY DEF ServiceTyped, Processes
    <3> QED
      BY <2>3, <3>1 DEF Move, ServiceTyped
  <2>4. ASSUME NEW i \in instances, Serve(i)
        PROVE  failed' = failed /\ instances' \subseteq Processes
    <3>1. objects[i.version.uri] \in Manifests
      BY <2>4 DEF Serve, Starts, Readable, ServiceTyped
    <3> QED
      BY <2>3, <2>4, <3>1 DEF Serve
  <2>5. ASSUME NEW i \in instances, Sigterm(i)
        PROVE  failed' = failed /\ instances' \subseteq Processes
    <3>1. i.body \in Manifests \cup {NoManifest}
      BY DEF ServiceTyped, Processes
    <3> QED
      BY <2>3, <2>5, <3>1 DEF Sigterm
  <2>6. failed \in BOOLEAN
    BY DEF ServiceTyped
  <2> QED
    BY <2>1, <2>2, <2>4, <2>5, <2>6 DEF InstanceStep, InstanceCrash, StartFails, Stopped
<1> QED
  BY <1>1, <1>2, <1>3 DEF Elsewhere, stackVars, ServiceTyped

LEMMA TypesKept == PubInv /\ ServiceTyped /\ [DPNext]_dpvars => ServiceTyped'
<1> SUFFICES ASSUME PubInv, ServiceTyped, [DPNext]_dpvars PROVE ServiceTyped'
  OBVIOUS
<1>1. ASSUME NEW t \in Templates, StartOperation(t) PROVE ServiceTyped'
  <2>1. UNCHANGED <<role, touched, objects, serviceVars, faults>>
        /\ before' = faults /\ updates' = updates + 1 /\ updates < MaxUpdates
    BY <1>1 DEF StartOperation
  <2>2. updates' \in 0 .. MaxUpdates /\ before' \in 0 .. faults
    BY <2>1, BoundsAssumption DEF ServiceTyped
  <2> QED
    BY <2>1, <2>2 DEF ServiceTyped, serviceVars
<1>2. CASE Quiescent \/ UNCHANGED dpvars
  BY <1>2 DEF Quiescent, dpvars, stackVars, serviceVars, ServiceTyped
<1> QED
  BY <1>1, <1>2, StackTypes, PublisherTypes, ServiceTypes, InstanceTypes DEF DPNext

LEMMA InitServiceTyped == DPInit => ServiceTyped
<1> SUFFICES ASSUME DPInit PROVE ServiceTyped
  OBVIOUS
<1>1. DOMAIN objects = {}
  BY DEF DPInit
<1>2. 0 \in 0 .. MaxUpdates /\ 0 \in 0 .. MaxFaults /\ 0 \in 0 .. 0
  BY BoundsAssumption
<1> QED
  BY <1>1, <1>2 DEF DPInit, ServiceTyped, AnyTemplate, Versions

(***************************************************************************)
(* The variables keep their types, and faults are counted.                  *)
(***************************************************************************)
THEOREM DeploymentType == DPSpec => []DPTypeOK
<1>1. PubInv /\ ServiceTyped => DPTypeOK
  BY DEF PubInv, PublisherTyped, ServiceTyped, DPTypeOK
<1> QED
  BY <1>1, InitServiceTyped, TypesKept, PublisherInvariant, PTL DEF DPSpec

-----------------------------------------------------------------------------
(* Once an operation is over.                                               *)

\* A process was started for a published manifest, and serves that one.
RunsItsOwn(i) ==
    /\ Has(i.version.template) /\ i.version.uri = ConfigKey(i.version.template)
    /\ i.pc # "started" => i.body = Manifest(i.version.template) /\ Accepted(i.body)

Running == \A i \in instances : RunsItsOwn(i)

\* The role and the service are those of the current template, except for
\* what an operation in progress has changed already.
Standing ==
    /\ service # NoVersion => Accepted(Manifest(service.template))
    /\ current # NoTemplate => service # NoVersion /\ service.template = current
    /\ phase = "idle" => current # NoTemplate
    /\ phase \in {"idle", "cleanup"} => role = current
    /\ deploying # NoVersion => role = target /\ deploying.template = target

DeploymentInv == PubInv /\ BringingUp /\ Running /\ Standing

LEMMA ObjectsStay ==
    ASSUME PubInv, [DPNext]_dpvars
    PROVE  \A t : Has(t) => Has(t)'
<1>1. ASSUME NEW x \in executions, Put(x)
      PROVE  \A t : Has(t) => Has(t)'
  <2>1. x.template \in Templates
    BY DEF PubInv, PublisherTyped, Executions
  <2> QED
    BY <1>1, <2>1, StoredKeeps DEF PubInv, Put
<1>2. CASE objects' = objects
  BY <1>2 DEF Has
<1>3. objects' = objects \/ \E x \in executions : Put(x)
  BY InstancesElsewhere DEF DPNext, StartOperation, StackStep, UpdateRole, SendUpdate, PublisherSucceeded,
     PublisherFailed, SendRollback, RolledBack, RollbackFailed, FinishRollback, SendDelete, CleanedUp,
     EndOperation, ServiceStep, UpdateService, DeploymentDone, DeploymentFails, Handler, PutFails,
     Respond, RespondFails, PublisherCrashes, Duplicate
<1> QED
  BY <1>1, <1>2, <1>3

\* An update that is no deployment names another template of the same manifest.
LEMMA SameEnvironment ==
    ASSUME PubInv, UpdateService, Resolves(service), service # NoVersion,
           NEW v, v = [template |-> target, uri |-> resource.uri, number |-> updates],
           Environment(service) = Environment(v)
    PROVE  Manifest(service.template) = Manifest(target)
<1>1. target \in Templates /\ Has(target) /\ resource.uri = ConfigKey(target)
  BY PublishedHas DEF PubInv, Asked, UpdateService
<1>2. service.uri = ConfigKey(target)
  BY <1>1 DEF Environment
<1>3. ConfigKey(service.template) = ConfigKey(target)
  BY <1>2 DEF Resolves
<1> QED
  BY <1>1, <1>3, KeysTyped DEF Resolves, Has

LEMMA RunningKept ==
    ASSUME PubInv, BringingUp, Running, [DPNext]_dpvars
    PROVE  Running'
<1>1. \A t : Has(t) => Has(t)'
  BY ObjectsStay
<1>2. ASSUME NEW i, RunsItsOwn(i) PROVE RunsItsOwn(i)'
  BY <1>1, <1>2 DEF RunsItsOwn
<1>3. CASE \A i \in instances' : i \in instances
  BY <1>2, <1>3 DEF Running
<1>4. CASE UpdateService
  <2> DEFINE v == [template |-> target, uri |-> resource.uri, number |-> updates]
  <2>1. target \in Templates /\ Has(target) /\ resource.uri = ConfigKey(target)
    BY <1>4, PublishedHas DEF PubInv, Asked, UpdateService
  <2>2. v.template = target /\ v.uri = resource.uri
    OBVIOUS
  <2>3. CASE instances' = instances
    BY <1>3, <2>3
  <2>4. CASE service # NoVersion /\ Environment(service) = Environment(v)
    <3>1. Manifest(service.template) = Manifest(target)
      BY <1>4, <2>4, SameEnvironment DEF PubInv
    <3>2. instances' = {IF i.version = service THEN [i EXCEPT !.version = v] ELSE i : i \in instances}
      BY <1>4, <2>4 DEF UpdateService
    <3> HIDE DEF v
    <3>3. ASSUME NEW i \in instances, i.version = service
          PROVE  RunsItsOwn([i EXCEPT !.version = v])
      <4> DEFINE j == [i EXCEPT !.version = v]
      <4>1. j.version = v /\ j.pc = i.pc /\ j.body = i.body
        OBVIOUS
      <4> HIDE DEF j
      <4>2. RunsItsOwn(j)
        BY <2>1, <2>2, <3>1, <3>3, <4>1 DEF Running, RunsItsOwn
      <4> QED
        BY <4>2 DEF j
    <3> QED
      BY <1>2, <3>2, <3>3 DEF Running
  <2> QED
    BY <1>4, <2>3, <2>4 DEF UpdateService
<1>5. ASSUME NEW v \in {service, deploying}, StartInstance(v)
      PROVE  Running'
  <2> DEFINE i == [version |-> v, pc |-> "started", body |-> NoManifest]
  <2>1. RunsItsOwn(i)
    BY <1>5 DEF PubInv, Resolves, RunsItsOwn, StartInstance
  <2>2. instances' = instances \cup {i}
    BY <1>5 DEF StartInstance
  <2> QED
    BY <1>2, <2>1, <2>2 DEF Running
<1>6. ASSUME NEW i \in instances, InstanceStep(i) \/ InstanceCrash(i)
      PROVE  Running'
  <2>1. CASE Serve(i)
    <3> DEFINE j == [i EXCEPT !.pc = "serving", !.body = objects[i.version.uri]]
    <3>1. instances' = (instances \ {i}) \cup {j}
      BY <2>1 DEF Serve, Move
    <3>2. objects[i.version.uri] = Manifest(i.version.template) /\ Accepted(objects[i.version.uri])
      BY <2>1, KeysTyped DEF Serve, Starts, PubInv, Content, Running, RunsItsOwn, Has
    <3>3. j.version = i.version /\ j.body = objects[i.version.uri]
      OBVIOUS
    <3> HIDE DEF j
    <3>4. RunsItsOwn(j)
      BY <3>2, <3>3 DEF Running, RunsItsOwn
    <3> QED
      BY <1>2, <3>1, <3>4 DEF Running
  <2>2. CASE Sigterm(i)
    <3> DEFINE j == [i EXCEPT !.pc = "draining", !.body = i.body]
    <3>1. instances' = (instances \ {i}) \cup {j}
      BY <2>2 DEF Sigterm, Move
    <3>2. j.version = i.version /\ j.body = i.body /\ i.pc # "started"
      BY <2>2 DEF Sigterm
    <3> HIDE DEF j
    <3>3. RunsItsOwn(j)
      BY <3>2 DEF Running, RunsItsOwn
    <3> QED
      BY <1>2, <3>1, <3>3 DEF Running
  <2>3. CASE StartFails(i) \/ Stopped(i) \/ InstanceCrash(i)
    BY <1>3, <2>3 DEF StartFails, Stopped, InstanceCrash, Exit
  <2> QED
    BY <1>6, <2>1, <2>2, <2>3 DEF InstanceStep
<1>7. CASE instances' = instances
  BY <1>3, <1>7
<1> QED
  BY <1>4, <1>5, <1>6, <1>7 DEF DPNext, StartOperation, StackStep, UpdateRole, SendUpdate,
     PublisherSucceeded, PublisherFailed, SendRollback, RolledBack, RollbackFailed, FinishRollback,
     SendDelete, CleanedUp, EndOperation, ServiceStep, DeploymentDone, DeploymentFails, Handler, Put,
     PutFails, Respond, RespondFails, PublisherCrashes, Duplicate, Quiescent, dpvars, serviceVars

LEMMA StandingKept ==
    ASSUME PubInv, BringingUp, Running, Standing, [DPNext]_dpvars
    PROVE  Standing'
<1>1. CASE \E t \in Templates : StartOperation(t)
  BY <1>1 DEF Standing, BringingUp, StartOperation, serviceVars
<1>2. CASE StackStep
  BY <1>2 DEF Standing, BringingUp, Goal, serviceVars, stackVars, StackStep, UpdateRole, SendUpdate,
     PublisherSucceeded, PublisherFailed, SendRollback, RolledBack, RollbackFailed, FinishRollback,
     SendDelete, CleanedUp, EndOperation
<1>3. CASE UpdateService
  <2> DEFINE v == [template |-> target, uri |-> resource.uri, number |-> updates]
  <2>1. target \in Templates /\ v.template = target /\ role = target
    BY <1>3 DEF PubInv, Asked, UpdateService
  <2>2. v # NoVersion /\ target # NoTemplate
    BY <2>1, ConstantsTyped DEF NoVersion
  <2>3. CASE service # NoVersion /\ Environment(service) = Environment(v)
    <3>1. Manifest(service.template) = Manifest(target)
      BY <1>3, <2>3, SameEnvironment DEF PubInv
    <3>2. /\ service' = v /\ current' = target /\ phase' = "cleanup"
          /\ deploying' = deploying /\ role' = role /\ target' = target
      BY <1>3, <2>3 DEF UpdateService
    <3> HIDE DEF v
    <3> QED
      BY <1>3, <2>1, <2>2, <2>3, <3>1, <3>2 DEF Standing, UpdateService
  <2>4. CASE ~(service # NoVersion /\ Environment(service) = Environment(v))
    <3>1. /\ deploying' = v /\ UNCHANGED <<service, current, phase, role, target>>
      BY <1>3, <2>4 DEF UpdateService
    <3> HIDE DEF v
    <3> QED
      BY <2>1, <3>1 DEF Standing
  <2> QED
    BY <2>3, <2>4
<1>4. CASE DeploymentDone
  <2>1. phase = "updating" /\ target \in Templates /\ target # NoTemplate
    BY <1>4, ConstantsTyped DEF PubInv, Asked, BringingUp, DeploymentDone
  <2>2. Accepted(Manifest(deploying.template))
    BY <1>4 DEF DeploymentDone, Of, Ready, Running, RunsItsOwn
  <2> QED
    BY <1>4, <2>1, <2>2 DEF Standing, DeploymentDone
<1>5. CASE DeploymentFails
  BY <1>5 DEF Standing, DeploymentFails
<1>6. CASE UNCHANGED <<stackVars, service, deploying>>
  BY <1>6 DEF Standing, stackVars
<1> QED
  BY <1>1, <1>2, <1>3, <1>4, <1>5, <1>6, InstancesElsewhere DEF DPNext, ServiceStep, Handler, Put, PutFails,
     Respond, RespondFails, PublisherCrashes, Duplicate, serviceVars

LEMMA DeploymentInvariant == DPSpec => []DeploymentInv
<1>1. DPInit => DeploymentInv
  BY InitPublisher DEF DPInit, DeploymentInv, BringingUp, Running, Standing
<1>2. DeploymentInv /\ [DPNext]_dpvars => DeploymentInv'
  BY PublisherStep, BringingUpKept, RunningKept, StandingKept DEF DeploymentInv
<1> QED
  BY <1>1, <1>2, PTL DEF DPSpec

\* The gateway and the macro agree on the document: what a compiled table can
\* hand a request to, the macro has seen.
LEMMA ReachedIsCollected ==
    ASSUME NEW doc, Compiles(doc), NEW op \in Reachable(RoutesOf(doc))
    PROVE  op.lambda \in InvokeLambdaArns(doc)
<1> DEFINE routes == RoutesOf(doc)
<1>1. PICK m \in Methods, path \in Paths : op \in Route(routes, m, path).op
  BY DEF Reachable
<1>2. op \in MatchRequest(routes, m, path).op
  BY <1>1 DEF Route, Outcome
<1>3. PICK t \in At(routes, path) : m \in DOMAIN routes[t] /\ op = routes[t][m]
  BY <1>2 DEF MatchRequest, Outcome
<1>4. t \in DOMAIN doc /\ m \in Operations(doc, t) /\ op = doc[t][m]
  BY <1>3 DEF At, RoutesOf, Routed
<1>5. op.target = "function"
  BY <1>4 DEF Compiles, ValidOperation
<1>6. op \in OperationsOf(doc)
  BY <1>4 DEF OperationsOf, Operations
<1> QED
  BY <1>5, <1>6 DEF InvokeLambdaArns, Targeted

(***************************************************************************)
(* After any history of updates, failures and rollbacks, a settled stack    *)
(* can replace its instances: its role reads the manifest its environment   *)
(* names, and may invoke whatever the routes of that manifest lead to.      *)
(***************************************************************************)
THEOREM SettledCanReplace == DPSpec => []SettledMeansReplaceable
<1>1. DeploymentInv => SettledMeansReplaceable
  <2> SUFFICES ASSUME DeploymentInv, phase = "idle", ~current.prefix.slash
               PROVE  /\ Readable(service.uri)
                      /\ \A op \in Reachable(RoutesOf(Documents[objects[service.uri].spec])) :
                            op.lambda \in InvokeLambdaArns(Documents[role.spec])
    BY DEF SettledMeansReplaceable
  <2>1. /\ role = current /\ service # NoVersion /\ service.template = current
        /\ Accepted(Manifest(current))
    BY DEF DeploymentInv, Standing
  <2>2. Has(current) /\ service.uri = ConfigKey(current) /\ current \in Templates
    BY <2>1 DEF DeploymentInv, PubInv, Resolves, Has
  <2>3. objects[service.uri] = Manifest(current)
    BY <2>2, KeysTyped DEF DeploymentInv, PubInv, Content, Has
  <2>4. Manifest(current).spec = current.spec
    BY DEF Manifest
  <2>5. Readable(service.uri)
    <3>1. current.prefix.slash = FALSE /\ current # NoTemplate
      BY <2>2, TemplatesAssumption
    <3>2. Normalize(current.prefix) = current.prefix
      BY <2>2, <3>1, TemplatesAssumption DEF Normalize
    <3> QED
      BY <2>1, <2>2, <3>1, <3>2 DEF Readable, Covers, ConfigKey, Has
  <2>6. Compiles(Documents[current.spec])
    BY <2>1, <2>4 DEF Accepted
  <2> QED
    BY <2>1, <2>3, <2>4, <2>5, <2>6, ReachedIsCollected
<1> QED
  BY <1>1, DeploymentInvariant, PTL

-----------------------------------------------------------------------------
(* The table answers as the document says.  A template is the sequence of   *)
(* its bits, 1 where it has a literal: the table compares two templates at  *)
(* their first difference, the reference by the numbers the bits are.       *)

Bit(t, i) == IF t.segments[i].kind = "literal" THEN 1 ELSE 0

\* One step of Weight.
Weigh(x, bit) == 2 * x + bit

\* W has the weight of every prefix of t.
IsWeight(W, t) ==
    W = [i \in 0 .. Len(t.segments) |-> IF i = 0 THEN 0 ELSE Weigh(W[i - 1], Bit(t, i))]

WeightsOf(t) == CHOOSE W : IsWeight(W, t)

\* t and u agree in the kinds of their first n segments; t has the first literal.
Agree(t, u, n) == \A j \in 1 .. n : Bit(t, j) = Bit(u, j)
Leads(t, u, n) ==
    \E i \in 1 .. n : Bit(t, i) = 1 /\ Bit(u, i) = 0 /\ Agree(t, u, i - 1)

\* The recursive function of Weight exists, by induction on the length.
LEMMA WeightExists ==
    ASSUME NEW t, Len(t.segments) \in Nat
    PROVE  IsWeight(WeightsOf(t), t) /\ Weight(t) = WeightsOf(t)[Len(t.segments)]
<1> DEFINE Step(W, i) == IF i = 0 THEN 0 ELSE Weigh(W[i - 1], Bit(t, i))
           Upto(W, n) == \A i \in 0 .. n : W[i] = Step(W, i)
           Good == {n \in Nat : \E W : Upto(W, n)}
<1>1. 0 \in Good
  <2> DEFINE W == [i \in 0 .. 0 |-> 0]
  <2>1. Upto(W, 0)
    OBVIOUS
  <2> QED
    BY <2>1
<1>2. ASSUME NEW n \in Nat, n \in Good PROVE n + 1 \in Good
  <2>1. PICK V : Upto(V, n)
    BY <1>2
  <2> DEFINE W == [i \in 0 .. n + 1 |-> IF i <= n THEN V[i] ELSE Step(V, i)]
  <2>2. ASSUME NEW i \in 0 .. n + 1 PROVE Step(W, i) = Step(V, i)
    <3>1. CASE i = 0
      BY <3>1
    <3>2. CASE i # 0
      <4>1. i - 1 \in 0 .. n + 1 /\ i - 1 <= n
        BY <3>2
      <4>2. W[i - 1] = V[i - 1]
        BY <4>1
      <4> HIDE DEF W
      <4> QED
        BY <3>2, <4>2
    <3> QED
      BY <3>1, <3>2
  <2>3. ASSUME NEW i \in 0 .. n + 1 PROVE W[i] = Step(V, i)
    <3>1. CASE i <= n
      <4>1. i \in 0 .. n
        BY <3>1
      <4>2. W[i] = V[i]
        BY <3>1
      <4> HIDE DEF W
      <4> QED
        BY <2>1, <4>1, <4>2
    <3>2. CASE ~(i <= n)
      BY <3>2
    <3> QED
      BY <3>1, <3>2
  <2> HIDE DEF W, Step
  <2>4. Upto(W, n + 1)
    BY <2>2, <2>3
  <2> HIDE DEF Upto
  <2> QED
    BY <2>4
<1> HIDE DEF Good
<1>3. Len(t.segments) \in Good
  BY <1>1, <1>2, NatSetInduction
<1> USE DEF Good
<1>4. PICK V : Upto(V, Len(t.segments))
  BY <1>3
<1> DEFINE W == [i \in 0 .. Len(t.segments) |-> V[i]]
<1>5. ASSUME NEW i \in 0 .. Len(t.segments) PROVE Step(W, i) = Step(V, i)
  <2>1. CASE i # 0
    <3>1. i - 1 \in 0 .. Len(t.segments)
      BY <2>1
    <3>2. W[i - 1] = V[i - 1]
      BY <3>1
    <3> HIDE DEF W
    <3> QED
      BY <2>1, <3>2
  <2> QED
    BY <2>1
<1>6. W = [i \in 0 .. Len(t.segments) |-> Step(W, i)]
  <2>1. \A i \in 0 .. Len(t.segments) : V[i] = Step(W, i)
    BY <1>4, <1>5
  <2> HIDE DEF Step
  <2> QED
    BY <2>1
<1> HIDE DEF W
<1>7. IsWeight(W, t)
  BY <1>6 DEF IsWeight
<1>8. IsWeight(WeightsOf(t), t)
  BY <1>7 DEF WeightsOf
<1>9. Weight(t) = WeightsOf(t)[Len(t.segments)]
  BY DEF Weight, WeightsOf, IsWeight, Weigh, Bit
<1> QED
  BY <1>8, <1>9

LEMMA WeighKeeps ==
    ASSUME NEW x \in Nat, NEW y \in Nat, NEW b \in {0, 1}, NEW c \in {0, 1}
    PROVE  /\ Weigh(x, b) \in Nat
           /\ x = y /\ b = c => Weigh(x, b) = Weigh(y, c)
           /\ x = y /\ b > c => Weigh(x, b) > Weigh(y, c)
           /\ x > y => Weigh(x, b) > Weigh(y, c)
BY DEF Weigh

\* Of two templates of one length the heavier has the first literal.
LEMMA WeightIsOrder ==
    ASSUME NEW t, NEW u, NEW n \in Nat, Len(t.segments) = n, Len(u.segments) = n
    PROVE  /\ Weight(t) \in Nat /\ Weight(u) \in Nat
           /\ Agree(t, u, n) \/ Leads(t, u, n) \/ Leads(u, t, n)
           /\ Leads(t, u, n) => Weight(t) > Weight(u)
<1>1. PICK W, V : /\ IsWeight(W, t) /\ Weight(t) = W[n]
                  /\ IsWeight(V, u) /\ Weight(u) = V[n]
  BY WeightExists
<1>2. W[0] = 0 /\ V[0] = 0
  BY <1>1 DEF IsWeight
<1>3. \A i \in 1 .. n : W[i] = Weigh(W[i - 1], Bit(t, i)) /\ V[i] = Weigh(V[i - 1], Bit(u, i))
  <2> SUFFICES ASSUME NEW i \in 1 .. n
               PROVE W[i] = Weigh(W[i - 1], Bit(t, i)) /\ V[i] = Weigh(V[i - 1], Bit(u, i))
    OBVIOUS
  <2>1. i \in 0 .. n /\ i # 0
    OBVIOUS
  <2> QED
    BY <1>1, <2>1 DEF IsWeight
<1>4. \A i : Bit(t, i) \in {0, 1} /\ Bit(u, i) \in {0, 1}
  BY DEF Bit
<1> DEFINE Ordered(k) ==
             /\ W[k] \in Nat /\ V[k] \in Nat
             /\ \/ Agree(t, u, k) /\ W[k] = V[k]
                \/ Leads(t, u, k) /\ ~Leads(u, t, k) /\ W[k] > V[k]
                \/ Leads(u, t, k) /\ ~Leads(t, u, k) /\ V[k] > W[k]
           Good == {k \in Nat : k <= n => Ordered(k)}
<1>5. 0 \in Good
  BY <1>2 DEF Agree
<1>6. ASSUME NEW k \in Nat, k \in Good, k + 1 <= n PROVE Ordered(k + 1)
  <2>1. Ordered(k)
    BY <1>6
  <2>2. /\ W[k + 1] = Weigh(W[k], Bit(t, k + 1)) /\ V[k + 1] = Weigh(V[k], Bit(u, k + 1))
    <3>1. k + 1 \in 1 .. n /\ (k + 1) - 1 = k
      BY <1>6
    <3> QED
      BY <1>3, <3>1
  <2>3. PICK b \in {0, 1}, c \in {0, 1} : b = Bit(t, k + 1) /\ c = Bit(u, k + 1)
    BY <1>4
  <2>4. /\ Leads(t, u, k + 1) <=> Leads(t, u, k) \/ (b = 1 /\ c = 0 /\ Agree(t, u, k))
        /\ Leads(u, t, k + 1) <=> Leads(u, t, k) \/ (c = 1 /\ b = 0 /\ Agree(u, t, k))
    <3>1. \A i : i \in 1 .. k + 1 <=> i \in 1 .. k \/ i = k + 1
      OBVIOUS
    <3>2. (k + 1) - 1 = k
      OBVIOUS
    <3> QED
      BY <2>3, <3>1, <3>2 DEF Leads
  <2>5. Agree(t, u, k) /\ b = c => Agree(t, u, k + 1)
    <3>1. \A i \in 1 .. k + 1 : i \in 1 .. k \/ i = k + 1
      OBVIOUS
    <3> QED
      BY <2>3, <3>1 DEF Agree
  <2>6. Agree(t, u, k) <=> Agree(u, t, k)
    BY DEF Agree
  <2>7. Agree(t, u, k) => ~Leads(t, u, k) /\ ~Leads(u, t, k)
    BY DEF Agree, Leads
  <2>8. /\ W[k + 1] \in Nat /\ V[k + 1] \in Nat
        /\ W[k] = V[k] /\ b = c => W[k + 1] = V[k + 1]
        /\ W[k] = V[k] /\ b > c => W[k + 1] > V[k + 1]
        /\ V[k] = W[k] /\ c > b => V[k + 1] > W[k + 1]
        /\ W[k] > V[k] => W[k + 1] > V[k + 1]
        /\ V[k] > W[k] => V[k + 1] > W[k + 1]
    <3>1. PICK x \in Nat, y \in Nat : x = W[k] /\ y = V[k]
      BY <2>1
    <3>2. W[k + 1] = Weigh(x, b) /\ V[k + 1] = Weigh(y, c)
      BY <2>2, <2>3, <3>1
    <3>3. /\ Weigh(x, b) \in Nat /\ Weigh(y, c) \in Nat
          /\ x = y /\ b = c => Weigh(x, b) = Weigh(y, c)
          /\ x = y /\ b > c => Weigh(x, b) > Weigh(y, c)
          /\ y = x /\ c > b => Weigh(y, c) > Weigh(x, b)
          /\ x > y => Weigh(x, b) > Weigh(y, c)
          /\ y > x => Weigh(y, c) > Weigh(x, b)
      BY WeighKeeps
    <3> QED
      BY <3>1, <3>2, <3>3
  <2>10. CASE Agree(t, u, k) /\ W[k] = V[k]
    <3>1. CASE b = c
      BY <2>5, <2>8, <2>10, <3>1
    <3>2. CASE b = 1 /\ c = 0
      <4>1. W[k + 1] > V[k + 1]
        BY <2>8, <2>10, <3>2
      <4>2. Leads(t, u, k + 1) /\ ~Leads(u, t, k + 1)
        <5>1. Agree(t, u, k) /\ ~Leads(u, t, k) /\ c # 1
          BY <2>7, <2>10, <3>2
        <5> QED
          BY <2>4, <3>2, <5>1
      <4> QED
        BY <2>8, <4>1, <4>2
    <3>3. CASE b = 0 /\ c = 1
      <4>1. V[k + 1] > W[k + 1]
        BY <2>8, <2>10, <3>3
      <4>2. Leads(u, t, k + 1) /\ ~Leads(t, u, k + 1)
        <5>1. Agree(u, t, k) /\ ~Leads(t, u, k) /\ b # 1
          BY <2>6, <2>7, <2>10, <3>3
        <5> QED
          BY <2>4, <3>3, <5>1
      <4> QED
        BY <2>8, <4>1, <4>2
    <3> QED
      BY <3>1, <3>2, <3>3
  <2>11. CASE Leads(t, u, k) /\ ~Leads(u, t, k) /\ W[k] > V[k]
    <3>1. W[k + 1] > V[k + 1]
      BY <2>8, <2>11
    <3>2. Leads(t, u, k + 1) /\ ~Leads(u, t, k + 1)
      <4>1. ~Agree(u, t, k)
        BY <2>6, <2>7, <2>11
      <4> QED
        BY <2>4, <2>11, <4>1
    <3> QED
      BY <2>8, <3>1, <3>2
  <2>12. CASE Leads(u, t, k) /\ ~Leads(t, u, k) /\ V[k] > W[k]
    <3>1. V[k + 1] > W[k + 1]
      BY <2>8, <2>12
    <3>2. Leads(u, t, k + 1) /\ ~Leads(t, u, k + 1)
      <4>1. ~Agree(t, u, k)
        BY <2>7, <2>12
      <4> QED
        BY <2>4, <2>12, <4>1
    <3> QED
      BY <2>8, <3>1, <3>2
  <2> HIDE DEF Good
  <2> QED
    BY <2>1, <2>10, <2>11, <2>12
<1>7. ASSUME NEW k \in Nat, k \in Good PROVE k + 1 \in Good
  BY <1>6, <1>7
<1> HIDE DEF Good
<1>8. n \in Good
  BY <1>5, <1>7, NatSetInduction
<1> USE DEF Good
<1>9. Ordered(n)
  BY <1>8
<1>10. Agree(t, u, n) => ~Leads(t, u, n)
  BY DEF Agree, Leads
<1> QED
  BY <1>1, <1>9, <1>10

\* Templates that fit one path and agree everywhere are one to matchit.
LEMMA AgreeingShapes ==
    ASSUME NEW t, NEW u, NEW path, WellTyped(t), WellTyped(u), Fits(t, path), Fits(u, path),
           Agree(t, u, Len(path))
    PROVE  Shape(t) = Shape(u)
<1>1. Len(t.segments) = Len(path) /\ Len(u.segments) = Len(path)
  BY DEF Fits
<1>2. ASSUME NEW i \in 1 .. Len(path)
      PROVE  (IF t.segments[i].kind = "param" THEN Param("") ELSE t.segments[i])
               = (IF u.segments[i].kind = "param" THEN Param("") ELSE u.segments[i])
  <2> DEFINE a == t.segments[i].name
             b == u.segments[i].name
  <2>1. /\ t.segments[i] = Literal(a) \/ t.segments[i] = Param(a)
        /\ u.segments[i] = Literal(b) \/ u.segments[i] = Param(b)
    BY <1>1 DEF WellTyped
  <2> HIDE DEF a, b
  <2>2. t.segments[i].kind = "literal" <=> u.segments[i].kind = "literal"
    <3>1. Bit(t, i) = Bit(u, i)
      BY DEF Agree
    <3> QED
      BY <3>1 DEF Bit
  <2>3. CASE t.segments[i] = Literal(a) /\ u.segments[i] = Literal(b)
    <3>1. a = path[i] /\ b = path[i]
      BY <2>3 DEF Fits, Literal
    <3> QED
      BY <2>3, <3>1
  <2>4. CASE t.segments[i] = Param(a) /\ u.segments[i] = Param(b)
    BY <2>4 DEF Param
  <2>5. CASE t.segments[i] = Literal(a) /\ u.segments[i] = Param(b)
    <3>1. t.segments[i].kind = "literal" /\ u.segments[i].kind = "param"
      BY <2>5 DEF Literal, Param
    <3> QED
      BY <2>2, <3>1
  <2>6. CASE t.segments[i] = Param(a) /\ u.segments[i] = Literal(b)
    <3>1. t.segments[i].kind = "param" /\ u.segments[i].kind = "literal"
      BY <2>6 DEF Literal, Param
    <3> QED
      BY <2>2, <3>1
  <2> QED
    BY <2>1, <2>3, <2>4, <2>5, <2>6
<1> QED
  BY <1>1, <1>2, Zenon DEF Shape

\* What the tree walk prefers is what leads.
LEMMA PreferredLeads ==
    ASSUME NEW t, NEW u, NEW path, WellTyped(t), WellTyped(u), Fits(t, path), Fits(u, path)
    PROVE  Preferred(t, u) <=> Leads(t, u, Len(path))
<1>1. PICK n \in Nat : n = Len(path) /\ Len(t.segments) = n /\ Len(u.segments) = n
  BY DEF Fits, WellTyped
<1>2. \A i \in 1 .. n : t.segments[i].kind \in {"literal", "param"}
                        /\ u.segments[i].kind \in {"literal", "param"}
  <2>1. \A a : Literal(a).kind = "literal" /\ Param(a).kind = "param"
    BY DEF Literal, Param
  <2> QED
    BY <1>1, <2>1 DEF WellTyped
<1>3. \A i \in 1 .. n : /\ Bit(t, i) = 1 <=> t.segments[i].kind = "literal"
                        /\ Bit(u, i) = 0 <=> u.segments[i].kind = "param"
                        /\ Bit(t, i) = Bit(u, i) <=> t.segments[i].kind = u.segments[i].kind
  BY <1>2 DEF Bit
<1>4. \A i \in 1 .. n : \A j \in 1 .. i - 1 : j \in 1 .. n
  OBVIOUS
<1> QED
  BY <1>1, <1>3, <1>4 DEF Preferred, Leads, Agree

\* The templates of a document that fit a path and have an operation, and the
\* reference's choice among them.
LEMMA TableAgrees ==
    ASSUME NEW doc, Compiles(doc), \A t \in DOMAIN doc : WellTyped(t), NEW path
    PROVE  /\ At(RoutesOf(doc), path) = Declared(doc, path)
           /\ \A t, u \in Declared(doc, path) : t = u
<1> DEFINE F == {t \in Routed(doc) : Fits(t, path)}
<1>1. DOMAIN RoutesOf(doc) = Routed(doc)
  BY DEF RoutesOf
<1>2. At(RoutesOf(doc), path) = {t \in F : \A u \in F \ {t} : Preferred(t, u)}
  BY <1>1 DEF At
<1>3. Declared(doc, path) = {t \in F : \A u \in F : Weight(u) <= Weight(t)}
  BY DEF Declared, Routed, Operations
<1>4. ASSUME NEW t \in F, NEW u \in F, t # u
      PROVE  /\ Weight(t) \in Nat /\ Weight(u) \in Nat
             /\ Preferred(t, u) <=> Weight(t) > Weight(u)
             /\ Weight(t) # Weight(u)
  <2>1. /\ WellTyped(t) /\ WellTyped(u) /\ Fits(t, path) /\ Fits(u, path)
        /\ t \in Routed(doc) /\ u \in Routed(doc)
    BY DEF Routed
  <2>2. PICK n \in Nat : n = Len(path) /\ Len(t.segments) = n /\ Len(u.segments) = n
    BY <2>1 DEF Fits, WellTyped
  <2>3. ~Agree(t, u, n)
    BY <1>4, <2>1, <2>2, AgreeingShapes DEF Compiles
  <2>4. Preferred(t, u) <=> Leads(t, u, n)
    BY <2>1, <2>2, PreferredLeads
  <2>5. /\ Weight(t) \in Nat /\ Weight(u) \in Nat
        /\ Leads(t, u, n) \/ Leads(u, t, n)
        /\ Leads(t, u, n) => Weight(t) > Weight(u)
        /\ Leads(u, t, n) => Weight(u) > Weight(t)
    BY <2>2, <2>3, WeightIsOrder
  <2> QED
    BY <2>4, <2>5
<1>5. \A t \in F : Weight(t) \in Nat
  <2> SUFFICES ASSUME NEW t \in F PROVE Weight(t) \in Nat
    OBVIOUS
  <2>1. Len(t.segments) \in Nat
    BY DEF WellTyped, Routed
  <2> QED
    BY <2>1, WeightIsOrder
<1> HIDE DEF F
<1>6. ASSUME NEW t \in F
      PROVE  (\A u \in F \ {t} : Preferred(t, u)) <=> (\A u \in F : Weight(u) <= Weight(t))
  <2>1. ASSUME NEW u \in F, t # u PROVE Preferred(t, u) <=> Weight(u) <= Weight(t)
    BY <1>4, <2>1
  <2>2. Weight(t) <= Weight(t)
    BY <1>5
  <2> QED
    BY <2>1, <2>2
<1>7. ASSUME NEW t \in F, NEW u \in F, Weight(u) <= Weight(t), Weight(t) <= Weight(u)
      PROVE  t = u
  BY <1>4, <1>5, <1>7
<1> QED
  BY <1>2, <1>3, <1>6, <1>7

LEMMA CompiledAnswers ==
    ASSUME NEW doc, Compiles(doc), \A t \in DOMAIN doc : WellTyped(t)
    PROVE  AnswersAsDeclared(RoutesOf(doc), doc)
<1> SUFFICES ASSUME NEW m \in Methods, NEW path \in Paths \ BuiltinPaths,
                    NEW o, o = Route(RoutesOf(doc), m, path)
             PROVE  /\ o.route = Declared(doc, path)
                    /\ o.kind = "NotFound" <=> Declared(doc, path) = {}
                    /\ o.kind = "Matched" <=> \E t \in Declared(doc, path) : m \in DOMAIN doc[t]
                    /\ o.kind = "Matched" => \E t \in o.route : o.op = {doc[t][m]}
                    /\ o.kind = "MethodNotAllowed" =>
                          o.methods = {n \in Methods : Route(RoutesOf(doc), n, path).kind = "Matched"}
  BY DEF AnswersAsDeclared
<1> DEFINE routes == RoutesOf(doc)
           D == Declared(doc, path)
<1>1. At(routes, path) = D /\ \A t, u \in D : t = u
  BY TableAgrees
<1>2. \A n : Route(routes, n, path) = MatchRequest(routes, n, path)
  BY DEF Route
<1>3. CASE D = {}
  <2>1. o = Outcome("NotFound", {}, {}, {})
    BY <1>1, <1>2, <1>3 DEF MatchRequest
  <2> QED
    BY <1>3, <2>1 DEF Outcome
<1>4. CASE D # {}
  <2>1. PICK t : t \in D /\ D = {t}
    BY <1>1, <1>4
  <2>2. t \in Routed(doc)
    BY <2>1 DEF Declared, Routed, Operations
  <2>3. /\ DOMAIN routes[t] = DOMAIN doc[t] \cap Methods
        /\ \A n \in DOMAIN doc[t] \cap Methods : routes[t][n] = doc[t][n]
    BY <2>2 DEF RoutesOf, Operations
  <2>4. (CHOOSE x \in At(routes, path) : TRUE) = t
    BY <1>1, <2>1
  <2> HIDE DEF D, routes
  <2>5. ASSUME NEW n
        PROVE  Route(routes, n, path) =
                 IF n \in DOMAIN routes[t] THEN Outcome("Matched", {t}, {n}, {routes[t][n]})
                 ELSE Outcome("MethodNotAllowed", {t}, DOMAIN routes[t], {})
    <3>1. At(routes, path) # {}
      BY <1>1, <1>4
    <3> QED
      BY <1>2, <2>4, <3>1 DEF MatchRequest
  <2>6. \A n : Route(routes, n, path).kind = "Matched" <=> n \in DOMAIN routes[t]
    BY <2>5 DEF Outcome
  <2>7. o = Route(routes, m, path)
    BY DEF routes
  <2>8. o.route = {t} /\ o.kind # "NotFound"
    BY <2>5, <2>7 DEF Outcome
  <2>9. o.kind = "Matched" <=> m \in DOMAIN doc[t]
    BY <2>3, <2>6, <2>7
  <2>10. o.kind = "Matched" => o.op = {doc[t][m]}
    BY <2>3, <2>5, <2>6, <2>7 DEF Outcome
  <2>11. o.kind = "MethodNotAllowed" => o.methods = DOMAIN routes[t]
    BY <2>5, <2>7 DEF Outcome
  <2>12. DOMAIN routes[t] = {n \in Methods : Route(routes, n, path).kind = "Matched"}
    BY <2>3, <2>6
  <2>13. /\ o.route = D
         /\ o.kind = "NotFound" <=> D = {}
         /\ o.kind = "Matched" <=> \E x \in D : m \in DOMAIN doc[x]
         /\ o.kind = "Matched" => \E x \in o.route : o.op = {doc[x][m]}
         /\ o.kind = "MethodNotAllowed" =>
               o.methods = {n \in Methods : Route(routes, n, path).kind = "Matched"}
    BY <1>4, <2>1, <2>8, <2>9, <2>10, <2>11, <2>12
  <2> QED
    BY <2>13 DEF D, routes
<1> QED
  BY <1>3, <1>4

(***************************************************************************)
(* An instance that answers requests answers them as the document of its    *)
(* own template declares, for documents with any number of templates of any *)
(* length: the tree walk of matchit and the reference, which weighs the     *)
(* literals, choose the same operation, and the manifest the instance has   *)
(* loaded is its template's whatever the publisher and the stack have done. *)
(***************************************************************************)
THEOREM InstancesServeTheirTemplate == DPSpec => []ServesItsTemplate
<1>1. DeploymentInv => ServesItsTemplate
  <2> SUFFICES ASSUME DeploymentInv, NEW i \in instances, i.pc \in {"serving", "draining"}
               PROVE  AnswersAsDeclared(RoutesOf(Documents[i.body.spec]),
                                        Documents[i.version.template.spec])
    BY DEF ServesItsTemplate
  <2>1. RunsItsOwn(i)
    BY DEF DeploymentInv, Running
  <2>2. /\ i.body = Manifest(i.version.template) /\ Accepted(i.body)
        /\ i.version.template \in Templates
    BY <2>1 DEF RunsItsOwn, Has
  <2>3. i.body.spec = i.version.template.spec /\ i.body.spec \in DOMAIN Documents
    <3>1. \A t \in Templates : Manifest(t).spec = t.spec /\ t.spec \in DOMAIN Documents
      BY TemplatesAssumption DEF Manifest
    <3> QED
      BY <2>2, <3>1
  <2>4. Compiles(Documents[i.body.spec])
    BY <2>2 DEF Accepted
  <2> QED
    BY <2>3, <2>4, DocumentsAssumption, CompiledAnswers
<1> QED
  BY <1>1, DeploymentInvariant, PTL

-----------------------------------------------------------------------------
(* Why an operation is rolled back.                                         *)

\* An update in which nothing has gone wrong, of a template nobody refuses.
Faultless == phase = "updating" /\ faults = before /\ Deployable(target)

\* The request it waits for has an execution left that will not report failure.
WillAnswer ==
    Faultless =>
        /\ request.answer # "FAILED"
        /\ request.answer = "none" => \E x \in executions : x.id = request.id
        /\ Awaiting => \A x \in executions : x.id = request.id => x.try # "fail"

\* The number of a version is that of its operation: until a version is brought
\* up, what runs is from operations before.
Numbered ==
    /\ service.number <= updates /\ deploying.number <= updates
    /\ \A i \in instances : i.version.number <= updates
    /\ phase = "updating" /\ deploying = NoVersion =>
          service.number < updates /\ \A i \in instances : i.version.number < updates

\* No process of the version that is brought up is on its way out.
Arriving == deploying # NoVersion => \A i \in Of(deploying) : i.pc # "draining"

\* No process of the version that is brought up has exited while starting.
Succeeding == Faultless /\ deploying # NoVersion => ~failed

ReasonInv == WillAnswer /\ Numbered /\ Arriving /\ Succeeding

\* A step inside an update that nothing went wrong in either.
LEMMA StillFaultless ==
    ASSUME ServiceTyped, UNCHANGED <<target, before>>, UNCHANGED phase \/ phase' # "updating",
           UNCHANGED faults \/ Fault
    PROVE  Faultless' => Faultless /\ UNCHANGED <<phase, faults>>
<1>1. faults \in Nat /\ before \in Nat /\ before <= faults
  BY BoundsAssumption DEF ServiceTyped
<1>2. before' = before /\ target' = target
  OBVIOUS
<1>3. CASE Fault
  <2>1. faults' # before'
    BY <1>1, <1>2, <1>3 DEF Fault
  <2> QED
    BY <2>1 DEF Faultless
<1>4. CASE UNCHANGED faults
  BY <1>2, <1>4 DEF Faultless
<1> QED
  BY <1>3, <1>4

\* What a step leaves as it is, by what kind of a step it is.
LEMMA StackLeaves ==
    ASSUME StackStep
    PROVE  /\ UNCHANGED <<before, serviceVars, objects, updates, faults>>
           /\ UNCHANGED target \/ EndOperation
           /\ UNCHANGED phase \/ phase' # "updating"
BY DEF StackStep, UpdateRole, SendUpdate, PublisherSucceeded, PublisherFailed, SendRollback, RolledBack,
       RollbackFailed, FinishRollback, SendDelete, CleanedUp, EndOperation, stackVars

LEMMA PublisherLeaves ==
    ASSUME NEW x \in executions, Handler(x) \/ PublisherCrashes(x) \/ Duplicate(x)
    PROVE  UNCHANGED <<stackVars, serviceVars, updates>> /\ (UNCHANGED faults \/ Fault)
BY DEF Handler, Put, PutFails, Respond, RespondFails, PublisherCrashes, Duplicate

LEMMA InstancesLeave ==
    ASSUME (\E v \in {service, deploying} : StartInstance(v))
           \/ (\E i \in instances : InstanceStep(i) \/ InstanceCrash(i))
           \/ Quiescent \/ UNCHANGED dpvars
    PROVE  Elsewhere /\ (UNCHANGED faults \/ Fault)
BY DEF StartInstance, InstanceStep, InstanceCrash, Serve, StartFails, Sigterm, Stopped, Move, Exit,
       Elsewhere, Quiescent, dpvars, serviceVars

LEMMA SentWillAnswer ==
    ASSUME PubInv, ServiceTyped, SendUpdate
    PROVE  WillAnswer'
<1> SUFFICES ASSUME Faultless'
             PROVE  /\ request'.answer # "FAILED"
                    /\ request'.answer = "none" => \E x \in executions' : x.id = request'.id
                    /\ \A x \in executions' : x.id = request'.id => x.try # "fail"
  BY DEF WillAnswer
<1>1. PICK kind \in {"Create", "Update"} : Send(kind, target)
  BY DEF SendUpdate
<1> DEFINE r == [id |-> request.id + 1, kind |-> kind, template |-> target,
                 physical |-> resource.physical, answer |-> "none", uri |-> NoUri, made |-> Unnamed]
           y == Execution(r, 1)
<1>2. request' = r /\ executions' = executions \cup {y}
  BY <1>1 DEF Send
<1>3. y.id = r.id /\ y.try = First(kind, target)
  BY DEF Execution
<1>4. r.id = request.id + 1 /\ r.answer = "none"
  OBVIOUS
<1> HIDE DEF r, y
<1>5. PropertiesValid(target)
  BY DEF Faultless, Deployable, SendUpdate, PropertiesValid
<1>6. y.try = "put"
  BY <1>3, <1>5 DEF First
<1>7. \A x \in executions : x.id # r.id
  <2>1. \A x \in executions : x.id \in Nat /\ request.id \in Nat /\ x.id <= request.id
    BY DEF PubInv, PublisherTyped, Executions, Requests, Honest
  <2> QED
    BY <1>4, <2>1
<1> QED
  BY <1>2, <1>3, <1>4, <1>6, <1>7

LEMMA HandlerWillAnswer ==
    ASSUME PubInv, ServiceTyped, WillAnswer, NEW x \in executions,
           Handler(x) \/ PublisherCrashes(x) \/ Duplicate(x)
    PROVE  WillAnswer'
<1> SUFFICES ASSUME Faultless'
             PROVE  /\ request'.answer # "FAILED"
                    /\ request'.answer = "none" => \E y \in executions' : y.id = request'.id
                    /\ Awaiting' => \A y \in executions' : y.id = request'.id => y.try # "fail"
  BY DEF WillAnswer
<1>1. Faultless /\ UNCHANGED faults
  BY PublisherLeaves, StillFaultless DEF stackVars
<1>2. /\ request.answer # "FAILED"
      /\ request.answer = "none" => \E y \in executions : y.id = request.id
      /\ Awaiting => \A y \in executions : y.id = request.id => y.try # "fail"
  BY <1>1 DEF WillAnswer
<1>3. faults \in Nat
  BY BoundsAssumption DEF ServiceTyped
<1>4. Put(x) \/ Respond(x)
  BY <1>1, <1>3 DEF Handler, PutFails, RespondFails, PublisherCrashes, Duplicate, Fault
<1>5. x \in Executions /\ request \in Requests
  BY DEF PubInv, PublisherTyped
<1>6. CASE Put(x)
  <2> DEFINE z == [x EXCEPT !.try = "succeed", !.made = PhysicalId(x.template)]
  <2>1. executions' = (executions \ {x}) \cup {z} /\ request' = request
    BY <1>6 DEF Put, Becomes
  <2>2. z.id = x.id /\ z.try = "succeed"
    BY <1>5 DEF Executions
  <2> HIDE DEF z
  <2>3. request.answer = "none" => \E y \in executions' : y.id = request.id
    <3>1. ASSUME NEW y \in executions PROVE \E w \in executions' : w.id = y.id
      <4>1. CASE y = x
        BY <2>1, <2>2, <4>1
      <4>2. CASE y # x
        BY <2>1, <4>2
      <4> QED
        BY <4>1, <4>2
    <3> QED
      BY <1>2, <3>1
  <2> QED
    BY <1>2, <2>1, <2>2, <2>3 DEF Awaiting
<1>7. CASE Respond(x)
  <2>1. executions' = executions \ {x} /\ request' = Answered(x, Status(x)) /\ x.try \in {"succeed", "fail"}
    BY <1>7 DEF Respond, Ends
  <2>2. CASE request.id = x.id /\ request.answer = "none"
    <3>1. Status(x) = "SUCCESS"
      BY <1>2, <2>1, <2>2 DEF Status, Awaiting
    <3>2. request'.answer = "SUCCESS" /\ request'.id = request.id
      BY <1>5, <2>1, <2>2, <3>1 DEF Answered, Requests
    <3> QED
      BY <1>2, <2>1, <2>2, <3>2 DEF Awaiting
  <2>3. CASE ~(request.id = x.id /\ request.answer = "none")
    <3>1. request' = request
      BY <2>1, <2>3 DEF Answered
    <3> QED
      BY <1>2, <2>1, <2>3, <3>1 DEF Awaiting
  <2> QED
    BY <2>2, <2>3
<1> QED
  BY <1>4, <1>6, <1>7

LEMMA WillAnswerKept ==
    ASSUME PubInv, ServiceTyped, WillAnswer, [DPNext]_dpvars
    PROVE  WillAnswer'
<1>1. ASSUME UNCHANGED <<request, executions>>, Faultless' => Faultless PROVE WillAnswer'
  BY <1>1 DEF WillAnswer, Awaiting
<1>2. ASSUME request'.answer = "closed" PROVE WillAnswer'
  BY <1>2 DEF WillAnswer, Awaiting
<1>3. ASSUME phase' # "updating" PROVE WillAnswer'
  BY <1>3 DEF WillAnswer, Faultless
<1>4. CASE \E t \in Templates : StartOperation(t)
  BY <1>2, <1>4 DEF PubInv, Asked, Awaiting, StartOperation
<1>5. CASE StackStep
  <2>1. CASE SendUpdate
    BY <2>1, SentWillAnswer
  <2>2. CASE UpdateRole
    BY <1>1, <2>2, StillFaultless DEF UpdateRole
  <2>3. CASE PublisherSucceeded
    BY <1>2, <2>3, CloseKeeps DEF PublisherSucceeded
  <2>4. CASE ~UpdateRole /\ ~SendUpdate /\ ~PublisherSucceeded
    <3>1. phase' # "updating"
      BY <1>5, <2>4 DEF StackStep, PublisherFailed, SendRollback, RolledBack, RollbackFailed, FinishRollback,
         SendDelete, CleanedUp, EndOperation, stackVars
    <3> QED
      BY <1>3, <3>1
  <2> QED
    BY <2>1, <2>2, <2>3, <2>4
<1>6. CASE ServiceStep
  <2>1. UNCHANGED <<request, executions, target, before, faults>> /\ (UNCHANGED phase \/ phase' # "updating")
    BY <1>6 DEF ServiceStep, UpdateService, DeploymentDone, DeploymentFails
  <2> QED
    BY <1>1, <2>1, StillFaultless
<1>7. CASE \E x \in executions : Handler(x) \/ PublisherCrashes(x) \/ Duplicate(x)
  BY <1>7, HandlerWillAnswer
<1>8. CASE Elsewhere /\ (UNCHANGED faults \/ Fault)
  BY <1>1, <1>8, StillFaultless DEF Elsewhere, stackVars
<1> QED
  BY <1>4, <1>5, <1>6, <1>7, <1>8, InstancesLeave DEF DPNext

\* Versions are numbered by naturals, NoVersion by zero.
LEMMA NumbersTyped ==
    ASSUME ServiceTyped
    PROVE  /\ updates \in Nat /\ service.number \in Nat /\ deploying.number \in Nat
           /\ NoVersion.number = 0
           /\ \A i \in instances : i.version.number \in Nat
<1>1. \A v \in Versions : v.number \in Nat
  BY DEF Versions, NoVersion
<1> QED
  BY <1>1, BoundsAssumption DEF ServiceTyped, Processes, NoVersion

\* A process keeps its version, and is sent on its way out only when nobody
\* wants that version.
LEMMA ProcessesMove ==
    ASSUME ServiceTyped, NEW i \in instances, InstanceStep(i) \/ InstanceCrash(i)
    PROVE  \A j \in instances' : \E k \in instances :
              /\ j.version = k.version
              /\ j.pc = "draining" => k.pc = "draining" \/ ~Wanted(k.version)
<1>1. i \in Processes
  BY DEF ServiceTyped
<1>2. ASSUME NEW pc, NEW body, Move(i, pc, body), pc = "draining" => ~Wanted(i.version)
      PROVE  \A j \in instances' : \E k \in instances :
                /\ j.version = k.version
                /\ j.pc = "draining" => k.pc = "draining" \/ ~Wanted(k.version)
  <2> DEFINE z == [i EXCEPT !.pc = pc, !.body = body]
  <2>1. z.version = i.version /\ z.pc = pc
    BY <1>1 DEF Processes
  <2>2. instances' = (instances \ {i}) \cup {z}
    BY <1>2 DEF Move
  <2> HIDE DEF z
  <2> QED
    BY <1>2, <2>1, <2>2
<1>3. CASE Exit(i)
  BY <1>3 DEF Exit
<1>4. CASE Serve(i)
  BY <1>2, <1>4 DEF Serve
<1>5. CASE Sigterm(i)
  BY <1>2, <1>5 DEF Sigterm
<1> QED
  BY <1>3, <1>4, <1>5 DEF InstanceStep, StartFails, Stopped, InstanceCrash

LEMMA NumberedKept ==
    ASSUME PubInv, BringingUp, ServiceTyped, Numbered, [DPNext]_dpvars
    PROVE  Numbered'
<1>1. CASE \E t \in Templates : StartOperation(t)
  <2>1. updates' = updates + 1 /\ UNCHANGED <<service, deploying, instances>>
    BY <1>1 DEF StartOperation, serviceVars
  <2> QED
    BY <2>1, NumbersTyped DEF Numbered
<1>2. ASSUME UNCHANGED <<serviceVars, updates>>, UNCHANGED phase \/ phase' # "updating"
      PROVE  Numbered'
  BY <1>2 DEF Numbered, serviceVars
<1>3. CASE UpdateService
  <2> DEFINE v == [template |-> target, uri |-> resource.uri, number |-> updates]
  <2>1. v.number = updates /\ updates' = updates
    BY <1>3 DEF UpdateService
  <2>2. \/ /\ service' = v /\ deploying' = deploying /\ phase' = "cleanup"
           /\ instances' = {IF i.version = service THEN [i EXCEPT !.version = v] ELSE i : i \in instances}
        \/ deploying' = v /\ UNCHANGED <<service, instances>>
    BY <1>3 DEF UpdateService
  <2>3. v # NoVersion
    <3>1. v.template \in Templates
      BY <1>3 DEF PubInv, Asked, UpdateService
    <3> QED
      BY <3>1, ConstantsTyped DEF NoVersion
  <2>4. instances \subseteq Processes
    BY DEF ServiceTyped
  <2> HIDE DEF v
  <2>5. \A i \in Processes : [i EXCEPT !.version = v].version = v
    BY DEF Processes
  <2>6. updates <= updates
    BY NumbersTyped
  <2>7. ASSUME NEW j \in instances' PROVE j.version = v \/ j \in instances
    <3>1. CASE instances' = instances
      BY <3>1
    <3>2. CASE instances' = {IF i.version = service THEN [i EXCEPT !.version = v] ELSE i : i \in instances}
      <4>1. PICK i \in instances : j = IF i.version = service THEN [i EXCEPT !.version = v] ELSE i
        BY <3>2
      <4> QED
        BY <2>4, <2>5, <4>1
    <3> QED
      BY <2>2, <3>1, <3>2
  <2> QED
    BY <2>1, <2>2, <2>3, <2>6, <2>7 DEF Numbered
<1>4. CASE DeploymentDone \/ DeploymentFails
  <2>1. /\ service' \in {service, deploying} /\ deploying' = NoVersion
        /\ phase' # "updating" /\ UNCHANGED <<instances, updates>>
    BY <1>4 DEF DeploymentDone, DeploymentFails
  <2> QED
    BY <2>1, NumbersTyped DEF Numbered
<1>5. ASSUME NEW v \in {service, deploying}, StartInstance(v)
      PROVE  Numbered'
  <2> DEFINE z == [version |-> v, pc |-> "started", body |-> NoManifest]
  <2>1. /\ instances' = instances \cup {z} /\ z.version = v /\ v # NoVersion
        /\ UNCHANGED <<service, deploying, updates, phase>>
    BY <1>5 DEF StartInstance, Elsewhere, stackVars
  <2> HIDE DEF z
  <2> QED
    BY <2>1 DEF Numbered
<1>6. ASSUME NEW i \in instances, InstanceStep(i) \/ InstanceCrash(i)
      PROVE  Numbered'
  <2>1. \A j \in instances' : \E k \in instances : j.version = k.version
    BY <1>6, ProcessesMove
  <2>2. UNCHANGED <<service, deploying, updates, phase>>
    BY <1>6, InstancesLeave DEF Elsewhere, stackVars
  <2> QED
    BY <2>1, <2>2 DEF Numbered
<1>7. CASE Quiescent \/ UNCHANGED dpvars
  BY <1>2, <1>7 DEF Quiescent, dpvars, stackVars
<1>8. CASE \E x \in executions : Handler(x) \/ PublisherCrashes(x) \/ Duplicate(x)
  BY <1>2, <1>8, PublisherLeaves DEF stackVars
<1>9. CASE StackStep
  BY <1>2, <1>9, StackLeaves
<1> QED
  BY <1>1, <1>3, <1>4, <1>5, <1>6, <1>7, <1>8, <1>9 DEF DPNext, ServiceStep

LEMMA ArrivingKept ==
    ASSUME PubInv, ServiceTyped, Numbered, Arriving, [DPNext]_dpvars
    PROVE  Arriving'
<1>1. ASSUME UNCHANGED <<deploying, instances>> PROVE Arriving'
  BY <1>1 DEF Arriving, Of
<1>2. CASE UpdateService
  <2> DEFINE v == [template |-> target, uri |-> resource.uri, number |-> updates]
  <2>1. v.number = updates
    OBVIOUS
  <2>2. deploying' = NoVersion \/ (deploying' = v /\ UNCHANGED instances)
    BY <1>2 DEF UpdateService
  <2>3. \A i \in instances : i.version.number < updates /\ i.version.number \in Nat /\ updates \in Nat
    BY <1>2, NumbersTyped DEF Numbered, UpdateService
  <2> HIDE DEF v
  <2>4. \A i \in instances : i.version # v
    BY <2>1, <2>3
  <2> QED
    BY <2>2, <2>4 DEF Arriving, Of
<1>3. CASE DeploymentDone \/ DeploymentFails
  BY <1>3 DEF Arriving, DeploymentDone, DeploymentFails
<1>4. ASSUME NEW v \in {service, deploying}, StartInstance(v)
      PROVE  Arriving'
  BY <1>4 DEF Arriving, Of, StartInstance, Elsewhere
<1>5. ASSUME NEW i \in instances, InstanceStep(i) \/ InstanceCrash(i)
      PROVE  Arriving'
  <2>1. deploying' = deploying
    BY <1>5, InstancesLeave DEF Elsewhere
  <2> QED
    BY <1>5, <2>1, ProcessesMove DEF Arriving, Of, Wanted
<1>6. CASE Quiescent \/ UNCHANGED dpvars
  BY <1>1, <1>6 DEF Quiescent, dpvars, serviceVars
<1>7. CASE \E t \in Templates : StartOperation(t)
  BY <1>1, <1>7 DEF StartOperation, serviceVars
<1>8. CASE \E x \in executions : Handler(x) \/ PublisherCrashes(x) \/ Duplicate(x)
  BY <1>1, <1>8, PublisherLeaves DEF serviceVars
<1>9. CASE StackStep
  BY <1>1, <1>9, StackLeaves DEF serviceVars
<1> QED
  BY <1>2, <1>3, <1>4, <1>5, <1>6, <1>7, <1>8, <1>9 DEF DPNext, ServiceStep

\* A version of a template nobody refuses, brought up by its own operation, can
\* start, and is ready when it serves.
LEMMA DeployableStarts ==
    ASSUME DeploymentInv, deploying # NoVersion, Deployable(target)
    PROVE  /\ Starts(deploying)
           /\ \A i \in Of(deploying) : i.pc = "serving" => Ready(i)
<1>1. /\ role = target /\ deploying.template = target
      /\ target \in Templates /\ Has(target) /\ deploying.uri = ConfigKey(target)
  BY DEF DeploymentInv, Standing, PubInv, Resolves, Has
<1>2. objects[ConfigKey(target)] = Manifest(target) /\ ConfigKey(target) \in DOMAIN objects
  BY <1>1, KeysTyped DEF DeploymentInv, PubInv, Content, Has
<1>3. /\ ~target.prefix.slash /\ target.headers = "usable" /\ Accepted(Manifest(target))
      /\ Manifest(target).listen = target.port
  BY DEF Deployable
<1>4. Covers(role, ConfigKey(target))
  <2>1. target.prefix.slash = FALSE /\ target # NoTemplate
    BY <1>1, <1>3, TemplatesAssumption
  <2>2. Normalize(target.prefix) = target.prefix
    BY <1>1, <2>1, TemplatesAssumption DEF Normalize
  <2> QED
    BY <1>1, <2>1, <2>2 DEF Covers, ConfigKey
<1>5. Starts(deploying)
  BY <1>1, <1>2, <1>3, <1>4 DEF Starts, Readable
<1>6. ASSUME NEW i \in Of(deploying), i.pc = "serving" PROVE Ready(i)
  <2>1. i \in instances /\ i.version = deploying
    BY DEF Of
  <2>2. RunsItsOwn(i)
    BY <2>1 DEF DeploymentInv, Running
  <2>3. i.body = Manifest(target)
    BY <1>1, <1>6, <2>1, <2>2 DEF RunsItsOwn
  <2> QED
    BY <1>1, <1>3, <1>6, <2>1, <2>3 DEF Ready
<1> QED
  BY <1>5, <1>6

LEMMA SucceedingKept ==
    ASSUME DeploymentInv, ServiceTyped, Arriving, Succeeding, [DPNext]_dpvars
    PROVE  Succeeding'
<1>1. ASSUME deploying' = NoVersion PROVE Succeeding'
  BY <1>1 DEF Succeeding
<1>2. ASSUME UNCHANGED <<deploying, failed>>, Faultless' => Faultless PROVE Succeeding'
  BY <1>2 DEF Succeeding
<1>3. CASE \E t \in Templates : StartOperation(t)
  BY <1>1, <1>3 DEF DeploymentInv, BringingUp, StartOperation, serviceVars
<1>4. CASE StackStep
  <2>1. CASE EndOperation
    BY <2>1 DEF Succeeding, Faultless, EndOperation
  <2>2. CASE ~EndOperation
    BY <1>2, <1>4, <2>2, StackLeaves, StillFaultless DEF serviceVars
  <2> QED
    BY <2>1, <2>2
<1>5. CASE UpdateService
  BY <1>1, <1>5 DEF Succeeding, UpdateService
<1>6. CASE DeploymentDone \/ DeploymentFails
  BY <1>1, <1>6 DEF DeploymentDone, DeploymentFails
<1>7. CASE \E x \in executions : Handler(x) \/ PublisherCrashes(x) \/ Duplicate(x)
  BY <1>2, <1>7, PublisherLeaves, StillFaultless DEF stackVars, serviceVars
<1>8. CASE Elsewhere /\ (UNCHANGED faults \/ Fault) /\ UNCHANGED failed
  BY <1>2, <1>8, StillFaultless DEF Elsewhere, stackVars
<1>9. ASSUME NEW i \in instances, Exit(i), StartFails(i) \/ Stopped(i) \/ InstanceCrash(i)
      PROVE  Succeeding'
  <2> SUFFICES ASSUME Faultless', deploying' # NoVersion PROVE ~failed'
    BY DEF Succeeding
  <2>1. Elsewhere /\ (UNCHANGED faults \/ Fault)
    BY <1>9, InstancesLeave DEF InstanceStep
  <2>2. Faultless /\ UNCHANGED faults /\ deploying # NoVersion /\ ~failed
    BY <2>1, StillFaultless DEF Elsewhere, stackVars, Succeeding
  <2>3. CASE i.version # deploying
    BY <1>9, <2>2, <2>3 DEF Exit
  <2>4. CASE i.version = deploying
    <3>1. ~StartFails(i)
      BY <2>2, <2>4, DeployableStarts DEF StartFails, Faultless
    <3>2. ~Stopped(i)
      BY <2>2, <2>4 DEF Stopped, Arriving, Of, Wanted
    <3>3. ~InstanceCrash(i)
      <4>1. faults \in Nat
        BY BoundsAssumption DEF ServiceTyped
      <4> QED
        BY <2>2, <4>1 DEF InstanceCrash, Fault
    <3> QED
      BY <1>9, <3>1, <3>2, <3>3
  <2> QED
    BY <2>3, <2>4
<1>10. ASSUME NEW i \in instances, InstanceStep(i) \/ InstanceCrash(i)
       PROVE  Succeeding'
  <2>1. CASE StartFails(i) \/ Stopped(i) \/ InstanceCrash(i)
    BY <1>9, <2>1 DEF StartFails, Stopped, InstanceCrash
  <2>2. CASE Serve(i) \/ Sigterm(i)
    BY <1>8, <2>2 DEF Serve, Sigterm, Move
  <2> QED
    BY <1>10, <2>1, <2>2 DEF InstanceStep
<1>11. CASE \E v \in {service, deploying} : StartInstance(v)
  BY <1>8, <1>11 DEF StartInstance
<1>12. CASE Quiescent \/ UNCHANGED dpvars
  BY <1>8, <1>12 DEF Quiescent, dpvars, serviceVars, Elsewhere
<1> QED
  BY <1>3, <1>4, <1>5, <1>6, <1>7, <1>10, <1>11, <1>12 DEF DPNext, ServiceStep

\* Of the two steps that start a rollback neither is taken in a faultless update.
LEMMA RollbackBlames ==
    ASSUME DeploymentInv, ServiceTyped, ReasonInv, DPNext, phase = "updating", phase' = "rolling_back"
    PROVE  faults > before \/ ~Deployable(target)
<1>1. PublisherFailed \/ DeploymentFails
  <2>1. ~\E t \in Templates : StartOperation(t)
    BY DEF StartOperation
  <2>2. ~UpdateService /\ ~DeploymentDone
    BY DEF UpdateService, DeploymentDone
  <2>3. StackStep => PublisherFailed
    BY DEF StackStep, UpdateRole, SendUpdate, PublisherSucceeded, SendRollback, RolledBack, RollbackFailed,
           FinishRollback, SendDelete, CleanedUp, EndOperation, stackVars
  <2>4. ~UNCHANGED phase
    OBVIOUS
  <2>5. ~\E x \in executions : Handler(x) \/ PublisherCrashes(x) \/ Duplicate(x)
    BY <2>4, PublisherLeaves DEF stackVars
  <2>6. /\ ~\E v \in {service, deploying} : StartInstance(v)
        /\ ~\E i \in instances : InstanceStep(i) \/ InstanceCrash(i)
        /\ ~Quiescent
    BY <2>4, InstancesLeave DEF Elsewhere, stackVars
  <2> QED
    BY <2>1, <2>2, <2>3, <2>5, <2>6 DEF DPNext, ServiceStep
<1>2. SUFFICES ASSUME Faultless PROVE FALSE
  <2>1. faults \in Nat /\ before \in Nat /\ before <= faults
    BY BoundsAssumption DEF ServiceTyped
  <2> QED
    BY <1>2, <2>1 DEF Faultless
<1>3. ~PublisherFailed
  <2>1. ~NoSuccess
    BY <1>2 DEF ReasonInv, WillAnswer, NoSuccess
  <2> QED
    BY <2>1 DEF PublisherFailed
<1>4. ~DeploymentFails
  BY <1>2, DeployableStarts DEF DeploymentFails, ReasonInv, Succeeding, Faultless
<1> QED
  BY <1>1, <1>3, <1>4

(***************************************************************************)
(* An operation is rolled back for a fault since it started or for its own  *)
(* template, whatever late executions, processes and roles the operations   *)
(* before it have left, for any number of them.                             *)
(***************************************************************************)
THEOREM RollbacksAreCaused == DPSpec => RollbackHasReason
<1>1. DPInit => ServiceTyped /\ ReasonInv
  <2> SUFFICES ASSUME DPInit PROVE ServiceTyped /\ ReasonInv
    OBVIOUS
  <2>1. ServiceTyped
    BY InitServiceTyped
  <2> QED
    BY <2>1 DEF DPInit, ReasonInv, WillAnswer, Numbered, Arriving, Succeeding, Faultless, NoVersion
<1>2. DeploymentInv /\ ServiceTyped /\ ReasonInv /\ [DPNext]_dpvars => (ServiceTyped /\ ReasonInv)'
  BY TypesKept, WillAnswerKept, NumberedKept, ArrivingKept, SucceedingKept DEF ReasonInv, DeploymentInv
<1>3. DeploymentInv /\ ServiceTyped /\ ReasonInv /\ [DPNext]_dpvars =>
        [phase = "updating" /\ phase' = "rolling_back" => faults > before \/ ~Deployable(target)]_dpvars
  BY RollbackBlames
<1> QED
  BY <1>1, <1>2, <1>3, DeploymentInvariant, PTL DEF DPSpec, RollbackHasReason
=============================================================================
