------------------------- MODULE LayerProxy_proofs --------------------------
(***************************************************************************)
(* Proofs about LayerProxy, for every set of workers and every sequence of  *)
(* outer invocations, with workers that go away and a Runtime API that      *)
(* fails.                                                                   *)
(***************************************************************************)
EXTENDS LayerProxy, SequenceLemmas, FiniteSetTheorems

\* Who fetches, and the flag.
FetchHolds ==
    /\ \A v, w \in Fetchers : v = w
    /\ Fetchers # {} => active = "none" /\ fetching
    /\ FetchFlagOwned

\* No two workers were given the same, and what was given is known.
JobsHold ==
    /\ \A v, w \in Workers : job[v] = job[w] => v = w \/ job[v] = Nobody
    /\ \A w \in Workers : pc[w] \in {"run", "forward"} => job[w] # Nobody
    /\ \A w \in Workers : pc[w] = "forward" => active = "pass" /\ job[w] = outer
    /\ \A w \in Workers : pc[w] = "install" => job[w] \in Outers
    /\ \A w \in Workers : job[w] \in Outers => job[w] \in given

\* The active invocation is one that upstream has handed out.
ActiveHolds ==
    active # "none" =>
        /\ outer \in given
        /\ active = "pass" => KindOf[outer] = "pass"
        /\ active \in {"batch", "finalizing"} => KindOf[outer] = "batch"
        /\ active = "batch" => outer \notin finished
        /\ active = "pass" /\ ~delivered => \A w \in Workers : job[w] # outer

\* Of an invocation that is not installed yet nothing is under way.
Fresh(o) == o \notin given \/ \E w \in Workers : pc[w] = "install" /\ job[w] = o
FreshHolds ==
    \A o \in Outers : Fresh(o) =>
        /\ records[o] = <<>>
        /\ o \notin finished
        /\ \A w \in Workers : job[w] \notin Range(VirtualsOf[o])

\* The parts of the active batch are apart from each other.
BatchHolds ==
    active = "batch" =>
        /\ IsInjective(queue) /\ IsInjective(records[outer]) /\ IsFiniteSet(inflight)
        /\ Range(queue) \cap inflight = {}
        /\ Range(queue) \cap Range(records[outer]) = {}
        /\ inflight \cap Range(records[outer]) = {}
        /\ \A w \in Workers : job[w] \notin Range(queue)

LPInv ==
    /\ LPTypeOK
    /\ FetchHolds /\ JobsHold /\ ActiveHolds /\ FreshHolds /\ BatchHolds
    /\ VirtualsAccounted /\ ResponseComplete

-----------------------------------------------------------------------------
LEMMA RangeOfEmpty == Range(<<>>) = {} /\ IsInjective(<<>>)
BY DEF Range, IsInjective

LEMMA InitProxy == LPInit => LPInv
<1> SUFFICES ASSUME LPInit PROVE LPInv
  OBVIOUS
<1>1. LPTypeOK
  <2>1. <<>> \in Seq(Ids)
    OBVIOUS
  <2> QED
    BY <2>1 DEF LPInit, LPTypeOK, PcStates
<1>2. FetchHolds
  BY DEF LPInit, FetchHolds, FetchFlagOwned, Fetchers
<1>3. JobsHold /\ ActiveHolds /\ BatchHolds /\ VirtualsAccounted
  BY OutersAssumption DEF LPInit, JobsHold, ActiveHolds, BatchHolds, VirtualsAccounted
<1>4. FreshHolds
  <2> SUFFICES ASSUME NEW o \in Outers, NEW w \in Workers
               PROVE  job[w] \notin Range(VirtualsOf[o])
    BY DEF LPInit, FreshHolds
  <2>1. job[w] = Nobody /\ Range(VirtualsOf[o]) \subseteq Ids
    BY DEF LPInit, Ids
  <2> QED
    BY <2>1, IdsAssumption
<1>5. ResponseComplete
  BY DEF LPInit, ResponseComplete
<1> QED
  BY <1>1, <1>2, <1>3, <1>4, <1>5 DEF LPInv

(***************************************************************************)
(* Worker w goes on without a change of the proxy's state: it may drop what *)
(* it was given, and the Runtime API may take the response it forwards.     *)
(***************************************************************************)
LEMMA QuietKeeps ==
    ASSUME LPInv, NEW w \in Workers, NEW s \in PcStates \ {"run", "fetch", "install"},
           UNCHANGED <<pvars, records, given>>,
           pc' = [pc EXCEPT ![w] = s],
           \/ job' = job
           \/ job' = [job EXCEPT ![w] = Nobody] /\ s # "forward",
           s = "forward" => active = "pass" /\ job[w] = outer,
           s = "fetch_failed" => w \in Fetchers,
           w \in Fetchers => s = "fetch_failed" \/ gone',
           gone' \in BOOLEAN, gone => gone',
           \/ finished' = finished
           \/ finished' = finished \cup {job[w]} /\ pc[w] = "forward"
    PROVE  LPInv'
<1>1. /\ pc \in [Workers -> PcStates] /\ pc' \in [Workers -> PcStates]
      /\ job \in [Workers -> Outers \cup Ids \cup {Nobody}]
      /\ job' \in [Workers -> Outers \cup Ids \cup {Nobody}]
      /\ \A v \in Workers : v # w => pc'[v] = pc[v] /\ job'[v] = job[v]
      /\ pc'[w] = s /\ job'[w] \in {job[w], Nobody}
      /\ s = "forward" => job'[w] = job[w]
  BY DEF LPInv, LPTypeOK
<1>2. Nobody \notin Outers /\ \A o \in Outers : Nobody \notin Range(VirtualsOf[o])
  BY OutersAssumption, IdsAssumption DEF Ids
<1>3. finished' \subseteq given
      /\ \A o \in finished' : o \in finished \/ (o = outer /\ active = "pass")
  BY DEF LPInv, LPTypeOK, JobsHold, ActiveHolds
<1>4. /\ active' = active /\ outer' = outer /\ queue' = queue /\ inflight' = inflight
      /\ delivered' = delivered /\ fetching' = fetching
      /\ records' = records /\ given' = given
  BY DEF pvars
<1>5. LPTypeOK'
  BY <1>1, <1>3, <1>4 DEF LPInv, LPTypeOK
<1>6. FetchHolds'
  <2>1. Fetchers' \subseteq Fetchers
    BY <1>1 DEF Fetchers
  <2>2. Fetchers # {} => Fetchers' # {} \/ gone'
    BY <1>1 DEF LPInv, FetchHolds, Fetchers
  <2> QED
    BY <1>4, <2>1, <2>2 DEF LPInv, FetchHolds, FetchFlagOwned
<1>7. JobsHold'
  <2>1. \A v \in Workers : job'[v] \in {job[v], Nobody}
    BY <1>1
  <2>2. \A v \in Workers : pc'[v] \in {"run", "install"} => pc[v] = pc'[v] /\ job'[v] = job[v]
    BY <1>1
  <2>3. \A v \in Workers : pc'[v] = "forward" =>
            job'[v] = job[v] /\ active = "pass" /\ job[v] = outer
    BY <1>1 DEF LPInv, JobsHold
  <2>4. active = "pass" => outer \in Outers
    BY DEF LPInv, ActiveHolds, LPTypeOK
  <2> QED
    BY <1>2, <1>4, <2>1, <2>2, <2>3, <2>4 DEF LPInv, JobsHold
<1>8. ActiveHolds'
  BY <1>1, <1>2, <1>3, <1>4, OutersAssumption DEF LPInv, LPTypeOK, ActiveHolds
<1>9. FreshHolds'
  <2> SUFFICES ASSUME NEW o \in Outers, Fresh(o)'
               PROVE  /\ records'[o] = <<>> /\ o \notin finished'
                      /\ \A v \in Workers : job'[v] \notin Range(VirtualsOf[o])
    BY DEF FreshHolds
  <2>1. Fresh(o)
    BY <1>1, <1>4 DEF Fresh
  <2>2. o = outer => active # "pass"
    <3> SUFFICES ASSUME o = outer, active = "pass" PROVE FALSE
      OBVIOUS
    <3>1. o \in given /\ Fetchers = {}
      BY DEF LPInv, ActiveHolds, FetchHolds
    <3> QED
      BY <2>1, <3>1 DEF Fresh, Fetchers
  <2>3. records'[o] = <<>> /\ o \notin finished'
    BY <1>3, <1>4, <2>1, <2>2 DEF LPInv, FreshHolds
  <2>4. \A v \in Workers : job'[v] \in {job[v], Nobody}
    BY <1>1
  <2>5. \A v \in Workers : job'[v] \notin Range(VirtualsOf[o])
    BY <1>2, <2>1, <2>4 DEF LPInv, FreshHolds
  <2> QED
    BY <2>3, <2>5
<1>10. BatchHolds'
  <2>1. ASSUME active = "batch" PROVE \A v \in Workers : job'[v] \notin Range(queue)
    <3>1. outer \in Outers /\ Range(queue) \subseteq Range(VirtualsOf[outer])
      BY <2>1 DEF LPInv, VirtualsAccounted, ActiveHolds, LPTypeOK
    <3>2. Nobody \notin Range(queue)
      BY <1>2, <3>1
    <3> QED
      BY <1>1, <2>1, <3>2 DEF LPInv, BatchHolds
  <2> QED
    BY <1>4, <2>1 DEF LPInv, BatchHolds
<1>11. VirtualsAccounted'
  BY <1>4 DEF LPInv, VirtualsAccounted
<1>12. ResponseComplete'
  <2>1. active = "pass" => outer \notin Batches
    BY DEF LPInv, ActiveHolds, Batches
  <2> QED
    BY <1>3, <1>4, <2>1 DEF LPInv, ResponseComplete
<1> QED
  BY <1>5, <1>6, <1>7, <1>8, <1>9, <1>10, <1>11, <1>12 DEF LPInv

LEMMA QuietSteps ==
    ASSUME LPInv, NEW w \in Workers,
           \/ CallNext(w) \/ TakeNothing(w) \/ DecideToWait(w) \/ Register(w)
           \/ UpstreamNextFails(w) \/ CompletePass(w) \/ CompleteUnknown(w)
           \/ ForwardFails(w) \/ Disconnect(w)
    PROVE  LPInv'
<1>1. gone \in BOOLEAN
  BY DEF LPInv, LPTypeOK
<1>2. pc \in [Workers -> PcStates] /\ job \in [Workers -> Outers \cup Ids \cup {Nobody}]
  BY DEF LPInv, LPTypeOK
<1>3. /\ {"idle", "take", "check", "unregistered", "waiting", "forward", "fetch_failed"}
            \subseteq PcStates \ {"run", "fetch", "install"}
      /\ \A v \in Workers : v \in Fetchers <=> pc[v] \in {"fetch", "install", "fetch_failed"}
  BY DEF PcStates, Fetchers
<1>4. CASE CallNext(w)
  <2>1. /\ UNCHANGED <<pvars, records, given>> /\ finished' = finished /\ gone' = gone
        /\ pc' = [pc EXCEPT ![w] = "take"] /\ job' = [job EXCEPT ![w] = Nobody]
        /\ w \notin Fetchers
    BY <1>3, <1>4 DEF CallNext, Goes, svars
  <2> QED
    BY <1>1, <1>3, <2>1, QuietKeeps
<1>5. CASE TakeNothing(w)
  <2>1. /\ UNCHANGED <<pvars, records, given>> /\ finished' = finished /\ gone' = gone
        /\ pc' = [pc EXCEPT ![w] = "check"] /\ job' = job
        /\ w \notin Fetchers
    BY <1>3, <1>5 DEF TakeNothing, Goes, svars
  <2> QED
    BY <1>1, <1>3, <2>1, QuietKeeps
<1>6. CASE DecideToWait(w)
  <2>1. /\ UNCHANGED <<pvars, records, given>> /\ finished' = finished /\ gone' = gone
        /\ pc' = [pc EXCEPT ![w] = "unregistered"] /\ job' = job
        /\ w \notin Fetchers
    BY <1>3, <1>6 DEF DecideToWait, Goes, svars
  <2> QED
    BY <1>1, <1>3, <2>1, QuietKeeps
<1>7. CASE Register(w)
  <2>1. /\ UNCHANGED <<pvars, records, given>> /\ finished' = finished /\ gone' = gone
        /\ pc' = [pc EXCEPT ![w] = "waiting"] /\ job' = job
        /\ w \notin Fetchers
    BY <1>3, <1>7 DEF Register, Goes, svars
  <2> QED
    BY <1>1, <1>3, <2>1, QuietKeeps
<1>8. CASE UpstreamNextFails(w)
  <2>1. /\ UNCHANGED <<pvars, records, given>> /\ finished' = finished /\ gone' = gone
        /\ pc' = [pc EXCEPT ![w] = "fetch_failed"] /\ job' = job
        /\ w \in Fetchers
    BY <1>3, <1>8 DEF UpstreamNextFails, Goes, svars
  <2> QED
    BY <1>1, <1>3, <2>1, QuietKeeps
<1>9. CASE CompletePass(w)
  <2>1. /\ UNCHANGED <<pvars, records, given>> /\ finished' = finished /\ gone' = gone
        /\ pc' = [pc EXCEPT ![w] = "forward"] /\ job' = job
        /\ w \notin Fetchers /\ active = "pass" /\ job[w] = outer
    BY <1>3, <1>9 DEF CompletePass, Posts, Goes, svars
  <2> QED
    BY <1>1, <1>3, <2>1, QuietKeeps
<1>10. CASE CompleteUnknown(w)
  <2>1. /\ UNCHANGED <<pvars, records, given>> /\ finished' = finished /\ gone' = gone
        /\ pc' = [pc EXCEPT ![w] = "idle"] /\ job' = job
        /\ w \notin Fetchers
    BY <1>3, <1>10 DEF CompleteUnknown, Posts, Goes, svars
  <2> QED
    BY <1>1, <1>3, <2>1, QuietKeeps
<1>11. CASE ForwardFails(w)
  <2>1. /\ UNCHANGED <<pvars, records, given>> /\ gone' = gone
        /\ finished' = finished \/ (finished' = finished \cup {job[w]} /\ pc[w] = "forward")
        /\ pc' = [pc EXCEPT ![w] = "idle"] /\ job' = job
        /\ w \notin Fetchers
    BY <1>3, <1>11 DEF ForwardFails, Goes
  <2> QED
    BY <1>1, <1>3, <2>1, QuietKeeps
<1>12. CASE Disconnect(w)
  <2>1. UNCHANGED <<pvars, records, given>> /\ pc' = [pc EXCEPT ![w] = "idle"]
    BY <1>12 DEF Disconnect, Goes
  <2>4. finished' = finished \/ (finished' = finished \cup {job[w]} /\ pc[w] = "forward")
    BY <1>12 DEF Disconnect
  <2>2. gone' \in BOOLEAN /\ (gone => gone') /\ (w \in Fetchers => gone')
    BY <1>1, <1>3, <1>12 DEF Disconnect
  <2>3. job' = job \/ job' = [job EXCEPT ![w] = Nobody]
    BY <1>2, <1>12 DEF Disconnect
  <2> QED
    BY <1>3, <2>1, <2>2, <2>3, <2>4, QuietKeeps
<1> QED
  BY <1>4, <1>5, <1>6, <1>7, <1>8, <1>9, <1>10, <1>11, <1>12

-----------------------------------------------------------------------------
(* The fetch of an outer invocation.                                        *)

\* With nothing active most of the invariant holds by itself.
LEMMA NothingActive ==
    ASSUME active' = "none", ResponseComplete, UNCHANGED <<records, finished>>
    PROVE  ActiveHolds' /\ BatchHolds' /\ VirtualsAccounted' /\ ResponseComplete'
BY DEF ActiveHolds, BatchHolds, VirtualsAccounted, ResponseComplete

\* A fetch that ends without an invocation resets the flag.
LEMMA FetchEnds ==
    ASSUME LPInv, NEW w \in Workers, FetchFailed(w) \/ InstallBad(w)
    PROVE  LPInv'
<1>1. w \in Fetchers
  BY DEF FetchFailed, InstallBad, Fetchers
<1>2. active = "none" /\ \A v \in Workers : v # w => v \notin Fetchers
  BY <1>1 DEF LPInv, FetchHolds
<1>3. /\ UNCHANGED <<active, outer, queue, inflight, delivered, svars>> /\ fetching' = FALSE
      /\ \A v \in Workers : job'[v] \in {job[v], Nobody}
      /\ job' \in [Workers -> Outers \cup Ids \cup {Nobody}]
  BY DEF FetchFailed, InstallBad, LPInv, LPTypeOK
<1>4. /\ pc' \in [Workers -> PcStates]
      /\ \A v \in Workers : pc'[v] \in {pc[v], "take"} \/ v = w
      /\ pc'[w] = "idle"
  BY DEF FetchFailed, InstallBad, Notify, Goes, LPInv, LPTypeOK, PcStates
<1>5. \A v \in Workers : v \notin Fetchers'
  BY <1>2, <1>4 DEF Fetchers
<1>6. LPTypeOK'
  BY <1>3, <1>4 DEF LPInv, LPTypeOK, svars
<1>7. FetchHolds'
  BY <1>3, <1>5 DEF FetchHolds, FetchFlagOwned, Fetchers
<1>8. \A v \in Workers : v # w /\ pc'[v] \in {"run", "forward"} => pc[v] = pc'[v]
  BY <1>4
<1>9. JobsHold'
  <2>1. \A v \in Workers : pc'[v] \notin {"forward", "install"}
    <3> SUFFICES ASSUME NEW v \in Workers, pc'[v] \in {"forward", "install"} PROVE FALSE
      OBVIOUS
    <3>1. pc'[v] = "forward" /\ pc[v] = "forward"
      BY <1>4, <1>5 DEF Fetchers
    <3> QED
      BY <1>2, <3>1 DEF LPInv, JobsHold
  <2>2. \A v \in Workers : pc'[v] = "run" => job'[v] = job[v] /\ job[v] # Nobody
    <3> SUFFICES ASSUME NEW v \in Workers, pc'[v] = "run"
                 PROVE  job'[v] = job[v] /\ job[v] # Nobody
      OBVIOUS
    <3>1. v # w /\ pc[v] = "run"
      BY <1>4
    <3>2. job'[v] = job[v]
      BY <3>1 DEF FetchFailed, InstallBad, LPInv, LPTypeOK
    <3> QED
      BY <3>1, <3>2 DEF LPInv, JobsHold
  <2>3. given' = given /\ Nobody \notin Outers
    BY <1>3, OutersAssumption DEF svars
  <2> QED
    BY <1>3, <2>1, <2>2, <2>3 DEF LPInv, JobsHold
<1>10. FreshHolds'
  <2>1. \A o \in Outers : Fresh(o)' => Fresh(o)
    BY <1>3, <1>5 DEF Fresh, Fetchers, svars
  <2>2. \A o \in Outers : Nobody \notin Range(VirtualsOf[o])
    BY IdsAssumption DEF Ids
  <2> QED
    BY <1>3, <2>1, <2>2 DEF LPInv, FreshHolds, svars
<1>11. ActiveHolds' /\ BatchHolds' /\ VirtualsAccounted' /\ ResponseComplete'
  BY <1>2, <1>3, NothingActive DEF LPInv, svars
<1> QED
  BY <1>6, <1>7, <1>9, <1>10, <1>11 DEF LPInv

LEMMA StartFetchKeeps ==
    ASSUME LPInv, NEW w \in Workers, StartFetch(w)
    PROVE  LPInv'
<1>1. /\ active = "none" /\ fetching = FALSE /\ fetching' = TRUE
      /\ UNCHANGED <<active, outer, queue, inflight, delivered, job, svars>>
  BY DEF StartFetch, LPInv, LPTypeOK
<1>2. /\ pc' \in [Workers -> PcStates]
      /\ pc'[w] = "fetch" /\ \A v \in Workers : v # w => pc'[v] = pc[v]
  BY DEF StartFetch, Goes, LPInv, LPTypeOK, PcStates
<1>3. Fetchers = {}
  BY <1>1 DEF LPInv, FetchHolds
<1>4. Fetchers' = {w}
  BY <1>2, <1>3 DEF Fetchers
<1>5. LPTypeOK'
  BY <1>1, <1>2 DEF LPInv, LPTypeOK, svars
<1>6. FetchHolds'
  BY <1>1, <1>4 DEF FetchHolds, FetchFlagOwned
<1>7. \A v \in Workers : pc'[v] \in {"run", "forward", "install"} => pc[v] = pc'[v]
  BY <1>2
<1>8. JobsHold' /\ FreshHolds'
  BY <1>1, <1>7 DEF LPInv, JobsHold, FreshHolds, Fresh, svars
<1>9. ActiveHolds' /\ BatchHolds' /\ VirtualsAccounted' /\ ResponseComplete'
  BY <1>1, NothingActive DEF LPInv, svars
<1> QED
  BY <1>5, <1>6, <1>8, <1>9 DEF LPInv

LEMMA UpstreamGivesKeeps ==
    ASSUME LPInv, NEW w \in Workers, NEW o \in Outers, UpstreamGives(w, o)
    PROVE  LPInv'
<1>1. /\ o \notin given /\ given' = given \cup {o}
      /\ UNCHANGED <<pvars, records, finished, gone>>
      /\ pc[w] = "fetch" /\ w \in Fetchers
  BY DEF UpstreamGives, Fetchers
<1>2. /\ pc' \in [Workers -> PcStates]
      /\ pc'[w] = "install" /\ \A v \in Workers : v # w => pc'[v] = pc[v]
  BY DEF UpstreamGives, Goes, LPInv, LPTypeOK, PcStates
<1>3. /\ job' \in [Workers -> Outers \cup Ids \cup {Nobody}]
      /\ job'[w] = o /\ \A v \in Workers : v # w => job'[v] = job[v]
  BY DEF UpstreamGives, LPInv, LPTypeOK
<1>4. active = "none" /\ Fetchers' = Fetchers
  BY <1>1, <1>2 DEF LPInv, FetchHolds, Fetchers
<1>5. LPTypeOK'
  BY <1>1, <1>2, <1>3 DEF LPInv, LPTypeOK, pvars
<1>6. FetchHolds'
  BY <1>1, <1>4 DEF LPInv, FetchHolds, FetchFlagOwned, pvars
<1>7. \A v \in Workers : job[v] # o
  BY <1>1 DEF LPInv, JobsHold
<1>8. JobsHold'
  <2>1. \A v \in Workers : pc[v] # "forward" /\ pc'[v] # "forward"
    BY <1>2, <1>4 DEF LPInv, JobsHold
  <2> QED
    BY <1>1, <1>2, <1>3, <1>7, <2>1 DEF LPInv, JobsHold
<1>9. FreshHolds'
  <2>1. \A p \in Outers : Fresh(p)' => Fresh(p)
    BY <1>1, <1>2, <1>3 DEF Fresh
  <2>2. \A p \in Outers : o \notin Range(VirtualsOf[p])
    BY IdsAssumption DEF Ids
  <2> QED
    BY <1>1, <1>3, <2>1, <2>2 DEF LPInv, FreshHolds
<1>10. ActiveHolds' /\ BatchHolds' /\ VirtualsAccounted' /\ ResponseComplete'
  BY <1>1, <1>4, NothingActive DEF LPInv, pvars
<1> QED
  BY <1>5, <1>6, <1>8, <1>9, <1>10 DEF LPInv

\* A batch begins with all its virtual invocations in the queue.
LEMMA InstallKeeps ==
    ASSUME LPInv, NEW w \in Workers, Install(w)
    PROVE  LPInv'
<1> DEFINE o == job[w]
<1>1. /\ w \in Fetchers /\ o \in Outers /\ Fresh(o) /\ o \in given
      /\ KindOf[o] \in {"batch", "pass"}
  BY OutersAssumption DEF Install, LPInv, JobsHold, Fetchers, Fresh
<1>2. active = "none" /\ \A v \in Workers : v # w => v \notin Fetchers
  BY <1>1 DEF LPInv, FetchHolds
<1>3. /\ UNCHANGED svars /\ fetching' = FALSE /\ outer' = o /\ active' = KindOf[o]
      /\ queue' = VirtualsOf[o] /\ inflight' = {} /\ delivered' = FALSE
      /\ job' \in [Workers -> Outers \cup Ids \cup {Nobody}]
      /\ job'[w] = Nobody /\ \A v \in Workers : v # w => job'[v] = job[v]
  BY DEF Install, LPInv, LPTypeOK
<1>4. /\ pc' \in [Workers -> PcStates]
      /\ \A v \in Workers : v # w => pc'[v] \in {pc[v], "take"}
      /\ pc'[w] = "take"
  BY DEF Install, Notify, LPInv, LPTypeOK, PcStates
<1>5. Fetchers' = {} /\ \A v \in Workers : pc'[v] # "install"
  BY <1>2, <1>4 DEF Fetchers
<1>6. \A v \in Workers : job'[v] # o /\ job'[v] \notin Range(VirtualsOf[o])
  <2>1. Nobody # o /\ Nobody \notin Range(VirtualsOf[o])
    BY <1>1, OutersAssumption, IdsAssumption DEF Ids
  <2>2. \A v \in Workers : v # w => job[v] # o
    BY <1>1, OutersAssumption DEF LPInv, JobsHold
  <2>3. \A v \in Workers : job[v] \notin Range(VirtualsOf[o])
    BY <1>1 DEF LPInv, FreshHolds
  <2> QED
    BY <1>3, <2>1, <2>2, <2>3
<1>7. LPTypeOK'
  <2>1. VirtualsOf[o] \in Seq(Ids) /\ {} \subseteq Ids
    BY <1>1, IdsAssumption
  <2> QED
    BY <1>1, <1>3, <1>4, <2>1 DEF LPInv, LPTypeOK, svars
<1>8. FetchHolds'
  BY <1>3, <1>5 DEF FetchHolds, FetchFlagOwned
<1>9. JobsHold'
  <2>1. \A v \in Workers : pc'[v] # "forward"
    BY <1>2, <1>4 DEF LPInv, JobsHold
  <2>2. \A v \in Workers : pc'[v] = "run" => v # w /\ pc[v] = "run"
    BY <1>4
  <2>3. given' = given /\ Nobody \notin Outers
    BY <1>3, OutersAssumption DEF svars
  <2> QED
    BY <1>3, <1>5, <2>1, <2>2, <2>3 DEF LPInv, JobsHold
<1>10. ActiveHolds'
  <2>1. o \notin finished
    BY <1>1 DEF LPInv, FreshHolds
  <2> QED
    BY <1>1, <1>3, <1>6, <2>1 DEF ActiveHolds, svars
<1>11. FreshHolds'
  <2>1. \A p \in Outers : Fresh(p)' => Fresh(p)
    BY <1>3, <1>5 DEF Fresh, svars
  <2>2. \A p \in Outers : Nobody \notin Range(VirtualsOf[p])
    BY IdsAssumption DEF Ids
  <2> QED
    BY <1>3, <2>1, <2>2 DEF LPInv, FreshHolds, svars
<1>12. records'[o] = <<>>
  BY <1>1, <1>3 DEF LPInv, FreshHolds, svars
<1>13. BatchHolds'
  <2>1. IsInjective(VirtualsOf[o])
    BY <1>1, IdsAssumption
  <2> QED
    BY <1>3, <1>6, <1>12, <2>1, RangeOfEmpty, FS_EmptySet DEF BatchHolds
<1>14. VirtualsAccounted'
  <2>1. Len(VirtualsOf[o]) \in Nat
    BY <1>1, IdsAssumption, LenProperties
  <2>2. Len(VirtualsOf[o]) + 0 + Len(<<>>) = Len(VirtualsOf[o])
    BY <2>1
  <2>3. Range(VirtualsOf[o]) \cup {} \cup Range(<<>>) = Range(VirtualsOf[o])
    BY RangeOfEmpty
  <2> QED
    BY <1>3, <1>12, <2>2, <2>3, FS_EmptySet DEF VirtualsAccounted
<1>15. ResponseComplete'
  BY <1>1, <1>3 DEF LPInv, ResponseComplete, svars
<1> QED
  BY <1>7, <1>8, <1>9, <1>10, <1>11, <1>13, <1>14, <1>15 DEF LPInv

-----------------------------------------------------------------------------
(* What the workers do with an invocation.                                  *)

LEMMA TakePassKeeps ==
    ASSUME LPInv, NEW w \in Workers, TakePass(w)
    PROVE  LPInv'
<1>1. /\ active = "pass" /\ delivered = FALSE /\ delivered' = TRUE
      /\ UNCHANGED <<active, outer, queue, inflight, fetching, svars>>
      /\ outer \in Outers /\ outer \in given
      /\ \A v \in Workers : job[v] # outer
  BY DEF TakePass, LPInv, LPTypeOK, ActiveHolds
<1>2. /\ pc' \in [Workers -> PcStates]
      /\ pc[w] = "take" /\ pc'[w] = "run" /\ \A v \in Workers : v # w => pc'[v] = pc[v]
  BY DEF TakePass, Goes, LPInv, LPTypeOK, PcStates
<1>3. /\ job' \in [Workers -> Outers \cup Ids \cup {Nobody}]
      /\ job'[w] = outer /\ \A v \in Workers : v # w => job'[v] = job[v]
  BY <1>1 DEF TakePass, LPInv, LPTypeOK
<1>4. LPTypeOK'
  BY <1>1, <1>2, <1>3 DEF LPInv, LPTypeOK, svars
<1>5. FetchHolds'
  <2>1. Fetchers' = Fetchers
    BY <1>2 DEF Fetchers
  <2> QED
    BY <1>1, <2>1 DEF LPInv, FetchHolds, FetchFlagOwned, svars
<1>6. JobsHold'
  BY <1>1, <1>2, <1>3, OutersAssumption DEF LPInv, JobsHold, svars
<1>7. ActiveHolds'
  BY <1>1 DEF LPInv, ActiveHolds, svars
<1>8. FreshHolds'
  <2>1. \A o \in Outers : Fresh(o)' => Fresh(o)
    BY <1>1, <1>2, <1>3 DEF Fresh, svars
  <2>2. \A o \in Outers : outer \notin Range(VirtualsOf[o])
    BY <1>1, IdsAssumption DEF Ids
  <2> QED
    BY <1>1, <1>3, <2>1, <2>2 DEF LPInv, FreshHolds, svars
<1>9. BatchHolds' /\ VirtualsAccounted'
  BY <1>1 DEF BatchHolds, VirtualsAccounted
<1>10. ResponseComplete'
  BY <1>1 DEF LPInv, ResponseComplete, svars
<1> QED
  BY <1>4, <1>5, <1>6, <1>7, <1>8, <1>9, <1>10 DEF LPInv

\* An outer invocation that is fresh is not the active one.
LEMMA ActiveIsNotFresh ==
    ASSUME LPInv, active # "none"
    PROVE  ~Fresh(outer) /\ outer \in Outers
<1>1. Fetchers = {} /\ outer \in given
  BY DEF LPInv, FetchHolds, ActiveHolds
<1> QED
  BY <1>1 DEF Fresh, Fetchers, LPInv, LPTypeOK

LEMMA TakeVirtualKeeps ==
    ASSUME LPInv, NEW w \in Workers, TakeVirtual(w)
    PROVE  LPInv'
<1> DEFINE h == Head(queue)
<1>1. /\ active = "batch" /\ queue # <<>> /\ queue \in Seq(Ids)
      /\ queue' = Tail(queue) /\ inflight' = inflight \cup {h}
      /\ UNCHANGED <<active, outer, delivered, fetching, svars>>
      /\ outer \in Outers /\ ~Fresh(outer)
  BY ActiveIsNotFresh DEF TakeVirtual, LPInv, LPTypeOK
<1>2. /\ Tail(queue) \in Seq(Ids) /\ h \in Ids
      /\ Range(queue) = Range(Tail(queue)) \cup {h}
      /\ h \notin Range(Tail(queue)) /\ IsInjective(Tail(queue))
  BY <1>1, TailElems, RangeOfTail DEF LPInv, BatchHolds
<1>3. h \in Range(VirtualsOf[outer]) /\ h \notin inflight /\ h \notin Range(records[outer])
      /\ h # Nobody /\ h \notin Outers
  BY <1>1, <1>2, IdsAssumption DEF LPInv, BatchHolds, VirtualsAccounted
<1>4. /\ pc' \in [Workers -> PcStates]
      /\ pc[w] = "take" /\ pc'[w] \in {"run", "idle"}
      /\ \A v \in Workers : v # w => pc'[v] = pc[v]
  BY DEF TakeVirtual, Goes, LPInv, LPTypeOK, PcStates
<1>5. /\ job' \in [Workers -> Outers \cup Ids \cup {Nobody}]
      /\ job'[w] = h \/ (job'[w] = job[w] /\ pc'[w] = "idle")
      /\ \A v \in Workers : v # w => job'[v] = job[v]
  <2>1. CASE h \in UnfitIds
    BY <2>1 DEF TakeVirtual, Goes, LPInv, LPTypeOK
  <2>2. CASE h \notin UnfitIds
    BY <1>2, <2>2 DEF TakeVirtual, LPInv, LPTypeOK
  <2> QED
    BY <2>1, <2>2
<1>6. \A v \in Workers : job[v] # h
  BY <1>1, <1>2 DEF LPInv, BatchHolds
<1>7. LPTypeOK'
  BY <1>1, <1>2, <1>4, <1>5 DEF LPInv, LPTypeOK, svars
<1>8. FetchHolds'
  <2>1. Fetchers' = Fetchers
    BY <1>4 DEF Fetchers
  <2> QED
    BY <1>1, <2>1 DEF LPInv, FetchHolds, FetchFlagOwned, svars
<1>9. JobsHold'
  <2>1. \A v \in Workers : pc[v] # "forward" /\ pc'[v] # "forward"
    BY <1>1, <1>4 DEF LPInv, JobsHold
  <2> QED
    BY <1>1, <1>3, <1>4, <1>5, <1>6, <2>1 DEF LPInv, JobsHold, svars
<1>10. ActiveHolds'
  BY <1>1 DEF LPInv, ActiveHolds, svars
<1>11. FreshHolds'
  <2>1. \A o \in Outers : Fresh(o)' => Fresh(o)
    BY <1>1, <1>4, <1>5 DEF Fresh, svars
  <2>2. \A o \in Outers : Fresh(o) => h \notin Range(VirtualsOf[o])
    BY <1>1, <1>3, IdsAssumption
  <2> QED
    BY <1>1, <1>5, <2>1, <2>2 DEF LPInv, FreshHolds, svars
<1>12. IsFiniteSet(inflight) /\ IsFiniteSet(inflight')
       /\ Cardinality(inflight') = Cardinality(inflight) + 1
  BY <1>1, <1>3, FS_AddElement DEF LPInv, BatchHolds
<1>13. BatchHolds'
  <2>1. \A v \in Workers : job'[v] \notin Range(Tail(queue))
    BY <1>1, <1>2, <1>5 DEF LPInv, BatchHolds
  <2> QED
    BY <1>1, <1>2, <1>3, <1>12, <2>1 DEF LPInv, BatchHolds, svars
<1>14. VirtualsAccounted'
  <2>1. Range(queue') \cup inflight' \cup Range(records'[outer']) = Range(VirtualsOf[outer'])
    BY <1>1, <1>2 DEF LPInv, VirtualsAccounted, svars
  <2>2. Len(queue) \in Nat /\ Len(Tail(queue)) = Len(queue) - 1
        /\ Cardinality(inflight) \in Nat /\ Len(records[outer]) \in Nat
    BY <1>1, <1>12, FS_CardinalityType, LenProperties, HeadTailProperties DEF LPInv, LPTypeOK
  <2>3. Len(queue) + Cardinality(inflight) + Len(records[outer]) = Len(VirtualsOf[outer])
    BY <1>1 DEF LPInv, VirtualsAccounted
  <2>4. Len(queue') + Cardinality(inflight') + Len(records'[outer']) = Len(VirtualsOf[outer'])
    BY <1>1, <1>12, <2>2, <2>3 DEF svars
  <2> QED
    BY <2>1, <2>4 DEF VirtualsAccounted
<1>15. ResponseComplete'
  BY <1>1 DEF LPInv, ResponseComplete, svars
<1> QED
  BY <1>7, <1>8, <1>9, <1>10, <1>11, <1>13, <1>14, <1>15 DEF LPInv

\* One record more, and with the last one the end of the response.
LEMMA CompleteVirtualKeeps ==
    ASSUME LPInv, NEW w \in Workers, CompleteVirtual(w)
    PROVE  LPInv'
<1> DEFINE j == job[w]
           rec == Append(records[outer], j)
<1>1. /\ active = "batch" /\ j \in inflight /\ inflight' = inflight \ {j}
      /\ records' = [records EXCEPT ![outer] = rec]
      /\ active' \in {"batch", "finalizing"}
      /\ active' = "finalizing" => queue = <<>> /\ inflight' = {}
      /\ UNCHANGED <<outer, queue, delivered, fetching, job, given, finished, gone>>
      /\ outer \in Outers /\ ~Fresh(outer)
  BY ActiveIsNotFresh DEF CompleteVirtual
<1>2. /\ j \in Ids /\ records[outer] \in Seq(Ids) /\ inflight \subseteq Ids
      /\ IsFiniteSet(inflight) /\ IsInjective(records[outer])
      /\ j \notin Range(records[outer]) /\ j \notin Range(queue)
      /\ Range(queue) \cap inflight = {} /\ IsInjective(queue)
      /\ Range(queue) \cap Range(records[outer]) = {}
      /\ inflight \cap Range(records[outer]) = {}
  BY <1>1 DEF LPInv, LPTypeOK, BatchHolds
<1>3. /\ rec \in Seq(Ids) /\ Len(rec) = Len(records[outer]) + 1
      /\ Range(rec) = Range(records[outer]) \cup {j} /\ IsInjective(rec)
  BY <1>2, AppendElems, RangeOfAppend, AppendInjects
<1>4. /\ pc' \in [Workers -> PcStates]
      /\ pc[w] \in {"run", "idle"} /\ pc'[w] = "idle"
      /\ \A v \in Workers : v # w => pc'[v] = pc[v]
  BY DEF CompleteVirtual, Posts, Goes, LPInv, LPTypeOK, PcStates
<1>5. /\ records' \in [Outers -> Seq(Ids)] /\ records'[outer] = rec
      /\ \A o \in Outers : o # outer => records'[o] = records[o]
  BY <1>1, <1>3 DEF LPInv, LPTypeOK
<1>6. LPTypeOK'
  BY <1>1, <1>2, <1>4, <1>5 DEF LPInv, LPTypeOK
<1>7. FetchHolds'
  <2>1. Fetchers' = Fetchers /\ Fetchers = {}
    BY <1>1, <1>4 DEF Fetchers, LPInv, FetchHolds
  <2> QED
    BY <1>1, <2>1 DEF LPInv, FetchHolds, FetchFlagOwned
<1>8. JobsHold'
  <2>1. \A v \in Workers : pc[v] # "forward" /\ pc'[v] # "forward"
    BY <1>1, <1>4 DEF LPInv, JobsHold
  <2>2. \A v \in Workers : pc'[v] \in {"run", "install"} => pc[v] = pc'[v]
    BY <1>4
  <2> QED
    BY <1>1, <2>1, <2>2 DEF LPInv, JobsHold
<1>9. ActiveHolds'
  BY <1>1 DEF LPInv, ActiveHolds
<1>10. FreshHolds'
  <2>1. \A o \in Outers : Fresh(o)' => Fresh(o)
    BY <1>1, <1>4 DEF Fresh
  <2>2. \A o \in Outers : Fresh(o) => records'[o] = records[o]
    BY <1>1, <1>5
  <2> QED
    BY <1>1, <2>1, <2>2 DEF LPInv, FreshHolds
<1>11. BatchHolds'
  <2>1. IsFiniteSet(inflight')
    BY <1>1, <1>2, FS_RemoveElement
  <2>2. /\ Range(queue) \cap inflight' = {}
        /\ Range(queue) \cap Range(rec) = {} /\ inflight' \cap Range(rec) = {}
    BY <1>1, <1>2, <1>3
  <2>3. \A v \in Workers : job[v] \notin Range(queue)
    BY <1>1 DEF LPInv, BatchHolds
  <2> QED
    BY <1>1, <1>2, <1>3, <1>5, <2>1, <2>2, <2>3 DEF BatchHolds
<1>12. Range(queue) \cup inflight' \cup Range(rec) = Range(VirtualsOf[outer])
  BY <1>1, <1>3 DEF LPInv, VirtualsAccounted
<1>13. VirtualsAccounted'
  <2>1. /\ Len(queue) \in Nat /\ Len(records[outer]) \in Nat
        /\ Cardinality(inflight) \in Nat /\ Cardinality(inflight') = Cardinality(inflight) - 1
    BY <1>1, <1>2, FS_CardinalityType, FS_RemoveElement, LenProperties DEF LPInv, LPTypeOK
  <2>2. Len(queue) + Cardinality(inflight) + Len(records[outer]) = Len(VirtualsOf[outer])
    BY <1>1 DEF LPInv, VirtualsAccounted
  <2>3. Len(queue) + Cardinality(inflight') + Len(rec) = Len(VirtualsOf[outer])
    BY <1>3, <2>1, <2>2
  <2> QED
    BY <1>1, <1>5, <1>12, <2>3 DEF VirtualsAccounted
<1>14. ResponseComplete'
  <2>1. active' = "finalizing" => Range(rec) = Range(VirtualsOf[outer])
    BY <1>1, <1>12, RangeOfEmpty
  <2>2. outer \notin finished
    BY <1>1 DEF LPInv, ActiveHolds
  <2> QED
    BY <1>1, <1>3, <1>5, <2>1, <2>2 DEF LPInv, ResponseComplete, Batches
<1> QED
  BY <1>6, <1>7, <1>8, <1>9, <1>10, <1>11, <1>13, <1>14 DEF LPInv

\* Upstream has the response: of a passthrough that was complete as it was,
\* of a batch because its records are.
LEMMA EndKeeps ==
    ASSUME LPInv, Finalize \/ \E w \in Workers : Forwarded(w)
    PROVE  LPInv'
<1>1. /\ active \in {"pass", "finalizing"} /\ active' = "none"
      /\ finished' = finished \cup {outer}
      /\ UNCHANGED <<outer, queue, inflight, delivered, fetching, job, records, given, gone>>
  BY DEF Finalize, Forwarded, LPInv, JobsHold
<1>2. outer \in Outers /\ outer \in given /\ ~Fresh(outer) /\ Fetchers = {}
  BY <1>1, ActiveIsNotFresh DEF LPInv, ActiveHolds, FetchHolds
<1>3. /\ pc' \in [Workers -> PcStates]
      /\ \A v \in Workers : pc'[v] = pc[v] \/ pc'[v] \in {"take", "idle"}
  BY DEF Finalize, Forwarded, Notify, LPInv, LPTypeOK, PcStates
<1>4. \A v \in Workers : pc'[v] # "forward"
  <2>1. CASE Finalize
    <3>1. \A v \in Workers : pc[v] # "forward"
      BY <2>1 DEF Finalize, LPInv, JobsHold
    <3> QED
      BY <1>3, <3>1
  <2>2. ASSUME NEW w \in Workers, Forwarded(w), NEW v \in Workers
        PROVE  pc'[v] # "forward"
    <3>1. pc[w] = "forward" /\ pc'[w] = "idle"
      BY <2>2 DEF Forwarded, Notify, LPInv, LPTypeOK
    <3>2. v # w => pc[v] # "forward"
      BY <3>1 DEF LPInv, JobsHold
    <3> QED
      BY <1>3, <3>1, <3>2
  <2> QED
    BY <2>1, <2>2
<1>5. LPTypeOK'
  BY <1>1, <1>2, <1>3 DEF LPInv, LPTypeOK
<1>6. Fetchers' = {}
  BY <1>2, <1>3 DEF Fetchers
<1>7. FetchHolds'
  BY <1>1, <1>2, <1>6 DEF LPInv, FetchHolds, FetchFlagOwned
<1>8. JobsHold'
  <2>1. \A v \in Workers : pc'[v] \in {"run", "install"} => pc[v] = pc'[v]
    BY <1>3
  <2> QED
    BY <1>1, <1>4, <2>1 DEF LPInv, JobsHold
<1>9. FreshHolds'
  <2>1. \A o \in Outers : Fresh(o)' => Fresh(o)
    BY <1>1, <1>3 DEF Fresh
  <2> QED
    BY <1>1, <1>2, <2>1 DEF LPInv, FreshHolds
<1>10. ActiveHolds' /\ BatchHolds' /\ VirtualsAccounted'
  BY <1>1 DEF ActiveHolds, BatchHolds, VirtualsAccounted
<1>11. ResponseComplete'
  <2>1. active = "pass" => outer \notin Batches
    BY DEF LPInv, ActiveHolds, Batches
  <2> QED
    BY <1>1, <2>1 DEF LPInv, ResponseComplete
<1> QED
  BY <1>5, <1>7, <1>8, <1>9, <1>10, <1>11 DEF LPInv

LEMMA NextProxy == LPInv /\ [LPNext]_lpvars => LPInv'
<1> SUFFICES ASSUME LPInv, [LPNext]_lpvars PROVE LPInv'
  OBVIOUS
<1>1. ASSUME NEW w \in Workers, Serve(w) PROVE LPInv'
  <2>1. CASE CallNext(w) \/ TakeNothing(w) \/ DecideToWait(w) \/ Register(w)
             \/ CompletePass(w) \/ CompleteUnknown(w)
    BY <2>1, QuietSteps
  <2>2. CASE StartFetch(w)
    BY <2>2, StartFetchKeeps
  <2>3. CASE FetchFailed(w) \/ InstallBad(w)
    BY <2>3, FetchEnds
  <2>4. CASE Install(w)
    BY <2>4, InstallKeeps
  <2>5. CASE TakePass(w)
    BY <2>5, TakePassKeeps
  <2>6. CASE TakeVirtual(w)
    BY <2>6, TakeVirtualKeeps
  <2>7. CASE CompleteVirtual(w)
    BY <2>7, CompleteVirtualKeeps
  <2>8. CASE Forwarded(w)
    BY <2>8, EndKeeps
  <2> QED
    BY <1>1, <2>1, <2>2, <2>3, <2>4, <2>5, <2>6, <2>7, <2>8 DEF Serve
<1>2. ASSUME NEW w \in Workers, NEW o \in Outers, UpstreamGives(w, o) PROVE LPInv'
  BY <1>2, UpstreamGivesKeeps
<1>3. ASSUME NEW w \in Workers, UpstreamNextFails(w) \/ ForwardFails(w) \/ Disconnect(w)
      PROVE  LPInv'
  BY <1>3, QuietSteps
<1>4. CASE Finalize
  BY <1>4, EndKeeps
<1>5. CASE UNCHANGED lpvars
  BY <1>5 DEF lpvars, pvars, svars, LPInv, LPTypeOK, FetchHolds, FetchFlagOwned, Fetchers,
              JobsHold, ActiveHolds, FreshHolds, Fresh, BatchHolds, VirtualsAccounted,
              ResponseComplete
<1> QED
  BY <1>1, <1>2, <1>3, <1>4, <1>5 DEF LPNext

-----------------------------------------------------------------------------
(***************************************************************************)
(* The variables keep their types.                                          *)
(***************************************************************************)
THEOREM ProxyType == LPSpec => []LPTypeOK
<1>1. LPInv => LPTypeOK
  BY DEF LPInv
<1> QED
  BY <1>1, InitProxy, NextProxy, PTL DEF LPSpec

(***************************************************************************)
(* One worker at most fetches, and nothing is active while it does: what is *)
(* fetched never replaces an invocation in progress.                        *)
(***************************************************************************)
THEOREM OneOuter == LPSpec => []OneOuterAtATime
<1>1. LPInv => OneOuterAtATime
  <2> SUFFICES ASSUME LPInv PROVE OneOuterAtATime
    OBVIOUS
  <2>1. CASE Fetchers = {}
    BY <2>1, FS_EmptySet DEF OneOuterAtATime
  <2>2. ASSUME NEW w \in Fetchers PROVE OneOuterAtATime
    <3>1. Fetchers = {w}
      BY DEF LPInv, FetchHolds
    <3>2. Cardinality(Fetchers) = 1
      BY <3>1, FS_Singleton
    <3> QED
      BY <2>2, <3>2 DEF OneOuterAtATime, LPInv, FetchHolds
  <2> QED
    BY <2>1, <2>2
<1> QED
  BY <1>1, InitProxy, NextProxy, PTL DEF LPSpec

(***************************************************************************)
(* Whoever sets fetching_outer resets it on every way out of the fetch,     *)
(* unless it goes away.                                                     *)
(***************************************************************************)
THEOREM FlagIsOwned == LPSpec => []FetchFlagOwned
<1>1. LPInv => FetchFlagOwned
  BY DEF LPInv, FetchHolds
<1> QED
  BY <1>1, InitProxy, NextProxy, PTL DEF LPSpec

(***************************************************************************)
(* No two workers run the same invocation.                                  *)
(***************************************************************************)
THEOREM InvocationsRunOnce == LPSpec => []RunOnce
<1>1. LPInv => RunOnce
  BY DEF LPInv, JobsHold, RunOnce
<1> QED
  BY <1>1, InitProxy, NextProxy, PTL DEF LPSpec

(***************************************************************************)
(* Of the active batch each virtual invocation is queued, in flight or      *)
(* answered.                                                                *)
(***************************************************************************)
THEOREM NoVirtualIsLost == LPSpec => []VirtualsAccounted
<1>1. LPInv => VirtualsAccounted
  BY DEF LPInv
<1> QED
  BY <1>1, InitProxy, NextProxy, PTL DEF LPSpec

(***************************************************************************)
(* An outer response that ended has one record for each virtual invocation. *)
(***************************************************************************)
THEOREM ResponsesAreComplete == LPSpec => []ResponseComplete
<1>1. LPInv => ResponseComplete
  BY DEF LPInv
<1> QED
  BY <1>1, InitProxy, NextProxy, PTL DEF LPSpec
=============================================================================
