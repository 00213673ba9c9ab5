---------------------- MODULE ResponseDispatch_proofs ------------------------
(***************************************************************************)
(* Proofs about ResponseDispatch: for every adapter, format and concurrency *)
(* and for batches, bodies and channels of any size, each client gets what  *)
(* the handler made of its own request.                                     *)
(***************************************************************************)
EXTENDS ResponseDispatch, SequenceLemmas, FiniteSetTheorems

Ended == {"spent", "done"}
Finals == {"record", "failure", "end", "error"}
Positions == 1 .. Len(wire)

\* What the adapter has done with each item.
Progress ==
    /\ \A i \in Items : at[i] # "waiting" <=> i <= started
    /\ \A i \in Items :
          /\ at[i] \in {"waiting", "running", "rejected"} => result[i] = "none" /\ made[i] = 0
          /\ at[i] \in {"body"} \cup Ended => result[i] # "none"
          /\ at[i] \in {"body", "rejected"} => Interleaved
          /\ made[i] <= ChunksOf[i]
    /\ fate = "ended" => \/ \E i \in Items : at[i] = "rejected"
                         \/ \A i \in Batch : at[i] = "done"

\* No more items occupy a slot than there are slots.
SlotsHeld == Cardinality(Occupied) <= Limit

\* What the type of a record says of its item.
RecordHolds(r) ==
    /\ r.id \in Batch
    /\ r.fault # "none" => <<r.id, r.fault>> \in flaws
    /\ r.type \in {"record", "failure"} <=> ~Interleaved
    /\ r.type = "record" => result[r.id] = "ok"
    /\ r.type \in {"failure", "error"} => result[r.id] = "failed"
    /\ result[r.id] # "none"
    /\ r.type = "chunk" => r.n \in 1 .. made[r.id]
    /\ r.type \in Finals => at[r.id] \in Ended

\* Nothing follows the last record of an item, and its chunks are in order.
Ordered ==
    \A p, q \in Positions : p < q /\ wire[p].id = wire[q].id =>
        /\ wire[p].type \notin Finals
        /\ wire[p].type = "chunk" /\ wire[q].type = "chunk" => wire[p].n < wire[q].n

\* A buffered response is written at once, with a record for each item.
Document ==
    Buffered =>
        /\ fate # "ended" => wire = <<>> /\ flaws = {}
        /\ fate = "ended" /\ job = "running" =>
              Len(wire) = kind.length /\ \A i \in Batch : wire[i].id = i
        /\ job = "running" => pending = Batch /\ \A i \in Batch : reply[i] = "none"

WireInv == /\ \A p \in Positions : RecordHolds(wire[p])
           /\ Ordered
           /\ Document

\* The chunks of an item that were taken from the wire and not thrown away.
Taken(i) == Len(got[i]) + Len(body[i])
IsChunk(p, i, n) == wire[p].id = i /\ wire[p].type = "chunk" /\ wire[p].n = n

\* What the clients have, and what is on its way to them.
InOrder ==
    \A i \in Items :
        /\ \A j \in 1 .. Len(got[i]) : got[i][j] = <<i, j>>
        /\ \A j \in 1 .. Len(body[i]) : body[i][j] = <<i, Len(got[i]) + j>>
        /\ Taken(i) <= made[i]

Coming ==
    \A i \in pending :
        /\ client[i] # "left" =>
              /\ \A p \in Positions : \A n \in Nat : IsChunk(p, i, n) => Taken(i) < n
              /\ \A n \in Taken(i) + 1 .. made[i] : \E p \in Positions : IsChunk(p, i, n)
        /\ ~Buffered /\ at[i] \in Ended =>
              \E p \in Positions : wire[p].id = i /\ wire[p].type \in Finals

Spoiled == IF SpoilsAll THEN Items ELSE {i \in Items : <<i, "value">> \in flaws}

\* What was sent through a oneshot is true of its request.
RepliesHold ==
    \A i \in Items :
        /\ reply[i] = "ok" => result[i] = "ok" /\ at[i] \in Ended
        /\ reply[i] = "failed" => result[i] = "failed"
        /\ reply[i] = "head" => Interleaved /\ result[i] # "none"
        /\ reply[i] \in {"502", "dropped"} => i \in Spoiled

\* A body is whole when its sender is dropped, or the response was spoiled.
Closed ==
    \A i \in Batch \ pending :
        client[i] # "left" /\ reply[i] = "head" =>
            i \in Spoiled \/ (at[i] \in Ended /\ Taken(i) = made[i])

Waiting ==
    /\ pending \subseteq Batch
    /\ open = IF Buffered THEN {} ELSE pending
    /\ job = "returned" => pending = {}
    /\ \A i \in Items :
          /\ client[i] = "absent" <=> i \notin Batch
          /\ client[i] = "streaming" => reply[i] = "head"
          /\ client[i] = "over" => reply[i] # "none"

PathInv ==
    /\ RDTypeOK /\ Progress /\ WireInv
    /\ InOrder /\ Coming /\ RepliesHold /\ Closed /\ Waiting

-----------------------------------------------------------------------------
(* Constants.                                                               *)

LEMMA Sizes ==
    /\ MaxItems \in Nat /\ MaxItems >= 1 /\ 1 \in Items
    /\ \A i \in Items : i \in Nat /\ ChunksOf[i] \in Nat
    /\ BodyCapacity \in Nat
    /\ Kinds \subseteq Kind
BY AdapterAssumption, DispatchAssumption DEF Items

\* The largest of finitely many numbers, by induction on how many there are.
LEMMA LongestBody == MaxChunks \in Nat /\ \A i \in Items : ChunksOf[i] <= MaxChunks
<1> DEFINE Longest(n, k) == \A j \in 1 .. n : ChunksOf[j] <= ChunksOf[k]
           Bounded == {n \in Nat : n + 1 <= MaxItems => \E k \in 1 .. n + 1 : Longest(n + 1, k)}
<1>1. 0 \in Bounded
  <2> SUFFICES ASSUME 0 + 1 <= MaxItems PROVE Longest(0 + 1, 1)
    OBVIOUS
  <2>1. \A j \in 1 .. 0 + 1 : j = 1
    OBVIOUS
  <2>2. ChunksOf[1] \in Nat
    BY Sizes
  <2> QED
    BY <2>1, <2>2
<1>2. ASSUME NEW n \in Nat, n \in Bounded PROVE n + 1 \in Bounded
  <2> SUFFICES ASSUME (n + 1) + 1 <= MaxItems
               PROVE  \E k \in 1 .. (n + 1) + 1 : Longest((n + 1) + 1, k)
    OBVIOUS
  <2>1. PICK k \in 1 .. n + 1 : Longest(n + 1, k)
    BY <1>2, Sizes
  <2>2. PICK m \in Items : m = (n + 1) + 1
    BY Sizes DEF Items
  <2>3. k \in Items /\ \A j \in 1 .. (n + 1) + 1 : j \in 1 .. n + 1 \/ j = m
    BY <2>2, Sizes DEF Items
  <2>4. \A j \in 1 .. (n + 1) + 1 : j \in Items
    BY <2>2, Sizes DEF Items
  <2>5. ChunksOf[k] \in Nat /\ ChunksOf[m] \in Nat /\ \A j \in 1 .. n + 1 : ChunksOf[j] \in Nat
    BY <2>2, <2>3, <2>4, Sizes
  <2>6. CASE ChunksOf[m] <= ChunksOf[k]
    <3>1. Longest((n + 1) + 1, k)
      BY <2>1, <2>3, <2>6
    <3>2. k \in 1 .. (n + 1) + 1
      OBVIOUS
    <3> HIDE DEF Longest
    <3> QED
      BY <3>1, <3>2
  <2>7. CASE ~(ChunksOf[m] <= ChunksOf[k])
    <3>1. Longest((n + 1) + 1, m)
      BY <2>1, <2>3, <2>5, <2>7
    <3>2. m \in 1 .. (n + 1) + 1
      BY <2>2
    <3> HIDE DEF Longest
    <3> QED
      BY <3>1, <3>2
  <2> QED
    BY <2>6, <2>7
<1> HIDE DEF Bounded
<1>3. MaxItems - 1 \in Nat /\ (MaxItems - 1) + 1 = MaxItems
  BY Sizes
<1>4. MaxItems - 1 \in Bounded
  BY <1>1, <1>2, <1>3, NatSetInduction
<1>5. PICK k \in Items : \A j \in Items : ChunksOf[j] <= ChunksOf[k]
  BY <1>3, <1>4, Sizes DEF Bounded, Items
<1> DEFINE S == {ChunksOf[i] : i \in Items}
<1>6. ChunksOf[k] \in S /\ \A y \in S : ChunksOf[k] >= y
  BY <1>5, Sizes
<1>7. MaxChunks = CHOOSE x \in S : \A y \in S : x >= y
  BY DEF MaxChunks, Max
<1>8. MaxChunks \in S /\ \A y \in S : MaxChunks >= y
  <2> HIDE DEF S
  <2> QED
    BY <1>6, <1>7
<1> QED
  BY <1>8, Sizes

LEMMA Slots ==
    ASSUME kind \in Kinds
    PROVE  /\ kind.length \in Nat /\ kind.length >= 1 /\ kind.length <= MaxItems
           /\ Batch \subseteq Items /\ Limit \in Nat
<1>1. /\ kind.length \in Nat /\ kind.length >= 1 /\ kind.length <= MaxItems
  BY Sizes DEF Kind
<1>2. Batch \subseteq Items
  BY <1>1, Sizes DEF Batch, Items
<1>3. PICK c \in Nat : c = Concurrency
  BY AdapterAssumption
<1>4. Max({c, 1}) \in Nat
  <2>1. \E x \in {c, 1} : \A y \in {c, 1} : x >= y
    <3>1. CASE c >= 1
      BY <3>1
    <3>2. CASE ~(c >= 1)
      BY <3>2
    <3> QED
      BY <3>1, <3>2
  <2> QED
    BY <2>1 DEF Max
<1>5. PICK m \in Nat : m = Max({c, 1})
  BY <1>4
<1>6. Min({m, kind.length}) \in Nat
  <2>1. PICK k \in Nat : k = kind.length
    BY <1>1
  <2>2. \E x \in {m, k} : \A y \in {m, k} : x <= y
    <3>1. CASE m <= k
      BY <3>1
    <3>2. CASE ~(m <= k)
      BY <3>2
    <3> QED
      BY <3>1, <3>2
  <2>3. Min({m, k}) \in {m, k}
    BY <2>2 DEF Min
  <2> QED
    BY <2>1, <2>3
<1> QED
  BY <1>1, <1>2, <1>3, <1>5, <1>6 DEF Limit

-----------------------------------------------------------------------------
(* What the steps of the adapter do.                                        *)

\* One more record of item i is on the wire.
Wrote(i) ==
    /\ ~Buffered /\ fate = "open"
    /\ i \in Items /\ at[i] \in {"running", "body"}
    /\ \E r \in Records :
          /\ r.id = i
          /\ wire' = Append(wire, r)
          /\ flaws' = IF r.fault = "none" THEN flaws ELSE flaws \cup {<<i, r.fault>>}
          /\ r.type \in {"record", "failure"} <=> ~Interleaved
          /\ r.type = "record" => result'[i] = "ok"
          /\ r.type \in {"failure", "error"} => result'[i] = "failed"
          /\ made' = IF r.type = "chunk" THEN [made EXCEPT ![i] = r.n] ELSE made
          /\ r.type = "chunk" => r.n = made[i] + 1 /\ r.n <= ChunksOf[i]
          /\ IF r.type \in Finals THEN at'[i] \in Ended ELSE at'[i] = "body"
    /\ at' \in [Items -> Stages] /\ result' \in [Items -> {"none", "ok", "failed"}]
    /\ \A j \in Items \ {i} : at'[j] = at[j] /\ result'[j] = result[j]
    /\ result'[i] # "none"
    /\ result'[i] # result[i] => result[i] = "none" \/ result'[i] = "failed"
    /\ kind' = kind /\ started' = started /\ fate' = fate
    /\ draining' \subseteq draining \cup {i} /\ mayStart' \in BOOLEAN

\* A step that writes nothing, down to the end of a stream.
Stirred ==
    /\ fate = "open"
    /\ kind' = kind /\ made' = made /\ wire' = wire /\ flaws' = flaws
    /\ at' \in [Items -> Stages] /\ result' \in [Items -> {"none", "ok", "failed"}]
    /\ started' \in 0 .. kind.length
    /\ draining' \subseteq draining /\ mayStart' \in BOOLEAN
    /\ fate' \in {"open", "ended", "crashed"}
    /\ \A i \in Items :
          /\ at[i] \in Ended => at'[i] \in Ended
          /\ at'[i] \in Ended => at[i] \in Ended \/ Buffered
          /\ at[i] = "rejected" => at'[i] = "rejected"
          /\ result'[i] # result[i] => result[i] = "none" /\ Buffered
    /\ fate' = "ended" => ~Buffered

Writes(i) ==
    \/ \E outcome \in {"ok", "failed"}, fault \in Faults : WriteRecord(i, outcome, fault)
    \/ \E fault \in Faults : WriteHead(i, fault) \/ WriteChunk(i, fault)
    \/ WriteError(i) \/ WriteEnd(i) \/ WriteBodyError(i)

LEMMA RecordTyped ==
    ASSUME NEW i \in Items, NEW type \in Types, NEW n \in 0 .. MaxChunks, NEW fault \in Faults
    PROVE  /\ Record(i, type, n, fault) \in Records
           /\ Record(i, type, n, fault).id = i /\ Record(i, type, n, fault).type = type
           /\ Record(i, type, n, fault).n = n /\ Record(i, type, n, fault).fault = fault
BY DEF Record, Records

\* What Write itself does.
LEMMA WriteEffect ==
    ASSUME AdapterTypeOK, NEW i \in Items, NEW type \in Types, NEW n \in 0 .. MaxChunks,
           NEW fault \in Faults, Write(i, type, n, fault)
    PROVE  /\ fate = "open"
           /\ kind' = kind /\ started' = started /\ fate' = fate
           /\ draining' \subseteq draining \cup {i} /\ mayStart' \in BOOLEAN
           /\ \E r \in Records :
                /\ r.id = i /\ r.type = type /\ r.n = n
                /\ wire' = Append(wire, r)
                /\ flaws' = IF r.fault = "none" THEN flaws ELSE flaws \cup {<<i, r.fault>>}
<1> DEFINE r == Record(i, type, n, fault)
<1>1. r \in Records /\ r.id = i /\ r.type = type /\ r.n = n /\ r.fault = fault
  BY RecordTyped
<1>2. /\ wire' = Append(wire, r)
      /\ flaws' = IF fault = "none" THEN flaws ELSE flaws \cup {<<i, fault>>}
  BY DEF Write
<1>3. /\ fate = "open"
      /\ kind' = kind /\ started' = started /\ fate' = fate
      /\ draining' \subseteq draining \cup {i} /\ mayStart' \in BOOLEAN
  BY DEF Write
<1> HIDE DEF r
<1> QED
  BY <1>1, <1>2, <1>3

LEMMA OverEnds ==
    ASSUME AdapterTypeOK, NEW i \in Items, Over(i)
    PROVE  /\ at' \in [Items -> Stages] /\ at'[i] \in Ended
           /\ \A j \in Items \ {i} : at'[j] = at[j]
BY DEF AdapterTypeOK, Over, Stages, Ended

\* The result of an item is set.
LEMMA ResultSet ==
    ASSUME AdapterTypeOK, NEW i \in Items, NEW outcome \in {"ok", "failed"},
           result' = [result EXCEPT ![i] = outcome]
    PROVE  /\ result' \in [Items -> {"none", "ok", "failed"}]
           /\ result'[i] = outcome /\ outcome # "none"
           /\ \A j \in Items \ {i} : result'[j] = result[j]
BY DEF AdapterTypeOK

LEMMA WritesAreWrote ==
    ASSUME AdapterTypeOK, Progress, NEW i \in Items, Writes(i)
    PROVE  Wrote(i)
<1>0. 0 \in 0 .. MaxChunks /\ "none" \in Faults
  BY LongestBody DEF Faults
<1>1. ASSUME NEW outcome \in {"ok", "failed"}, NEW fault \in Faults, WriteRecord(i, outcome, fault)
      PROVE  Wrote(i)
  <2>1. /\ ~Buffered /\ ~Interleaved /\ at[i] = "running" /\ result[i] = "none" /\ made' = made
    BY <1>1 DEF WriteRecord, Progress, Buffered, Interleaved
  <2>2. /\ at' \in [Items -> Stages] /\ at'[i] \in Ended
        /\ \A j \in Items \ {i} : at'[j] = at[j]
    BY <1>1, OverEnds DEF WriteRecord
  <2>3. /\ result' \in [Items -> {"none", "ok", "failed"}]
        /\ result'[i] = outcome /\ outcome # "none"
        /\ \A j \in Items \ {i} : result'[j] = result[j]
    BY <1>1, ResultSet DEF WriteRecord
  <2>4. PICK type \in {"record", "failure"}, f \in Faults :
          /\ Write(i, type, 0, f)
          /\ type = "record" => outcome = "ok"
          /\ type = "failure" => outcome = "failed"
    BY <1>0, <1>1 DEF WriteRecord
  <2>5. type \in Types /\ type \in Finals /\ type # "chunk" /\ type # "error"
    BY DEF Types, Finals
  <2> QED
    BY <1>0, <2>1, <2>2, <2>3, <2>4, <2>5, WriteEffect DEF Wrote
<1>2. ASSUME NEW fault \in Faults, WriteHead(i, fault)
      PROVE  Wrote(i)
  <2>1. /\ ~Buffered /\ Interleaved /\ at[i] = "running" /\ result[i] = "none" /\ made' = made
    BY <1>2 DEF WriteHead, Progress, Buffered, Interleaved
  <2>2. /\ at' \in [Items -> Stages] /\ at'[i] = "body"
        /\ \A j \in Items \ {i} : at'[j] = at[j]
    BY <1>2 DEF WriteHead, AdapterTypeOK, Stages
  <2>3. /\ result' \in [Items -> {"none", "ok", "failed"}]
        /\ result'[i] = "ok"
        /\ \A j \in Items \ {i} : result'[j] = result[j]
    BY <1>2, ResultSet DEF WriteHead
  <2>4. Write(i, "head", 0, fault)
    BY <1>2 DEF WriteHead
  <2>5. "head" \in Types /\ "head" \notin Finals
    BY DEF Types, Finals
  <2> QED
    BY <1>0, <2>1, <2>2, <2>3, <2>4, <2>5, WriteEffect DEF Wrote
<1>3. ASSUME NEW fault \in Faults, WriteChunk(i, fault)
      PROVE  Wrote(i)
  <2>1. /\ ~Buffered /\ Interleaved /\ at[i] = "body" /\ result[i] # "none"
        /\ at' = at /\ result' = result
    BY <1>3 DEF WriteChunk, Progress, Buffered, Interleaved
  <2>2. PICK n \in Nat : n = made[i] + 1
    BY DEF AdapterTypeOK
  <2>3. n \in 0 .. MaxChunks /\ n <= ChunksOf[i]
    BY <1>3, <2>2, LongestBody, Sizes DEF AdapterTypeOK, WriteChunk
  <2>4. Write(i, "chunk", n, fault) /\ made' = [made EXCEPT ![i] = n]
    BY <1>3, <2>2 DEF WriteChunk
  <2>5. "chunk" \in Types /\ "chunk" \notin Finals
    BY DEF Types, Finals
  <2>6. at \in [Items -> Stages] /\ result \in [Items -> {"none", "ok", "failed"}]
    BY DEF AdapterTypeOK
  <2>7. PICK r \in Records :
          /\ r.id = i /\ r.type = "chunk" /\ r.n = n
          /\ wire' = Append(wire, r)
          /\ flaws' = IF r.fault = "none" THEN flaws ELSE flaws \cup {<<i, r.fault>>}
    BY <2>3, <2>4, <2>5, WriteEffect
  <2>8. /\ fate = "open"
        /\ kind' = kind /\ started' = started /\ fate' = fate
        /\ draining' \subseteq draining \cup {i} /\ mayStart' \in BOOLEAN
    BY <2>3, <2>4, <2>5, WriteEffect
  <2>9. /\ r.type \notin {"record", "failure", "error"} /\ r.type \notin Finals
        /\ made' = [made EXCEPT ![i] = r.n] /\ r.n = made[i] + 1 /\ r.n <= ChunksOf[i]
        /\ at'[i] = "body"
    BY <2>1, <2>2, <2>3, <2>4, <2>7 DEF Finals
  <2> QED
    BY <2>1, <2>6, <2>7, <2>8, <2>9 DEF Wrote
<1>4. CASE WriteError(i)
  <2>1. /\ ~Buffered /\ Interleaved /\ at[i] = "running" /\ result[i] = "none" /\ made' = made
    BY <1>4 DEF WriteError, Progress, Buffered, Interleaved
  <2>2. /\ at' \in [Items -> Stages] /\ at'[i] \in Ended
        /\ \A j \in Items \ {i} : at'[j] = at[j]
    BY <1>4, OverEnds DEF WriteError
  <2>3. /\ result' \in [Items -> {"none", "ok", "failed"}]
        /\ result'[i] = "failed"
        /\ \A j \in Items \ {i} : result'[j] = result[j]
    BY <1>4, ResultSet DEF WriteError
  <2>4. Write(i, "error", 0, "none")
    BY <1>4 DEF WriteError
  <2>5. "error" \in Types /\ "error" \in Finals
    BY DEF Types, Finals
  <2> QED
    BY <1>0, <2>1, <2>2, <2>3, <2>4, <2>5, WriteEffect DEF Wrote
<1>5. CASE WriteEnd(i)
  <2>1. /\ ~Buffered /\ Interleaved /\ at[i] = "body" /\ result[i] # "none"
        /\ result' = result /\ made' = made
    BY <1>5 DEF WriteEnd, Progress, Buffered, Interleaved
  <2>2. /\ at' \in [Items -> Stages] /\ at'[i] \in Ended
        /\ \A j \in Items \ {i} : at'[j] = at[j]
    BY <1>5, OverEnds DEF WriteEnd
  <2>3. result \in [Items -> {"none", "ok", "failed"}]
    BY DEF AdapterTypeOK
  <2>4. Write(i, "end", 0, "none")
    BY <1>5 DEF WriteEnd
  <2>5. "end" \in Types /\ "end" \in Finals
    BY DEF Types, Finals
  <2> QED
    BY <1>0, <2>1, <2>2, <2>3, <2>4, <2>5, WriteEffect DEF Wrote
<1>6. CASE WriteBodyError(i)
  <2>1. /\ ~Buffered /\ Interleaved /\ at[i] = "body" /\ result[i] # "none" /\ made' = made
    BY <1>6 DEF WriteBodyError, Progress, Buffered, Interleaved
  <2>2. /\ at' \in [Items -> Stages] /\ at'[i] \in Ended
        /\ \A j \in Items \ {i} : at'[j] = at[j]
    BY <1>6, OverEnds DEF WriteBodyError
  <2>3. /\ result' \in [Items -> {"none", "ok", "failed"}]
        /\ result'[i] = "failed"
        /\ \A j \in Items \ {i} : result'[j] = result[j]
    BY <1>6, ResultSet DEF WriteBodyError
  <2>4. Write(i, "error", 0, "none")
    BY <1>6 DEF WriteBodyError
  <2>5. "error" \in Types /\ "error" \in Finals
    BY DEF Types, Finals
  <2> QED
    BY <1>0, <2>1, <2>2, <2>3, <2>4, <2>5, WriteEffect DEF Wrote
<1> QED
  BY <1>1, <1>2, <1>3, <1>4, <1>5, <1>6 DEF Writes

Stirs ==
    \/ Start \/ Wake \/ Drained \/ FinishStream \/ Crash
    \/ \E i \in Items :
          \/ \E outcome \in {"ok", "failed"} : ReturnBuffered(i, outcome)
          \/ Reject(i) \/ Exhaust(i)

LEMMA StirsAreStirred ==
    ASSUME AdapterTypeOK, Progress, Stirs
    PROVE  Stirred
<1>1. /\ at \in [Items -> Stages] /\ result \in [Items -> {"none", "ok", "failed"}]
      /\ kind \in Kinds /\ started \in 0 .. kind.length /\ mayStart \in BOOLEAN
      /\ fate \in {"open", "ended", "crashed"}
  BY DEF AdapterTypeOK
<1>2. CASE Start
  <2>1. started + 1 \in Items /\ started + 1 \in 0 .. kind.length /\ at[started + 1] = "waiting"
    <3>1. PICK k \in Nat : k = started
      BY <1>1, Slots
    <3>2. k + 1 \in Items /\ k + 1 \in 0 .. kind.length
      BY <1>1, <1>2, <3>1, Slots DEF Start, Items, Batch
    <3>3. ~(k + 1 <= k)
      BY <3>1
    <3> QED
      BY <3>1, <3>2, <3>3 DEF Progress
  <2>2. at' = [at EXCEPT ![started + 1] = "running"]
    BY <1>2 DEF Start
  <2>3. at' \in [Items -> Stages]
    BY <1>1, <2>1, <2>2 DEF Stages
  <2>4. \A i \in Items : at'[i] = at[i] \/ (at[i] = "waiting" /\ at'[i] = "running")
    BY <1>1, <2>1, <2>2
  <2> QED
    BY <1>1, <1>2, <2>1, <2>3, <2>4 DEF Start, Stirred, Ended
<1>3. CASE Wake \/ Drained \/ Crash
  BY <1>1, <1>3 DEF Wake, Drained, Crash, Stirred
<1>4. CASE FinishStream
  BY <1>1, <1>4 DEF FinishStream, Stirred
<1>5. ASSUME NEW i \in Items, NEW outcome \in {"ok", "failed"}, ReturnBuffered(i, outcome)
      PROVE  Stirred
  <2>1. Buffered /\ at[i] = "running" /\ result[i] = "none"
    BY <1>5 DEF ReturnBuffered, Progress
  <2>2. at' = [at EXCEPT ![i] = "done"] /\ result' = [result EXCEPT ![i] = outcome]
    BY <1>5 DEF ReturnBuffered
  <2>3. at' \in [Items -> Stages] /\ result' \in [Items -> {"none", "ok", "failed"}]
    BY <1>1, <2>2 DEF Stages
  <2>4. \A j \in Items : \/ at'[j] = at[j] /\ result'[j] = result[j]
                         \/ j = i /\ at'[j] = "done"
    BY <1>1, <2>2
  <2> QED
    BY <1>1, <1>5, <2>1, <2>3, <2>4 DEF ReturnBuffered, Stirred, Ended
<1>6. ASSUME NEW i \in Items, Reject(i) \/ Exhaust(i)
      PROVE  Stirred
  <2>1. PICK s \in {"rejected", "done"} : at' = [at EXCEPT ![i] = s] /\ at[i] # "rejected"
                     /\ (at[i] \in Ended <=> s = "done")
    BY <1>6 DEF Reject, Exhaust, Ended
  <2>2. at' \in [Items -> Stages]
    BY <1>1, <2>1 DEF Stages
  <2>3. \A j \in Items : at'[j] = at[j] \/ (j = i /\ at'[j] = s)
    BY <1>1, <2>1
  <2>4. /\ fate = "open" /\ kind' = kind /\ made' = made /\ wire' = wire /\ flaws' = flaws
        /\ result' = result /\ started' = started /\ draining' = draining /\ fate' = fate
        /\ mayStart' \in BOOLEAN
    BY <1>1, <1>6 DEF Reject, Exhaust
  <2> QED
    BY <1>1, <2>1, <2>2, <2>3, <2>4 DEF Stirred, Ended
<1> QED
  BY <1>2, <1>3, <1>4, <1>5, <1>6 DEF Stirs

-----------------------------------------------------------------------------
(* The adapter keeps its state in order.                                    *)

LEMMA WroteTyped ==
    ASSUME AdapterTypeOK, Progress, NEW i \in Items, Wrote(i)
    PROVE  AdapterTypeOK' /\ Progress'
<1>1. PICK r \in Records :
        /\ r.id = i
        /\ wire' = Append(wire, r)
        /\ flaws' = IF r.fault = "none" THEN flaws ELSE flaws \cup {<<i, r.fault>>}
        /\ made' = IF r.type = "chunk" THEN [made EXCEPT ![i] = r.n] ELSE made
        /\ r.type = "chunk" => r.n = made[i] + 1 /\ r.n <= ChunksOf[i]
        /\ r.type \in {"record", "failure"} <=> ~Interleaved
        /\ IF r.type \in Finals THEN at'[i] \in Ended ELSE at'[i] = "body"
  BY DEF Wrote
<1>2. r.fault \in Faults /\ r.n \in 0 .. MaxChunks
  BY DEF Records
<1>3. made' \in [Items -> 0 .. MaxChunks] /\ made'[i] <= ChunksOf[i]
      /\ \A j \in Items \ {i} : made'[j] = made[j]
  <2>1. CASE r.type = "chunk"
    <3>1. made' = [made EXCEPT ![i] = r.n] /\ r.n <= ChunksOf[i]
      BY <1>1, <2>1
    <3> QED
      BY <1>2, <3>1 DEF AdapterTypeOK
  <2>2. CASE r.type # "chunk"
    BY <1>1, <2>2 DEF AdapterTypeOK, Progress
  <2> QED
    BY <2>1, <2>2
<1>4. wire' \in Seq(Records) /\ flaws' \subseteq Items \X Faults
  BY <1>1, <1>2, AppendElems DEF AdapterTypeOK
<1>5. AdapterTypeOK'
  BY <1>3, <1>4 DEF Wrote, AdapterTypeOK
<1>6. Progress'
  <2>1. /\ at[i] \in {"running", "body"} /\ kind' = kind /\ started' = started /\ fate' = "open"
        /\ \A j \in Items \ {i} : at'[j] = at[j] /\ result'[j] = result[j]
        /\ result'[i] # "none"
    BY DEF Wrote
  <2>2. /\ at'[i] \in {"body"} \cup Ended
        /\ at'[i] = "body" => Interleaved
    BY <1>1 DEF Ended, Finals
  <2>3. Interleaved' = Interleaved
    BY <2>1 DEF Interleaved
  <2>4. ASSUME NEW j \in Items
        PROVE  /\ at'[j] # "waiting" <=> j <= started'
               /\ at'[j] \in {"waiting", "running", "rejected"} => result'[j] = "none" /\ made'[j] = 0
               /\ at'[j] \in {"body"} \cup Ended => result'[j] # "none"
               /\ at'[j] \in {"body", "rejected"} => Interleaved'
               /\ made'[j] <= ChunksOf[j]
    <3>1. CASE j = i
      BY <1>3, <2>1, <2>2, <2>3, <3>1 DEF Progress, Ended
    <3>2. CASE j # i
      BY <1>3, <2>1, <2>3, <3>2 DEF Progress, Ended
    <3> QED
      BY <3>1, <3>2
  <2> QED
    BY <2>1, <2>4 DEF Progress
<1> QED
  BY <1>5, <1>6

\* The batch is done when every item was started and no slot is taken.
LEMMA AllDoneEnds ==
    ASSUME AdapterTypeOK, Progress, AllDone
    PROVE  \A i \in Batch : at[i] = "done" /\ result[i] # "none"
<1> SUFFICES ASSUME NEW i \in Batch PROVE at[i] = "done" /\ result[i] # "none"
  OBVIOUS
<1>1. i \in Items /\ at[i] \in Stages
  BY Slots DEF AdapterTypeOK
<1>2. i <= started
  BY DEF AllDone, Batch
<1>3. at[i] \notin {"running", "body", "spent", "rejected"}
  BY <1>1 DEF AllDone, Occupied
<1> QED
  BY <1>1, <1>2, <1>3 DEF Progress, Stages, Ended

LEMMA StirredTyped ==
    ASSUME AdapterTypeOK, Progress, Stirs
    PROVE  AdapterTypeOK' /\ Progress'
<1>1. Stirred
  BY StirsAreStirred
<1>2. AdapterTypeOK'
  BY <1>1 DEF Stirred, AdapterTypeOK
<1>3. /\ at \in [Items -> Stages] /\ result \in [Items -> {"none", "ok", "failed"}]
      /\ kind \in Kinds /\ started \in 0 .. kind.length
  BY DEF AdapterTypeOK
<1>4. CASE Start
  <2>1. PICK k \in Nat : k = started
    BY <1>3, Slots
  <2>2. k + 1 \in Items
    BY <1>3, <1>4, <2>1, Slots DEF Start, Items, Batch
  <2>3. at' = [at EXCEPT ![k + 1] = "running"] /\ started' = k + 1
        /\ kind' = kind /\ result' = result /\ made' = made /\ fate' = fate /\ fate = "open"
    BY <1>4, <2>1 DEF Start
  <2>4. at[k + 1] = "waiting"
    <3>1. ~(k + 1 <= k)
      OBVIOUS
    <3> QED
      BY <2>1, <2>2, <3>1 DEF Progress
  <2>5. ASSUME NEW i \in Items
        PROVE  /\ at'[i] # "waiting" <=> i <= k + 1
               /\ at'[i] = at[i] \/ (at[i] = "waiting" /\ at'[i] = "running")
    <3>1. CASE i = k + 1
      BY <1>3, <2>2, <2>3, <2>4, <3>1
    <3>2. CASE i # k + 1
      <4>1. at'[i] = at[i]
        BY <1>3, <2>3, <3>2
      <4>2. i \in Nat /\ (i <= k <=> i <= k + 1)
        BY <3>2, Sizes
      <4> QED
        BY <2>1, <4>1, <4>2 DEF Progress
    <3> QED
      BY <3>1, <3>2
  <2> QED
    BY <1>2, <2>3, <2>5 DEF Progress, Interleaved, Ended
<1>5. CASE Wake \/ Drained \/ Crash
  <2>1. /\ kind' = kind /\ started' = started /\ at' = at /\ result' = result /\ made' = made
        /\ fate' # "ended"
    BY <1>5 DEF Wake, Drained, Crash
  <2> QED
    BY <1>2, <2>1 DEF Progress, Interleaved
<1>6. CASE FinishStream
  <2>1. /\ kind' = kind /\ started' = started /\ at' = at /\ result' = result /\ made' = made
        /\ AllDone \/ \E i \in Items : at[i] = "rejected"
    BY <1>6 DEF FinishStream
  <2>2. \/ \E i \in Items : at[i] = "rejected"
        \/ \A i \in Batch : at[i] = "done"
    BY <2>1, AllDoneEnds
  <2> QED
    BY <1>2, <2>1, <2>2 DEF Progress, Interleaved, Batch
<1>7. ASSUME NEW i \in Items, NEW outcome \in {"ok", "failed"}, ReturnBuffered(i, outcome)
      PROVE  Progress'
  <2>1. /\ kind' = kind /\ started' = started /\ made' = made /\ fate' = "open"
        /\ at[i] = "running"
        /\ at' = [at EXCEPT ![i] = "done"] /\ result' = [result EXCEPT ![i] = outcome]
    BY <1>7 DEF ReturnBuffered
  <2>2. at'[i] = "done" /\ result'[i] # "none"
        /\ \A j \in Items \ {i} : at'[j] = at[j] /\ result'[j] = result[j]
    BY <1>3, <2>1
  <2> QED
    BY <2>1, <2>2 DEF Progress, Interleaved, Ended
<1>8. ASSUME NEW i \in Items, Reject(i) \/ Exhaust(i)
      PROVE  Progress'
  <2>1. /\ kind' = kind /\ started' = started /\ made' = made /\ result' = result
        /\ fate' = "open"
    BY <1>8 DEF Reject, Exhaust
  <2>2. PICK s \in {"rejected", "done"} :
          /\ at' = [at EXCEPT ![i] = s]
          /\ s = "rejected" => at[i] = "running" /\ Interleaved
          /\ s = "done" => at[i] = "spent"
    BY <1>8 DEF Reject, Exhaust
  <2>3. at'[i] = s /\ \A j \in Items \ {i} : at'[j] = at[j]
    BY <1>3, <2>2
  <2> QED
    BY <2>1, <2>2, <2>3 DEF Progress, Interleaved, Ended
<1> QED
  BY <1>2, <1>4, <1>5, <1>6, <1>7, <1>8 DEF Stirs

LEMMA FinishTyped ==
    ASSUME AdapterTypeOK, Progress, FinishBuffered
    PROVE  AdapterTypeOK' /\ Progress'
<1>1. /\ kind' = kind /\ started' = started /\ at' = at /\ result' = result /\ made' = made
      /\ draining' = draining /\ mayStart' = mayStart /\ fate' = "ended" /\ AllDone
  BY DEF FinishBuffered
<1>2. PICK faults \in [Batch -> Faults] :
        /\ wire' = [i \in Batch |-> IF result[i] = "ok" THEN Record(i, "record", 0, faults[i])
                                    ELSE Record(i, "failure", 0, "none")]
        /\ flaws' = {<<i, wire'[i].fault>> : i \in {j \in Batch : wire'[j].fault # "none"}}
  BY DEF FinishBuffered
<1>3. \A i \in Batch : wire'[i] \in Records /\ i \in Items
  <2> SUFFICES ASSUME NEW i \in Batch PROVE wire'[i] \in Records /\ i \in Items
    OBVIOUS
  <2>1. i \in Items /\ faults[i] \in Faults /\ "none" \in Faults
        /\ "record" \in Types /\ "failure" \in Types /\ 0 \in 0 .. MaxChunks
    BY Slots, LongestBody DEF AdapterTypeOK, Faults, Types
  <2>2. Record(i, "record", 0, faults[i]) \in Records /\ Record(i, "failure", 0, "none") \in Records
    BY <2>1, RecordTyped
  <2> QED
    BY <1>2, <2>1, <2>2
<1>4. wire' \in Seq(Records)
  <2>1. kind.length \in Nat
    BY Slots DEF AdapterTypeOK
  <2>2. wire' \in [1 .. kind.length -> Records]
    BY <1>2, <1>3 DEF Batch
  <2> QED
    BY <2>1, <2>2, SeqDef
<1>5. flaws' \subseteq Items \X Faults
  BY <1>2, <1>3 DEF Records
<1>6. AdapterTypeOK'
  BY <1>1, <1>4, <1>5 DEF AdapterTypeOK
<1>7. Progress'
  BY <1>1, AllDoneEnds DEF Progress, Interleaved, Batch
<1> QED
  BY <1>6, <1>7

-----------------------------------------------------------------------------
(* Slots.                                                                   *)

LEMMA OccupiedFinite ==
    ASSUME AdapterTypeOK
    PROVE  IsFiniteSet(Occupied) /\ Occupied \subseteq Items /\ Cardinality(Occupied) \in Nat
<1>1. Occupied \subseteq Items
  BY DEF AdapterTypeOK, Occupied
<1>2. IsFiniteSet(Items)
  BY Sizes, FS_Interval DEF Items
<1> QED
  BY <1>1, <1>2, FS_Subset, FS_CardinalityType

LEMMA FewerOccupied ==
    ASSUME AdapterTypeOK, SlotsHeld, kind' = kind, Occupied' \subseteq Occupied
    PROVE  SlotsHeld'
<1>1. Limit' = Limit /\ Limit \in Nat
  BY Slots DEF Limit, AdapterTypeOK
<1>2. Cardinality(Occupied') <= Cardinality(Occupied) /\ Cardinality(Occupied') \in Nat
  BY OccupiedFinite, FS_Subset, FS_CardinalityType
<1> QED
  BY <1>1, <1>2, OccupiedFinite DEF SlotsHeld

\* One more item in a slot, while one was free.
LEMMA StartHolds ==
    ASSUME AdapterTypeOK, Start
    PROVE  SlotsHeld'
<1>1. Limit' = Limit /\ Limit \in Nat
  BY Slots DEF Limit, AdapterTypeOK, Start
<1>2. Occupied' \subseteq Occupied \cup {started + 1}
  <2>1. at' = [at EXCEPT ![started + 1] = "running"] /\ draining' = draining
    BY DEF Start
  <2>2. \A i \in Items : i # started + 1 => at'[i] = at[i]
    BY <2>1 DEF AdapterTypeOK
  <2> QED
    BY <2>1, <2>2 DEF Occupied
<1> DEFINE More == Occupied \cup {started + 1}
<1>3. IsFiniteSet(More) /\ Cardinality(More) <= Cardinality(Occupied) + 1
  <2>1. /\ IsFiniteSet(More)
        /\ \/ Cardinality(More) = Cardinality(Occupied)
           \/ Cardinality(More) = Cardinality(Occupied) + 1
    BY OccupiedFinite, FS_AddElement
  <2>2. PICK n \in Nat : n = Cardinality(Occupied)
    BY OccupiedFinite
  <2> HIDE DEF More
  <2> QED
    BY <2>1, <2>2
<1>4. /\ Cardinality(Occupied') <= Cardinality(More)
      /\ Cardinality(More) \in Nat /\ Cardinality(Occupied') \in Nat
  BY <1>2, <1>3, FS_Subset, FS_CardinalityType
<1>5. Cardinality(Occupied) < Limit
  BY DEF Start
<1> HIDE DEF More
<1> QED
  BY <1>1, <1>3, <1>4, <1>5, OccupiedFinite DEF SlotsHeld

LEMMA SlotsKept ==
    ASSUME AdapterTypeOK, Progress, SlotsHeld, Adapt \/ Crash
    PROVE  SlotsHeld'
<1>1. CASE Start
  BY <1>1, StartHolds
<1>2. ASSUME NEW i \in Items, Writes(i)
      PROVE  SlotsHeld'
  <2>1. Wrote(i)
    BY <1>2, WritesAreWrote
  <2>2. Occupied' \subseteq Occupied
    BY <2>1 DEF Wrote, Occupied
  <2> QED
    BY <2>1, <2>2, FewerOccupied DEF Wrote
<1>3. CASE Wake \/ Drained \/ FinishStream \/ FinishBuffered \/ Crash
  <2>1. kind' = kind /\ at' = at /\ draining' \subseteq draining
    BY <1>3 DEF Wake, Drained, FinishStream, FinishBuffered, Crash
  <2> QED
    BY <2>1, FewerOccupied DEF Occupied
<1>4. ASSUME NEW i \in Items, NEW s \in {"rejected", "done"}, kind' = kind, draining' = draining,
             at' = [at EXCEPT ![i] = s], s = "rejected" => at[i] = "running"
      PROVE  SlotsHeld'
  <2>1. at'[i] = s /\ \A j \in Items \ {i} : at'[j] = at[j]
    BY <1>4 DEF AdapterTypeOK
  <2>2. Occupied' \subseteq Occupied
    BY <1>4, <2>1 DEF Occupied
  <2> QED
    BY <1>4, <2>2, FewerOccupied
<1>5. ASSUME NEW i \in Items, NEW outcome \in {"ok", "failed"}, ReturnBuffered(i, outcome)
      PROVE  SlotsHeld'
  BY <1>4, <1>5 DEF ReturnBuffered
<1>6. ASSUME NEW i \in Items, Reject(i) \/ Exhaust(i)
      PROVE  SlotsHeld'
  BY <1>4, <1>6 DEF Reject, Exhaust
<1> QED
  BY <1>1, <1>2, <1>3, <1>5, <1>6 DEF Adapt, Produce, Writes

\* The steps of the adapter, as they are told apart below.
LEMMA AdapterSteps ==
    ASSUME Adapt \/ Crash
    PROVE  Stirs \/ FinishBuffered \/ \E i \in Items : Writes(i)
BY DEF Adapt, Produce, Stirs, Writes

\* All that is not the adapter leaves it as it is, but for what is read from the wire.
LEMMA OthersLeave ==
    ASSUME Dispatch \/ (\E i \in Items : Receive(i) \/ Leave(i)) \/ RDQuiescent \/ UNCHANGED rdvars
    PROVE  UNCHANGED <<kind, started, at, result, made, draining, mayStart, flaws, fate>>
<1>1. CASE Dispatch
  BY <1>1 DEF Dispatch, SkipRecord, DispatchRecord, DispatchHead, DispatchChunk, DispatchEnd,
              DispatchError, DispatchBad, StreamUnreadable, StreamOver, DispatchBuffered,
              Dispatching, avars
<1>2. ASSUME NEW i \in Items, Receive(i) \/ Leave(i)
      PROVE  UNCHANGED avars
  BY <1>2 DEF Receive, TakeReply, ReadChunk, BodyOver, Leave
<1>3. CASE RDQuiescent \/ UNCHANGED rdvars
  BY <1>3 DEF RDQuiescent, rdvars, avars
<1>4. UNCHANGED avars => UNCHANGED <<kind, started, at, result, made, draining, mayStart, flaws, fate>>
  BY DEF avars
<1> QED
  BY <1>1, <1>2, <1>3, <1>4

-----------------------------------------------------------------------------
(* A line of the response stream.                                           *)

LEMMA SpoiledGrows ==
    ASSUME kind' = kind, flaws \subseteq flaws', fate = "crashed" => fate' = "crashed",
           \A i \in Items : at[i] = "rejected" => at'[i] = "rejected"
    PROVE  Spoiled \subseteq Spoiled'
<1>1. SpoilsAll => SpoilsAll'
  BY DEF SpoilsAll, Buffered
<1>2. Spoiled \subseteq Items
  BY DEF Spoiled
<1>3. CASE SpoilsAll'
  BY <1>2, <1>3 DEF Spoiled
<1>4. CASE ~SpoilsAll'
  BY <1>1, <1>4 DEF Spoiled
<1> QED
  BY <1>3, <1>4

LEMMA WrotePath ==
    ASSUME PathInv, Watched, NEW i \in Items, Wrote(i)
    PROVE  PathInv'
<1>1. PICK r \in Records :
        /\ r.id = i
        /\ wire' = Append(wire, r)
        /\ flaws' = IF r.fault = "none" THEN flaws ELSE flaws \cup {<<i, r.fault>>}
        /\ r.type \in {"record", "failure"} <=> ~Interleaved
        /\ r.type = "record" => result'[i] = "ok"
        /\ r.type \in {"failure", "error"} => result'[i] = "failed"
        /\ made' = IF r.type = "chunk" THEN [made EXCEPT ![i] = r.n] ELSE made
        /\ r.type = "chunk" => r.n = made[i] + 1 /\ r.n <= ChunksOf[i]
        /\ IF r.type \in Finals THEN at'[i] \in Ended ELSE at'[i] = "body"
  BY DEF Wrote
<1>2. /\ ~Buffered /\ fate = "open" /\ fate' = "open" /\ kind' = kind
      /\ at[i] \in {"running", "body"} /\ result'[i] # "none"
      /\ \A j \in Items \ {i} : at'[j] = at[j] /\ result'[j] = result[j]
      /\ result'[i] # result[i] => result[i] = "none" \/ result'[i] = "failed"
  BY DEF Wrote
<1>3. AdapterTypeOK /\ Progress /\ AdapterTypeOK' /\ Progress'
  BY WroteTyped DEF PathInv, RDTypeOK
<1>4. /\ job' = job /\ pending' = pending /\ reply' = reply /\ open' = open
      /\ body' = body /\ client' = client /\ got' = got /\ job = "running"
  BY DEF Watched, gatevars
<1>5. RDTypeOK'
  BY <1>3, <1>4 DEF PathInv, RDTypeOK
<1>6. /\ Batch' = Batch /\ Batch \subseteq Items
      /\ Buffered' = Buffered /\ Interleaved' = Interleaved
  BY <1>2, <1>3, Slots DEF AdapterTypeOK, Batch, Buffered, Interleaved
<1>7. PICK n \in Nat : n = Len(wire) /\ Positions = 1 .. n
  BY <1>3, LenProperties DEF AdapterTypeOK, Positions
<1>8. /\ wire \in Seq(Records) /\ wire' \in Seq(Records) /\ Positions' = 1 .. n + 1
      /\ wire'[n + 1] = r
      /\ \A p \in 1 .. n : wire'[p] = wire[p] /\ wire[p] \in Records
      /\ \A p \in 1 .. n + 1 : p \in 1 .. n \/ p = n + 1
  BY <1>1, <1>3, <1>7, AppendElems, ElementOfSeq DEF AdapterTypeOK, Positions
<1>9. /\ r.type = "chunk" => made'[i] = made[i] + 1 /\ r.n = made'[i]
      /\ r.type # "chunk" => made'[i] = made[i]
      /\ \A j \in Items \ {i} : made'[j] = made[j]
  BY <1>1, <1>3 DEF AdapterTypeOK
<1>10. \A j \in Items : made[j] \in Nat /\ made'[j] \in Nat /\ made[j] <= made'[j]
  <2> SUFFICES ASSUME NEW j \in Items
               PROVE  made[j] \in Nat /\ made'[j] \in Nat /\ made[j] <= made'[j]
    OBVIOUS
  <2>1. made[j] \in 0 .. MaxChunks /\ made'[j] \in 0 .. MaxChunks
    BY <1>3 DEF AdapterTypeOK
  <2>2. made[j] \in Nat /\ made'[j] \in Nat
    BY <2>1, LongestBody
  <2>3. made'[j] = made[j] \/ made'[j] = made[j] + 1
    BY <1>9
  <2> QED
    BY <2>2, <2>3
<1>11. flaws \subseteq flaws' /\ (r.fault # "none" => <<i, r.fault>> \in flaws')
  BY <1>1
<1>12. i \in Batch
  BY <1>2, <1>3, Slots DEF Progress, AdapterTypeOK, Batch, Items
<1>13. WireInv'
  <2>1. ASSUME NEW p \in 1 .. n
        PROVE  /\ RecordHolds(wire[p])'
               /\ wire[p].id = i => wire[p].type \notin Finals
                                    /\ (wire[p].type = "chunk" => wire[p].n <= made[i])
    <3>1. RecordHolds(wire[p]) /\ wire[p] \in Records /\ wire'[p] = wire[p]
      BY <1>7, <1>8 DEF PathInv, WireInv
    <3>2. wire[p].id \in Items /\ wire[p].n \in Nat
      BY <3>1, LongestBody DEF Records
    <3>3. wire[p].id = i => wire[p].type \notin Finals
                            /\ (wire[p].type = "chunk" => wire[p].n <= made[i])
      BY <1>2, <3>1 DEF RecordHolds, Ended
    <3>4. wire[p].type = "chunk" => wire[p].n \in 1 .. made'[wire[p].id]
      BY <1>10, <3>1, <3>2 DEF RecordHolds
    <3>5. CASE wire[p].id = i
      BY <1>2, <1>6, <1>11, <3>1, <3>3, <3>4, <3>5 DEF RecordHolds, Finals
    <3>6. CASE wire[p].id # i
      BY <1>2, <1>6, <1>11, <3>1, <3>2, <3>4, <3>6 DEF RecordHolds
    <3> QED
      BY <3>3, <3>5, <3>6
  <2>2. RecordHolds(r)'
    <3>1. r.type = "chunk" => r.n \in 1 .. made'[i]
      BY <1>9, <1>10
    <3> QED
      BY <1>1, <1>2, <1>6, <1>11, <1>12, <3>1 DEF RecordHolds
  <2>3. \A p \in Positions' : RecordHolds(wire[p])'
    BY <1>8, <2>1, <2>2 DEF RecordHolds
  <2>4. Ordered'
    <3> SUFFICES ASSUME NEW p \in 1 .. n + 1, NEW q \in 1 .. n + 1, p < q,
                        wire'[p].id = wire'[q].id
                 PROVE  /\ wire'[p].type \notin Finals
                        /\ wire'[p].type = "chunk" /\ wire'[q].type = "chunk" =>
                              wire'[p].n < wire'[q].n
      BY <1>8 DEF Ordered
    <3>1. p \in 1 .. n /\ p \in Nat /\ q \in Nat /\ ~(n + 1 < q)
      OBVIOUS
    <3>2. CASE q \in 1 .. n
      <4>1. wire'[p] = wire[p] /\ wire'[q] = wire[q] /\ p \in Positions /\ q \in Positions
        BY <1>7, <1>8, <3>1, <3>2
      <4> QED
        BY <4>1 DEF PathInv, WireInv, Ordered
    <3>3. CASE q = n + 1
      <4>1. wire'[q] = r /\ wire'[p] = wire[p] /\ wire[p] \in Records
        BY <1>8, <3>1, <3>3
      <4>2. wire[p].id = i /\ wire[p].n \in Nat
        BY <1>1, <4>1, LongestBody DEF Records
      <4> QED
        BY <1>9, <1>10, <2>1, <3>1, <4>1, <4>2
    <3> QED
      BY <1>8, <3>2, <3>3
  <2>5. Document'
    BY <1>2, <1>6 DEF Document
  <2> QED
    BY <2>3, <2>4, <2>5 DEF WireInv
<1>14. InOrder'
  <2>1. \A j \in Items : Taken(j) \in Nat
    BY DEF Taken, PathInv, RDTypeOK
  <2>2. \A j \in Items : Taken(j)' = Taken(j) /\ Taken(j) <= made'[j]
    <3> SUFFICES ASSUME NEW j \in Items PROVE Taken(j)' = Taken(j) /\ Taken(j) <= made'[j]
      OBVIOUS
    <3>1. Taken(j)' = Taken(j) /\ Taken(j) <= made[j]
      BY <1>4 DEF PathInv, InOrder, Taken
    <3> QED
      BY <1>10, <2>1, <3>1
  <2> QED
    BY <1>4, <2>2 DEF PathInv, InOrder
<1>15. Spoiled \subseteq Spoiled'
  BY <1>2, <1>11, SpoiledGrows
<1>16. RepliesHold'
  BY <1>2, <1>4, <1>6, <1>15 DEF PathInv, RepliesHold, Ended
<1>17. Closed'
  <2>1. \A j \in Batch \ pending : client[j] # "left" /\ reply[j] = "head" /\ j \notin Spoiled =>
            at'[j] = at[j] /\ made'[j] = made[j]
    BY <1>2, <1>6, <1>9 DEF PathInv, Closed, Ended
  <2> QED
    BY <1>4, <1>6, <1>15, <2>1 DEF PathInv, Closed, Taken
<1>18. Waiting'
  BY <1>4, <1>6 DEF PathInv, Waiting
<1>19. Coming'
  <2> SUFFICES ASSUME NEW j \in pending
               PROVE  /\ client[j] # "left" =>
                           /\ \A p \in 1 .. n + 1 : \A m \in Nat : IsChunk(p, j, m)' => Taken(j) < m
                           /\ \A m \in Taken(j) + 1 .. made'[j] : \E p \in 1 .. n + 1 : IsChunk(p, j, m)'
                      /\ at'[j] \in Ended =>
                           \E p \in 1 .. n + 1 : wire'[p].id = j /\ wire'[p].type \in Finals
    BY <1>4, <1>8 DEF Coming, Taken
  <2>1. j \in Items /\ Taken(j) \in Nat /\ Taken(j) <= made[j]
    BY DEF PathInv, RDTypeOK, Taken, InOrder
  <2>2. n + 1 \in 1 .. n + 1 /\ \A p \in 1 .. n : p \in 1 .. n + 1
    OBVIOUS
  <2>3. \A p \in 1 .. n : \A m \in Nat : IsChunk(p, j, m)' <=> IsChunk(p, j, m)
    BY <1>8 DEF IsChunk
  <2>4. ASSUME client[j] # "left", NEW p \in 1 .. n + 1, NEW m \in Nat, IsChunk(p, j, m)'
        PROVE  Taken(j) < m
    <3>1. CASE p \in 1 .. n
      BY <1>7, <2>3, <2>4, <3>1 DEF PathInv, Coming
    <3>2. CASE p = n + 1
      <4>1. r.id = j /\ r.type = "chunk" /\ r.n = m
        BY <1>8, <2>4, <3>2 DEF IsChunk
      <4> QED
        BY <1>1, <1>9, <1>10, <2>1, <4>1
    <3> QED
      BY <1>8, <3>1, <3>2
  <2>5. ASSUME client[j] # "left", NEW m \in Taken(j) + 1 .. made'[j]
        PROVE  \E p \in 1 .. n + 1 : IsChunk(p, j, m)'
    <3>1. m \in Nat
      BY <1>10, <2>1
    <3>2. CASE m \in Taken(j) + 1 .. made[j]
      <4>1. PICK p \in 1 .. n : IsChunk(p, j, m)
        BY <1>7, <2>5, <3>2 DEF PathInv, Coming
      <4> QED
        BY <2>2, <2>3, <3>1, <4>1
    <3>3. CASE m \notin Taken(j) + 1 .. made[j]
      <4>1. j = i /\ r.type = "chunk" /\ m = r.n
        BY <1>9, <1>10, <2>1, <2>5, <3>1, <3>3
      <4> QED
        BY <1>1, <1>8, <2>2, <4>1 DEF IsChunk
    <3> QED
      BY <3>2, <3>3
  <2>6. ASSUME at'[j] \in Ended
        PROVE  \E p \in 1 .. n + 1 : wire'[p].id = j /\ wire'[p].type \in Finals
    <3>1. CASE j = i
      <4>1. r.type \in Finals
        BY <1>1, <2>6, <3>1 DEF Ended
      <4> QED
        BY <1>1, <1>8, <2>2, <3>1, <4>1
    <3>2. CASE j # i
      <4>1. PICK p \in 1 .. n : wire[p].id = j /\ wire[p].type \in Finals
        BY <1>2, <1>7, <2>1, <2>6, <3>2 DEF PathInv, Coming
      <4> QED
        BY <1>8, <2>2, <4>1
    <3> QED
      BY <3>1, <3>2
  <2> QED
    BY <2>4, <2>5, <2>6
<1> QED
  BY <1>3, <1>5, <1>13, <1>14, <1>16, <1>17, <1>18, <1>19 DEF PathInv

LEMMA StirredPath ==
    ASSUME PathInv, Watched, Stirs
    PROVE  PathInv'
<1>1. AdapterTypeOK /\ Progress /\ AdapterTypeOK' /\ Progress' /\ Stirred
  BY StirredTyped, StirsAreStirred DEF PathInv, RDTypeOK
<1>2. /\ fate = "open" /\ kind' = kind /\ made' = made /\ wire' = wire /\ flaws' = flaws
      /\ \A i \in Items :
            /\ at[i] \in Ended => at'[i] \in Ended
            /\ at'[i] \in Ended => at[i] \in Ended \/ Buffered
            /\ at[i] = "rejected" => at'[i] = "rejected"
            /\ result'[i] # result[i] => result[i] = "none" /\ Buffered
      /\ fate' = "ended" => ~Buffered
  BY <1>1 DEF Stirred
<1>3. /\ job' = job /\ pending' = pending /\ reply' = reply /\ open' = open
      /\ body' = body /\ client' = client /\ got' = got /\ job = "running"
  BY DEF Watched, gatevars
<1>4. RDTypeOK'
  BY <1>1, <1>3 DEF PathInv, RDTypeOK
<1>5. /\ Batch' = Batch /\ Batch \subseteq Items /\ Positions' = Positions
      /\ Buffered' = Buffered /\ Interleaved' = Interleaved
  BY <1>1, <1>2, Slots DEF AdapterTypeOK, Batch, Buffered, Interleaved, Positions
<1>6. Document'
  BY <1>2, <1>3, <1>5 DEF PathInv, WireInv, Document
<1>7. ASSUME NEW p \in Positions
      PROVE  RecordHolds(wire[p])'
  <2>1. RecordHolds(wire[p])
    BY DEF PathInv, WireInv
  <2>2. ~Buffered
    <3> SUFFICES ASSUME Buffered PROVE FALSE
      OBVIOUS
    <3>1. wire = <<>>
      BY <1>2 DEF PathInv, WireInv, Document
    <3> QED
      BY <3>1 DEF Positions
  <2>3. wire[p].id \in Items /\ result'[wire[p].id] = result[wire[p].id]
    BY <1>2, <1>5, <2>1, <2>2 DEF RecordHolds
  <2> QED
    BY <1>2, <1>5, <2>1, <2>3 DEF RecordHolds
<1>8. WireInv'
  <2>1. Ordered'
    BY <1>2, <1>5 DEF PathInv, WireInv, Ordered
  <2> QED
    BY <1>2, <1>5, <1>6, <1>7, <2>1 DEF WireInv
<1>9. InOrder'
  BY <1>2, <1>3 DEF PathInv, InOrder, Taken
<1>10. Spoiled \subseteq Spoiled'
  BY <1>2, SpoiledGrows
<1>11. RepliesHold'
  BY <1>2, <1>3, <1>5, <1>10 DEF PathInv, RepliesHold
<1>12. Closed'
  BY <1>2, <1>3, <1>5, <1>10 DEF PathInv, Closed, Taken
<1>13. Waiting'
  BY <1>3, <1>5 DEF PathInv, Waiting
<1>14. Coming'
  <2> SUFFICES ASSUME NEW i \in pending
               PROVE  /\ client[i] # "left" =>
                           /\ \A p \in Positions : \A n \in Nat : IsChunk(p, i, n)' => Taken(i)' < n
                           /\ \A n \in Taken(i)' + 1 .. made'[i] :
                                 \E p \in Positions : IsChunk(p, i, n)'
                      /\ ~Buffered /\ at'[i] \in Ended =>
                           \E p \in Positions : wire'[p].id = i /\ wire'[p].type \in Finals
    BY <1>3, <1>5 DEF Coming
  <2>1. i \in Items /\ Taken(i)' = Taken(i)
    BY <1>3 DEF PathInv, RDTypeOK, Taken
  <2>2. \A p \in Positions : \A n \in Nat : IsChunk(p, i, n)' <=> IsChunk(p, i, n)
    BY <1>2 DEF IsChunk
  <2>3. \A n \in Taken(i) + 1 .. made[i] : n \in Nat
    BY LongestBody DEF PathInv, RDTypeOK, AdapterTypeOK, Taken
  <2> QED
    BY <1>2, <2>1, <2>2, <2>3 DEF PathInv, Coming
<1> QED
  BY <1>1, <1>4, <1>8, <1>9, <1>11, <1>12, <1>13, <1>14 DEF PathInv

\* The whole document of a buffered response is written.
LEMMA FinishPath ==
    ASSUME PathInv, Watched, FinishBuffered
    PROVE  PathInv'
<1>1. AdapterTypeOK /\ Progress /\ AdapterTypeOK' /\ Progress'
  BY FinishTyped DEF PathInv, RDTypeOK
<1>2. /\ kind' = kind /\ at' = at /\ result' = result /\ made' = made
      /\ fate = "open" /\ fate' = "ended" /\ AllDone /\ Buffered
  BY DEF FinishBuffered
<1>3. /\ job' = job /\ pending' = pending /\ reply' = reply /\ open' = open
      /\ body' = body /\ client' = client /\ got' = got /\ job = "running"
  BY DEF Watched, gatevars
<1>4. RDTypeOK'
  BY <1>1, <1>3 DEF PathInv, RDTypeOK
<1>5. /\ Batch' = Batch /\ Batch \subseteq Items
      /\ Buffered' = Buffered /\ Interleaved' = Interleaved
  BY <1>1, <1>2, Slots DEF AdapterTypeOK, Batch, Buffered, Interleaved
<1>6. PICK faults \in [Batch -> Faults] :
        /\ wire' = [i \in Batch |-> IF result[i] = "ok" THEN Record(i, "record", 0, faults[i])
                                    ELSE Record(i, "failure", 0, "none")]
        /\ flaws' = {<<i, wire'[i].fault>> : i \in {j \in Batch : wire'[j].fault # "none"}}
  BY DEF FinishBuffered
<1>7. PICK n \in Nat : n = kind.length /\ Batch = 1 .. n
  BY <1>1, Slots DEF AdapterTypeOK, Batch
<1>8. Len(wire') = n /\ Positions' = Batch
  <2>1. wire' \in Seq(Records)
    BY <1>1 DEF AdapterTypeOK
  <2>2. DOMAIN wire' = 1 .. n
    BY <1>6, <1>7
  <2>3. Len(wire') = n
    BY <2>1, <2>2, LenProperties, <1>7
  <2> QED
    BY <1>7, <2>3 DEF Positions
<1>9. \A i \in Batch :
        /\ wire'[i].id = i
        /\ wire'[i].type = IF result[i] = "ok" THEN "record" ELSE "failure"
        /\ wire'[i].fault # "none" => <<i, wire'[i].fault>> \in flaws'
  BY <1>6 DEF Record
<1>10. \A i \in Batch : at[i] = "done" /\ result[i] \in {"ok", "failed"}
  BY <1>1, <1>2, <1>5, AllDoneEnds DEF AdapterTypeOK
<1>11. flaws = {} /\ wire = <<>>
  BY <1>2 DEF PathInv, WireInv, Document
<1>12. WireInv'
  <2>1. ~Interleaved
    BY <1>2 DEF Interleaved, Buffered
  <2>2. \A p \in Positions' : RecordHolds(wire[p])'
    <3> SUFFICES ASSUME NEW p \in Batch PROVE RecordHolds(wire[p])'
      BY <1>8
    <3>1. wire'[p].id = p /\ wire'[p].type \in {"record", "failure"}
          /\ wire'[p].type = "record" <=> result[p] = "ok"
      BY <1>9
    <3> QED
      BY <1>2, <1>5, <1>9, <1>10, <2>1, <3>1 DEF RecordHolds, Ended
  <2>3. Ordered'
    <3> SUFFICES ASSUME NEW p \in 1 .. n, NEW q \in 1 .. n, p < q, wire'[p].id = wire'[q].id
                 PROVE  FALSE
      BY <1>7, <1>8 DEF Ordered
    <3>0. p \in Batch /\ q \in Batch
      BY <1>7
    <3>1. p = q
      <4>1. wire'[p].id = p /\ wire'[q].id = q
        BY <1>9, <3>0
      <4> QED
        BY <4>1
    <3>2. p \in Nat /\ ~(p < p)
      OBVIOUS
    <3> QED
      BY <3>1, <3>2
  <2>4. Document'
    BY <1>2, <1>3, <1>5, <1>7, <1>8, <1>9 DEF PathInv, WireInv, Document
  <2> QED
    BY <2>2, <2>3, <2>4 DEF WireInv
<1>13. InOrder'
  BY <1>2, <1>3 DEF PathInv, InOrder, Taken
<1>14. Spoiled \subseteq Spoiled'
  BY <1>2, <1>11, SpoiledGrows
<1>15. RepliesHold'
  BY <1>2, <1>3, <1>5, <1>14 DEF PathInv, RepliesHold
<1>16. Closed'
  BY <1>2, <1>3, <1>5, <1>14 DEF PathInv, Closed, Taken
<1>17. Waiting'
  BY <1>3, <1>5 DEF PathInv, Waiting
<1>18. Coming'
  <2>1. Positions = {}
    BY <1>11 DEF Positions
  <2>2. \A i \in pending : client[i] # "left" => \A m \in Taken(i) + 1 .. made[i] : FALSE
    BY <2>1 DEF PathInv, Coming
  <2>3. \A p \in Positions' : wire'[p].type # "chunk"
    BY <1>8, <1>9
  <2> QED
    BY <1>2, <1>3, <1>5, <2>2, <2>3 DEF Coming, Taken, IsChunk
<1> QED
  BY <1>1, <1>4, <1>12, <1>13, <1>15, <1>16, <1>17, <1>18 DEF PathInv

-----------------------------------------------------------------------------
(* The gateway reads the first record from the wire.                        *)

Popped ==
    /\ ~Buffered /\ job = "running"
    /\ wire # <<>> /\ wire' = Tail(wire)
    /\ UNCHANGED <<kind, started, at, result, made, draining, mayStart, flaws, fate>>

\* What may be sent for request i.
TrueReply(i, what) ==
    /\ what = "ok" => result[i] = "ok" /\ at[i] \in Ended
    /\ what = "failed" => result[i] = "failed"
    /\ what = "head" => Interleaved /\ result[i] # "none"
    /\ what \in {"502", "dropped"} => i \in Spoiled

\* What does not change with the wire.
LEMMA SameFunction ==
    ASSUME AdapterTypeOK, Progress,
           UNCHANGED <<kind, started, at, result, made, draining, mayStart, flaws, fate>>
    PROVE  /\ Batch' = Batch /\ Batch \subseteq Items
           /\ Buffered' = Buffered /\ Interleaved' = Interleaved
           /\ Spoiled' = Spoiled /\ Progress'
           /\ wire' \in Seq(Records) => AdapterTypeOK'
           /\ \A x : RecordHolds(x)' <=> RecordHolds(x)
           /\ \A i, what : TrueReply(i, what)' <=> TrueReply(i, what)
<1>1. /\ Batch' = Batch /\ Batch \subseteq Items
      /\ Buffered' = Buffered /\ Interleaved' = Interleaved
  BY Slots DEF Batch, Buffered, Interleaved, AdapterTypeOK
<1>2. Spoiled' = Spoiled
  BY <1>1 DEF Spoiled, SpoilsAll
<1>3. Progress'
  BY <1>1 DEF Progress
<1>4. wire' \in Seq(Records) => AdapterTypeOK'
  BY DEF AdapterTypeOK
<1>5. \A x : RecordHolds(x)' <=> RecordHolds(x)
  BY <1>1 DEF RecordHolds
<1>6. \A i, what : TrueReply(i, what)' <=> TrueReply(i, what)
  BY <1>1, <1>2 DEF TrueReply
<1> QED
  BY <1>1, <1>2, <1>3, <1>4, <1>5, <1>6

LEMMA PopEffect ==
    ASSUME PathInv, Popped
    PROVE  /\ 1 \in Positions /\ Rec = wire[1] /\ Rec \in Records /\ RecordHolds(Rec)
           /\ Id \in Batch /\ Id \in Items
           /\ \A p \in Positions' : p + 1 \in Positions /\ wire'[p] = wire[p + 1]
           /\ \A q \in Positions : q = 1 \/ (q - 1 \in Positions' /\ wire'[q - 1] = wire[q])
           /\ \A q \in Positions : q = 1 \/ 1 < q
           /\ AdapterTypeOK' /\ Progress' /\ WireInv'
<1>1. AdapterTypeOK /\ Progress /\ wire \in Seq(Records)
  BY DEF PathInv, RDTypeOK, AdapterTypeOK
<1>2. /\ 1 \in 1 .. Len(wire) /\ Head(wire) = wire[1] /\ Head(wire) \in Records
      /\ Tail(wire) \in Seq(Records)
      /\ \A p \in 1 .. Len(Tail(wire)) : p + 1 \in 1 .. Len(wire) /\ Tail(wire)[p] = wire[p + 1]
  BY <1>1, TailElems DEF Popped
<1>3. PICK n \in Nat : n = Len(wire)
  BY <1>1, LenProperties
<1>4. Len(Tail(wire)) = n - 1
  BY <1>1, <1>3, HeadTailProperties DEF Popped
<1>5. 1 \in Positions /\ Rec = wire[1] /\ Rec \in Records /\ RecordHolds(Rec)
  BY <1>2 DEF Positions, Rec, PathInv, WireInv
<1>6. /\ AdapterTypeOK' /\ Progress' /\ Batch \subseteq Items /\ ~Buffered'
      /\ \A x : RecordHolds(x)' <=> RecordHolds(x)
  BY <1>1, <1>2, SameFunction DEF Popped
<1>7. Id \in Batch /\ Id \in Items
  BY <1>5, <1>6 DEF RecordHolds, Id
<1>8. \A p \in Positions' : p \in Nat /\ p + 1 \in Positions /\ wire'[p] = wire[p + 1]
  BY <1>2, <1>3, <1>4 DEF Positions, Popped
<1>9. \A q \in Positions : /\ q = 1 \/ 1 < q
                           /\ q = 1 \/ (q - 1 \in Positions' /\ wire'[q - 1] = wire[q])
  <2> SUFFICES ASSUME NEW q \in Positions, q # 1
               PROVE  1 < q /\ q - 1 \in Positions' /\ wire'[q - 1] = wire[q]
    OBVIOUS
  <2>1. q \in 1 .. n /\ Positions' = 1 .. n - 1
    BY <1>3, <1>4 DEF Positions, Popped
  <2>2. 1 < q /\ q - 1 \in 1 .. n - 1 /\ (q - 1) + 1 = q
    BY <2>1
  <2> QED
    BY <1>8, <2>1, <2>2
<1>10. WireInv'
  <2>1. \A p \in Positions' : RecordHolds(wire[p])'
    <3> SUFFICES ASSUME NEW p \in Positions' PROVE RecordHolds(wire[p])'
      OBVIOUS
    <3>1. PICK x : x = wire[p + 1] /\ x = wire'[p] /\ RecordHolds(x)
      BY <1>8 DEF PathInv, WireInv
    <3>2. RecordHolds(x)'
      BY <1>6, <3>1
    <3> QED
      BY <3>1, <3>2 DEF RecordHolds
  <2>2. Ordered'
    <3> SUFFICES ASSUME NEW p \in Positions', NEW q \in Positions', p < q,
                        wire'[p].id = wire'[q].id
                 PROVE  /\ wire'[p].type \notin Finals
                        /\ wire'[p].type = "chunk" /\ wire'[q].type = "chunk" =>
                              wire'[p].n < wire'[q].n
      BY DEF Ordered
    <3>1. /\ p + 1 \in Positions /\ wire'[p] = wire[p + 1] /\ p \in Nat
          /\ q + 1 \in Positions /\ wire'[q] = wire[q + 1] /\ q \in Nat
      BY <1>8
    <3>2. p + 1 < q + 1 /\ wire[p + 1].id = wire[q + 1].id
      BY <3>1
    <3>3. /\ wire[p + 1].type \notin Finals
          /\ wire[p + 1].type = "chunk" /\ wire[q + 1].type = "chunk" =>
                wire[p + 1].n < wire[q + 1].n
      <4>1. Ordered
        BY DEF PathInv, WireInv
      <4> QED
        BY <3>1, <3>2, <4>1 DEF Ordered
    <3> QED
      BY <3>1, <3>3
  <2>3. Document'
    BY <1>6 DEF Document
  <2> QED
    BY <2>1, <2>2, <2>3 DEF WireInv
<1> QED
  BY <1>5, <1>6, <1>7, <1>8, <1>9, <1>10

\* Nothing that is pending is lost from the wire but the first record.
LEMMA StillComing ==
    ASSUME PathInv, Popped, NEW i \in pending, i # Id
    PROVE  /\ client[i] # "left" =>
                /\ \A p \in Positions' : \A n \in Nat : IsChunk(p, i, n)' => Taken(i) < n
                /\ \A n \in Taken(i) + 1 .. made[i] : \E p \in Positions' : IsChunk(p, i, n)'
           /\ at[i] \in Ended => \E p \in Positions' : wire'[p].id = i /\ wire'[p].type \in Finals
<1>1. /\ Rec = wire[1] /\ Id = wire[1].id
      /\ \A p \in Positions' : p + 1 \in Positions /\ wire'[p] = wire[p + 1]
      /\ \A q \in Positions : q = 1 \/ (q - 1 \in Positions' /\ wire'[q - 1] = wire[q])
  BY PopEffect DEF Id
<1>2. ASSUME client[i] # "left", NEW p \in Positions', NEW n \in Nat, IsChunk(p, i, n)'
      PROVE  Taken(i) < n
  <2>1. IsChunk(p + 1, i, n) /\ p + 1 \in Positions
    BY <1>1, <1>2 DEF IsChunk
  <2> QED
    BY <1>2, <2>1 DEF PathInv, Coming
<1>3. ASSUME client[i] # "left", NEW n \in Taken(i) + 1 .. made[i]
      PROVE  \E p \in Positions' : IsChunk(p, i, n)'
  <2>1. PICK q \in Positions : IsChunk(q, i, n)
    BY <1>3 DEF PathInv, Coming
  <2>2. q - 1 \in Positions' /\ wire'[q - 1] = wire[q]
    BY <1>1, <2>1 DEF IsChunk
  <2> QED
    BY <2>1, <2>2 DEF IsChunk
<1>4. ASSUME at[i] \in Ended
      PROVE  \E p \in Positions' : wire'[p].id = i /\ wire'[p].type \in Finals
  <2>1. PICK q \in Positions : wire[q].id = i /\ wire[q].type \in Finals
    BY <1>4 DEF PathInv, Coming, Popped
  <2> QED
    BY <1>1, <2>1
<1> QED
  BY <1>2, <1>3, <1>4

\* The first record is of a request that is, or now is, no longer in the map.
LEMMA RemovedPath ==
    ASSUME PathInv, Popped, pending' = pending \ {Id}, open' = open \ {Id},
           UNCHANGED <<job, body, client, got>>,
           NEW what \in Replies, TrueReply(Id, what),
           reply' = [reply EXCEPT ![Id] = what],
           reply[Id] = "none" \/ what = reply[Id],
           client[Id] # "left" /\ what = "head" =>
               Id \in Spoiled \/ (at[Id] \in Ended /\ Taken(Id) = made[Id])
    PROVE  PathInv'
<1>1. AdapterTypeOK /\ Progress /\ AdapterTypeOK' /\ Progress' /\ WireInv' /\ Id \in Items
  BY PopEffect DEF PathInv, RDTypeOK
<1>2. /\ at' = at /\ result' = result /\ made' = made /\ ~Buffered /\ job = "running"
      /\ job' = job /\ body' = body /\ client' = client /\ got' = got
  BY DEF Popped
<1>3. /\ Batch' = Batch /\ Batch \subseteq Items /\ ~Buffered' /\ Spoiled' = Spoiled
      /\ Interleaved' = Interleaved
  BY <1>1, SameFunction DEF Popped
<1>4. reply' \in [Items -> Replies] /\ reply'[Id] = what
      /\ \A i \in Items \ {Id} : reply'[i] = reply[i]
  BY <1>1 DEF PathInv, RDTypeOK
<1>5. RDTypeOK'
  BY <1>1, <1>2, <1>4 DEF PathInv, RDTypeOK
<1>6. InOrder'
  BY <1>2 DEF PathInv, InOrder, Taken
<1>7. RepliesHold'
  BY <1>2, <1>3, <1>4 DEF PathInv, RepliesHold, TrueReply
<1>8. Closed'
  <2> SUFFICES ASSUME NEW i \in Batch \ pending', client[i] # "left", reply'[i] = "head"
               PROVE  i \in Spoiled \/ (at[i] \in Ended /\ Taken(i) = made[i])
    BY <1>2, <1>3 DEF Closed, Taken
  <2>1. CASE i = Id
    BY <1>4, <2>1
  <2>2. CASE i # Id
    BY <1>3, <1>4, <2>2 DEF PathInv, Closed
  <2> QED
    BY <2>1, <2>2
<1>9. Waiting'
  <2>1. \A i \in Items : reply[i] = reply'[i] \/ reply[i] = "none"
    BY <1>4
  <2> QED
    BY <1>2, <1>3, <2>1 DEF PathInv, Waiting
<1>10. Coming'
  <2>1. \A i \in pending' : i \in pending /\ i # Id
    OBVIOUS
  <2> QED
    BY <1>2, <2>1, StillComing DEF Coming, Taken
<1> QED
  BY <1>1, <1>5, <1>6, <1>7, <1>8, <1>9, <1>10 DEF PathInv

\* The first record is a head or a chunk, and its client still has an open body.
LEMMA KeptPath ==
    ASSUME PathInv, Popped, Id \in pending, pending' = pending, open' = open,
           UNCHANGED <<job, client, got>>,
           Rec.type \in {"head", "chunk"},
           IF Rec.type = "head" THEN body' = body
           ELSE /\ client[Id] # "left" /\ Len(body[Id]) < BodyCapacity
                /\ body' = [body EXCEPT ![Id] = Append(@, <<Id, Rec.n>>)],
           reply' = [reply EXCEPT ![Id] = IF @ = "none" THEN "head" ELSE @]
    PROVE  PathInv'
<1>1. /\ AdapterTypeOK /\ Progress /\ AdapterTypeOK' /\ Progress' /\ WireInv'
      /\ Id \in Items /\ Id \in Batch /\ Rec = wire[1] /\ RecordHolds(Rec) /\ 1 \in Positions
  BY PopEffect DEF PathInv, RDTypeOK
<1>2. /\ at' = at /\ result' = result /\ made' = made /\ ~Buffered /\ job = "running"
      /\ job' = job /\ client' = client /\ got' = got
  BY DEF Popped
<1>3. /\ Batch' = Batch /\ Batch \subseteq Items /\ ~Buffered' /\ Spoiled' = Spoiled
      /\ Interleaved' = Interleaved
  BY <1>1, SameFunction DEF Popped
<1>4. /\ reply' \in [Items -> Replies]
      /\ reply'[Id] = IF reply[Id] = "none" THEN "head" ELSE reply[Id]
      /\ \A i \in Items \ {Id} : reply'[i] = reply[i]
  BY <1>1 DEF PathInv, RDTypeOK, Replies
<1>5. PICK b \in Nat, g \in Nat : b = Len(body[Id]) /\ g = Len(got[Id]) /\ Taken(Id) = g + b
  BY <1>1, LenProperties DEF PathInv, RDTypeOK, Taken
<1>6. PICK m \in Nat : m = made[Id] /\ g + b <= m /\ m <= MaxChunks
  <2>1. made[Id] \in 0 .. MaxChunks
    BY <1>1 DEF AdapterTypeOK
  <2>2. Taken(Id) <= made[Id]
    BY <1>1 DEF PathInv, InOrder
  <2>3. made[Id] \in Nat /\ made[Id] <= MaxChunks
    BY <2>1, LongestBody
  <2>4. g + b <= made[Id]
    BY <1>5, <2>2
  <2> QED
    BY <2>3, <2>4
<1> DEFINE Now(i) == Len(got[i]) + Len(body'[i])
\* It is the next chunk that the client was not given.
<1>7. ASSUME Rec.type = "chunk", client[Id] # "left"
      PROVE  Rec.n = g + b + 1 /\ Rec.n \in 1 .. MaxChunks
  <2>1. Rec.n \in 1 .. m
    BY <1>1, <1>6, <1>7 DEF RecordHolds, Id
  <2>2. PICK n \in Nat : n = Rec.n /\ n \in 1 .. MaxChunks /\ n <= m
    BY <1>6, <2>1, LongestBody
  <2>3. IsChunk(1, Id, n)
    BY <1>1, <1>7, <2>2 DEF IsChunk, Id
  <2>4. g + b < n
    BY <1>1, <1>5, <1>7, <2>3 DEF PathInv, Coming
  <2>5. ~(g + b + 1 < n)
    <3> SUFFICES ASSUME g + b + 1 < n PROVE FALSE
      OBVIOUS
    <3>0. g + b + 1 \in g + b + 1 .. m /\ g + b + 1 \in Nat
      BY <2>2
    <3>1. g + b + 1 \in Taken(Id) + 1 .. made[Id] /\ g + b + 1 \in Nat
      BY <1>5, <1>6, <3>0
    <3>2. PICK q \in Positions : IsChunk(q, Id, g + b + 1)
      BY <1>7, <3>1 DEF PathInv, Coming
    <3>3. q = 1 \/ 1 < q
      BY PopEffect
    <3>4. CASE q = 1
      BY <2>2, <2>3, <3>2, <3>4 DEF IsChunk
    <3>5. CASE 1 < q
      <4>1. wire[1].n < wire[q].n
        BY <1>1, <2>3, <3>2, <3>5 DEF PathInv, WireInv, Ordered, IsChunk
      <4> QED
        BY <2>2, <2>3, <3>2, <4>1 DEF IsChunk
    <3> QED
      BY <3>3, <3>4, <3>5
  <2> QED
    BY <2>2, <2>4, <2>5
<1>8. /\ body' \in [Items -> Seq(Chunk)]
      /\ \A i \in Items \ {Id} : body'[i] = body[i]
      /\ Rec.type = "chunk" =>
            /\ Rec.n = g + b + 1 /\ Len(body'[Id]) = b + 1 /\ b + 1 <= BodyCapacity
            /\ body'[Id][b + 1] = <<Id, g + b + 1>>
            /\ \A j \in 1 .. b : body'[Id][j] = body[Id][j]
      /\ Rec.type = "head" => body' = body
  <2>1. CASE Rec.type = "head"
    BY <2>1 DEF PathInv, RDTypeOK
  <2>2. CASE Rec.type = "chunk"
    <3>1. <<Id, Rec.n>> \in Chunk /\ Rec.n = g + b + 1 /\ Len(body[Id]) < BodyCapacity
      BY <1>1, <1>7, <2>2 DEF Chunk
    <3>2. body' = [body EXCEPT ![Id] = Append(body[Id], <<Id, g + b + 1>>)]
      BY <2>2, <3>1
    <3>3. body \in [Items -> Seq(Chunk)] /\ body[Id] \in Seq(Chunk)
      BY <1>1 DEF PathInv, RDTypeOK
    <3>4. /\ Append(body[Id], <<Id, g + b + 1>>) \in Seq(Chunk)
          /\ Len(Append(body[Id], <<Id, g + b + 1>>)) = b + 1
          /\ Append(body[Id], <<Id, g + b + 1>>)[b + 1] = <<Id, g + b + 1>>
          /\ \A j \in 1 .. b : Append(body[Id], <<Id, g + b + 1>>)[j] = body[Id][j]
      <4> DEFINE e == <<Id, g + b + 1>>
      <4>1. e \in Chunk
        BY <3>1
      <4> HIDE DEF e
      <4>2. /\ Append(body[Id], e) \in Seq(Chunk)
            /\ Len(Append(body[Id], e)) = b + 1
            /\ Append(body[Id], e)[b + 1] = e
            /\ \A j \in 1 .. b : Append(body[Id], e)[j] = body[Id][j]
        BY <1>5, <3>3, <4>1, AppendElems
      <4> QED
        BY <4>2 DEF e
    <3>5. b + 1 <= BodyCapacity
      BY <1>5, <3>1, Sizes
    <3> QED
      BY <1>1, <2>2, <3>1, <3>2, <3>3, <3>4, <3>5
  <2> QED
    BY <2>1, <2>2
<1>9. RDTypeOK'
  <2>1. \A i \in Items : Len(body'[i]) <= BodyCapacity
    BY <1>1, <1>8 DEF PathInv, RDTypeOK
  <2> QED
    BY <1>1, <1>2, <1>4, <1>8, <2>1 DEF PathInv, RDTypeOK
<1>10. /\ \A i \in Items \ {Id} : Now(i) = Taken(i)
       /\ Rec.type = "head" => Now(Id) = Taken(Id)
       /\ Rec.type = "chunk" => Now(Id) = g + b + 1 /\ g + b + 1 <= m
  <2>1. Rec.type = "chunk" => g + b + 1 <= m
    <3>1. Rec.type = "chunk" => Rec.n \in 1 .. m /\ Rec.n = g + b + 1
      BY <1>1, <1>6, <1>8 DEF RecordHolds, Id
    <3> QED
      BY <3>1
  <2>2. \A i \in Items \ {Id} : Now(i) = Taken(i)
    BY <1>8 DEF Taken
  <2>3. Rec.type = "head" => Now(Id) = Taken(Id)
    BY <1>8 DEF Taken
  <2>4. Rec.type = "chunk" => Now(Id) = g + b + 1
    <3>1. g + (b + 1) = g + b + 1
      OBVIOUS
    <3> QED
      BY <1>5, <1>8, <3>1
  <2> QED
    BY <2>1, <2>2, <2>3, <2>4
<1>10a. \A i \in Items : Taken(i)' = Now(i)
  BY <1>2 DEF Taken
<1> HIDE DEF Now
<1>11. InOrder'
  <2> SUFFICES ASSUME NEW i \in Items
               PROVE  /\ \A j \in 1 .. Len(got[i]) : got[i][j] = <<i, j>>
                      /\ \A j \in 1 .. Len(body'[i]) : body'[i][j] = <<i, Len(got[i]) + j>>
                      /\ Now(i) <= made[i]
    BY <1>2, <1>10a DEF InOrder
  <2>1. /\ \A j \in 1 .. Len(got[i]) : got[i][j] = <<i, j>>
        /\ \A j \in 1 .. Len(body[i]) : body[i][j] = <<i, Len(got[i]) + j>>
        /\ Taken(i) <= made[i]
    BY DEF PathInv, InOrder
  <2>2. CASE i # Id \/ Rec.type = "head"
    <3>1. body'[i] = body[i] /\ Now(i) = Taken(i)
      BY <1>8, <1>10, <2>2
    <3> QED
      BY <2>1, <3>1
  <2>3. CASE i = Id /\ Rec.type = "chunk"
    <3>1. \A j \in 1 .. b + 1 : j \in 1 .. b \/ j = b + 1
      OBVIOUS
    <3>2. \A j \in 1 .. b : body'[Id][j] = <<Id, g + j>>
      BY <1>5, <1>8, <2>1, <2>3
    <3>3. g + (b + 1) = g + b + 1
      OBVIOUS
    <3>4. \A j \in 1 .. Len(body'[Id]) : body'[Id][j] = <<Id, g + j>>
      BY <1>8, <2>3, <3>1, <3>2, <3>3
    <3>5. Now(i) <= made[i]
      BY <1>6, <1>10, <2>3
    <3> QED
      BY <1>5, <2>1, <2>3, <3>4, <3>5
  <2> QED
    BY <2>2, <2>3
<1>12. RepliesHold'
  <2>1. Interleaved /\ result[Id] # "none"
    BY <1>1 DEF RecordHolds, Id
  <2> QED
    BY <1>2, <1>3, <1>4, <2>1 DEF PathInv, RepliesHold
<1>13. Closed'
  <2>1. \A i \in Batch \ pending : i # Id /\ i \in Items
    BY <1>3
  <2> QED
    BY <1>2, <1>3, <1>4, <1>10, <1>10a, <2>1 DEF PathInv, Closed
<1>14. Waiting'
  <2>1. \A i \in Items : reply[i] = reply'[i] \/ reply[i] = "none"
    BY <1>4
  <2> QED
    BY <1>2, <1>3, <2>1 DEF PathInv, Waiting
<1>15. Coming'
  <2> SUFFICES ASSUME NEW i \in pending
               PROVE  /\ client[i] # "left" =>
                           /\ \A p \in Positions' : \A n \in Nat : IsChunk(p, i, n)' => Now(i) < n
                           /\ \A n \in Now(i) + 1 .. made[i] :
                                 \E p \in Positions' : IsChunk(p, i, n)'
                      /\ at[i] \in Ended => \E p \in Positions' :
                                                wire'[p].id = i /\ wire'[p].type \in Finals
    <3>1. \A i \in pending : i \in Items
      BY DEF PathInv, RDTypeOK
    <3> QED
      BY <1>2, <1>10a, <3>1 DEF Coming
  <2>1. i \in Items
    BY DEF PathInv, RDTypeOK
  <2>2. CASE i # Id
    BY <1>10, <2>1, <2>2, StillComing
  <2>3. CASE i = Id
    <3>1. /\ \A p \in Positions' : p + 1 \in Positions /\ wire'[p] = wire[p + 1]
          /\ \A q \in Positions : q = 1 \/ (q - 1 \in Positions' /\ wire'[q - 1] = wire[q])
          /\ \A q \in Positions : q = 1 \/ 1 < q
      BY PopEffect
    <3>2. ASSUME at[i] \in Ended
          PROVE  \E p \in Positions' : wire'[p].id = i /\ wire'[p].type \in Finals
      <4>1. PICK q \in Positions : wire[q].id = i /\ wire[q].type \in Finals
        BY <1>2, <3>2 DEF PathInv, Coming
      <4>2. q # 1
        BY <1>1, <4>1 DEF Finals
      <4> QED
        BY <3>1, <4>1, <4>2
    <3>3. ASSUME client[i] # "left", NEW p \in Positions', NEW n \in Nat, IsChunk(p, i, n)'
          PROVE  Now(i) < n
      <4>1. p + 1 \in Positions /\ IsChunk(p + 1, i, n) /\ p + 1 # 1
        BY <3>1, <3>3 DEF IsChunk, Positions
      <4>2. Taken(i) < n
        BY <3>3, <4>1 DEF PathInv, Coming
      <4>3. CASE Rec.type = "head"
        BY <1>10, <2>3, <4>2, <4>3
      <4>4. CASE Rec.type = "chunk"
        <5>1. wire[1].n < wire[p + 1].n
          BY <1>1, <2>3, <3>1, <4>1, <4>4 DEF PathInv, WireInv, Ordered, IsChunk, Id
        <5>2. wire[p + 1].n = n /\ wire[1].n = g + b + 1
          BY <1>1, <1>8, <4>1, <4>4 DEF IsChunk
        <5> QED
          BY <1>10, <2>3, <4>4, <5>1, <5>2
      <4> QED
        BY <4>3, <4>4
    <3>4. ASSUME client[i] # "left", NEW n \in Now(i) + 1 .. made[i]
          PROVE  \E p \in Positions' : IsChunk(p, i, n)'
      <4>0. PICK t \in {g + b, g + b + 1} :
              Now(i) = t /\ n \in t + 1 .. m /\ (Rec.type = "chunk" => t = g + b + 1)
        BY <1>5, <1>6, <1>10, <2>3, <3>4
      <4>1. n \in Taken(i) + 1 .. made[i] /\ (Rec.type = "chunk" => n # g + b + 1)
        <5>1. n \in g + b + 1 .. m /\ (Rec.type = "chunk" => n # g + b + 1)
          BY <4>0
        <5> QED
          BY <1>5, <1>6, <2>3, <5>1
      <4>2. PICK q \in Positions : IsChunk(q, i, n)
        BY <3>4, <4>1 DEF PathInv, Coming
      <4>3. q # 1
        BY <1>1, <1>8, <4>1, <4>2 DEF IsChunk
      <4>4. q - 1 \in Positions' /\ wire'[q - 1] = wire[q]
        BY <3>1, <4>3
      <4> QED
        BY <4>2, <4>4 DEF IsChunk
    <3> QED
      BY <3>2, <3>3, <3>4
  <2> QED
    BY <2>2, <2>3
<1> QED
  BY <1>1, <1>9, <1>11, <1>12, <1>13, <1>14, <1>15 DEF PathInv

-----------------------------------------------------------------------------
(* The ends of a response.                                                  *)

\* Whoever is told 502, or is cut off, is one whom the failure may reach.
LEMMA FailedPath ==
    ASSUME PathInv, AdapterTypeOK', WireInv', job = "running",
           UNCHANGED <<kind, started, at, result, made, draining, mayStart, flaws, fate>>,
           NEW replies \in [Items -> Replies], FailAll(replies),
           \A i \in Items : TrueReply(i, replies[i]),
           \A i \in Batch : reply[i] = "none" \/ replies[i] = reply[i],
           \A i \in Batch \ pending : replies[i] = reply[i],
           \A i \in pending : i \in Spoiled \/ replies[i] \in {"ok", "failed"}
    PROVE  PathInv'
<1>1. AdapterTypeOK /\ Progress
  BY DEF PathInv, RDTypeOK
<1>2. /\ pending' = {} /\ open' = {} /\ job' = "returned"
      /\ body' = body /\ client' = client /\ got' = got
      /\ at' = at /\ result' = result /\ made' = made
  BY DEF FailAll
<1>3. /\ Batch' = Batch /\ Batch \subseteq Items /\ Spoiled' = Spoiled /\ Progress'
      /\ Interleaved' = Interleaved /\ Buffered' = Buffered
  BY <1>1, SameFunction
<1>4. \A i \in Items : reply'[i] = IF i \in pending /\ replies[i] = "none" THEN "502" ELSE replies[i]
  BY DEF FailAll
<1>5. reply' \in [Items -> Replies]
  <2>1. \A i \in Items : replies[i] \in Replies /\ "502" \in Replies
    BY DEF Replies
  <2>2. reply' = [i \in Items |-> IF i \in pending /\ replies[i] = "none" THEN "502" ELSE replies[i]]
    BY DEF FailAll
  <2> QED
    BY <2>1, <2>2
<1>6. RDTypeOK'
  BY <1>2, <1>5 DEF PathInv, RDTypeOK
<1>7. InOrder'
  BY <1>2 DEF PathInv, InOrder, Taken
<1>8. RepliesHold'
  <2> SUFFICES ASSUME NEW i \in Items PROVE TrueReply(i, reply'[i])
    BY <1>2, <1>3 DEF RepliesHold, TrueReply
  <2>1. TrueReply(i, replies[i])
    OBVIOUS
  <2>2. i \in pending /\ replies[i] = "none" => i \in Spoiled
    OBVIOUS
  <2> QED
    BY <1>4, <2>1, <2>2 DEF TrueReply
<1>9. Closed'
  <2> SUFFICES ASSUME NEW i \in Batch, client[i] # "left", reply'[i] = "head"
               PROVE  i \in Spoiled \/ (at[i] \in Ended /\ Taken(i) = made[i])
    BY <1>2, <1>3 DEF Closed, Taken
  <2>1. i \in Items /\ replies[i] = "head"
    BY <1>3, <1>4
  <2>2. CASE i \in pending
    BY <2>1, <2>2
  <2>3. CASE i \notin pending
    BY <2>1, <2>3 DEF PathInv, Closed
  <2> QED
    BY <2>2, <2>3
<1>10. Waiting'
  <2> SUFFICES ASSUME NEW i \in Items
               PROVE  /\ client[i] = "absent" <=> i \notin Batch
                      /\ client[i] = "streaming" => reply'[i] = "head"
                      /\ client[i] = "over" => reply'[i] # "none"
    BY <1>2, <1>3 DEF Waiting
  <2>1. /\ client[i] = "absent" <=> i \notin Batch
        /\ client[i] = "streaming" => reply[i] = "head"
        /\ client[i] = "over" => reply[i] # "none"
    BY DEF PathInv, Waiting
  <2>2. i \in Batch /\ reply[i] # "none" => reply'[i] = reply[i]
    BY <1>4
  <2> QED
    BY <2>1, <2>2
<1>11. Coming'
  BY <1>2 DEF Coming
<1> QED
  BY <1>3, <1>6, <1>7, <1>8, <1>9, <1>10, <1>11 DEF PathInv

\* What was sent before, and what is left open, when all may be reached.
LEMMA SpoiledPath ==
    ASSUME PathInv, AdapterTypeOK', WireInv', job = "running",
           UNCHANGED <<kind, started, at, result, made, draining, mayStart, flaws, fate>>,
           \A i \in pending : i \in Spoiled, FailAll(reply)
    PROVE  PathInv'
<1>1. reply \in [Items -> Replies]
  BY DEF PathInv, RDTypeOK
<1>2. \A i \in Items : TrueReply(i, reply[i])
  BY DEF PathInv, RepliesHold, TrueReply
<1> QED
  BY <1>1, <1>2, FailedPath

LEMMA BadPath ==
    ASSUME PathInv, DispatchBad
    PROVE  PathInv'
<1>1. Popped
  BY DEF DispatchBad, Dispatching, Popped
<1>2. /\ AdapterTypeOK' /\ WireInv' /\ Id \in Items /\ Id \in Batch /\ RecordHolds(Rec)
  BY <1>1, PopEffect
<1>3. Id \in pending /\ Rec.fault # "none"
  BY DEF DispatchBad, Good
<1>4. Spoiled = Items
  <2>1. flaws # {}
    BY <1>2, <1>3 DEF RecordHolds
  <2> QED
    BY <1>1, <2>1 DEF Spoiled, SpoilsAll, Popped
<1> DEFINE what == IF reply[Id] # "none" THEN reply[Id]
                   ELSE IF Rec.type = "chunk" THEN "head" ELSE "dropped"
           replies == [reply EXCEPT ![Id] = what]
<1>5. FailAll(replies)
  BY DEF DispatchBad
<1>6. reply \in [Items -> Replies] /\ \A i \in Items : TrueReply(i, reply[i])
  BY DEF PathInv, RDTypeOK, RepliesHold, TrueReply
<1>7. what \in Replies /\ TrueReply(Id, what) /\ (reply[Id] = "none" \/ what = reply[Id])
  <2>1. CASE reply[Id] # "none"
    BY <1>2, <1>6, <2>1
  <2>2. CASE reply[Id] = "none" /\ Rec.type = "chunk"
    <3>1. what = "head" /\ Interleaved /\ result[Id] # "none"
      BY <1>2, <2>2 DEF RecordHolds, Id
    <3> QED
      BY <2>2, <3>1 DEF TrueReply, Replies
  <2>3. CASE reply[Id] = "none" /\ Rec.type # "chunk"
    <3>1. what = "dropped"
      BY <2>3
    <3> QED
      BY <1>2, <1>4, <2>3, <3>1 DEF TrueReply, Replies
  <2> QED
    BY <2>1, <2>2, <2>3
<1> HIDE DEF what
<1>8. /\ replies \in [Items -> Replies]
      /\ \A i \in Items : TrueReply(i, replies[i])
      /\ \A i \in Items : reply[i] = "none" \/ replies[i] = reply[i]
      /\ \A i \in Items \ pending : replies[i] = reply[i]
  <2>1. replies \in [Items -> Replies] /\ replies[Id] = what
        /\ \A i \in Items \ {Id} : replies[i] = reply[i]
    BY <1>2, <1>6, <1>7
  <2>2. ASSUME NEW i \in Items
        PROVE  TrueReply(i, replies[i]) /\ (reply[i] = "none" \/ replies[i] = reply[i])
    <3>1. CASE i = Id
      BY <1>7, <2>1, <3>1
    <3>2. CASE i # Id
      BY <1>6, <2>1, <3>2
    <3> QED
      BY <3>1, <3>2
  <2> HIDE DEF replies
  <2> QED
    BY <1>3, <2>1, <2>2
<1>9. Batch \subseteq Items /\ pending \subseteq Items
  BY <1>1, SameFunction DEF PathInv, RDTypeOK, Popped
<1> HIDE DEF replies
<1> QED
  BY <1>1, <1>2, <1>4, <1>5, <1>8, <1>9, FailedPath DEF Popped

LEMMA UnreadablePath ==
    ASSUME PathInv, StreamUnreadable
    PROVE  PathInv'
<1>1. Popped
  BY DEF StreamUnreadable, Popped
<1>2. AdapterTypeOK' /\ WireInv' /\ RecordHolds(Rec) /\ Id \in Items /\ Rec.fault = "syntax"
  BY <1>1, PopEffect DEF StreamUnreadable
<1>3. SpoilsAll
  BY <1>2 DEF RecordHolds, SpoilsAll, Id
<1>4. \A i \in pending : i \in Spoiled
  BY <1>3 DEF PathInv, RDTypeOK, Spoiled
<1> QED
  BY <1>1, <1>2, <1>4, SpoiledPath DEF StreamUnreadable, Popped

\* When the stream of a batch that was done is over, nobody is pending.
LEMMA OverPath ==
    ASSUME PathInv, StreamOver
    PROVE  PathInv'
<1>1. /\ ~Buffered /\ job = "running" /\ fate # "open" /\ wire = <<>>
      /\ UNCHANGED <<kind, started, at, result, made, draining, mayStart, flaws, fate>>
      /\ wire' = wire /\ FailAll(reply)
  BY DEF StreamOver, avars
<1>2. AdapterTypeOK /\ Progress /\ fate \in {"open", "ended", "crashed"}
  BY DEF PathInv, RDTypeOK, AdapterTypeOK
<1>3. AdapterTypeOK' /\ Buffered' = Buffered
  BY <1>1, <1>2, SameFunction DEF AdapterTypeOK
<1>4. Positions = {} /\ Positions' = {}
  BY <1>1 DEF Positions
<1>5. WireInv'
  BY <1>1, <1>3, <1>4 DEF WireInv, Ordered, Document
<1>6. ASSUME NEW i \in pending
      PROVE  i \in Spoiled
  <2>1. i \in Items /\ i \in Batch
    BY DEF PathInv, RDTypeOK, Waiting
  <2>2. CASE SpoilsAll
    BY <2>1, <2>2 DEF Spoiled
  <2>3. CASE ~SpoilsAll
    <3>1. \A j \in Batch : at[j] = "done"
      BY <1>1, <1>2, <2>3 DEF SpoilsAll, Progress
    <3>2. \E p \in Positions : wire[p].id = i /\ wire[p].type \in Finals
      BY <1>1, <2>1, <3>1 DEF PathInv, Coming, Ended
    <3> QED
      BY <1>4, <3>2
  <2> QED
    BY <2>2, <2>3
<1> QED
  BY <1>1, <1>3, <1>5, <1>6, SpoiledPath

\* A document: each record answers its own request.
LEMMA BufferedPath ==
    ASSUME PathInv, DispatchBuffered
    PROVE  PathInv'
<1>1. /\ Buffered /\ job = "running" /\ fate # "open" /\ wire' = <<>>
      /\ UNCHANGED <<kind, started, at, result, made, draining, mayStart, flaws, fate>>
  BY DEF DispatchBuffered
<1>2. AdapterTypeOK /\ Progress /\ fate \in {"open", "ended", "crashed"} /\ wire \in Seq(Records)
  BY DEF PathInv, RDTypeOK, AdapterTypeOK
<1>3. /\ AdapterTypeOK' /\ Batch' = Batch /\ Batch \subseteq Items
  BY <1>1, <1>2, SameFunction
<1>4. Positions' = {}
  BY <1>1 DEF Positions
<1>5. /\ fate # "ended" => flaws = {}
      /\ fate = "ended" => Len(wire) = kind.length /\ \A i \in Batch : wire[i].id = i
      /\ pending = Batch /\ \A i \in Batch : reply[i] = "none"
  BY <1>1 DEF PathInv, WireInv, Document
<1>6. WireInv'
  <2>1. fate' # "ended" => flaws' = {}
    BY <1>1, <1>5
  <2>2. job' = "returned"
    BY DEF DispatchBuffered, FailAll
  <2> QED
    BY <1>1, <1>4, <2>1, <2>2 DEF WireInv, Ordered, Document
<1>7. CASE fate = "crashed" \/ \E k \in 1 .. Len(wire) : wire[k].fault = "syntax"
  <2>1. SpoilsAll
    <3>1. CASE fate = "crashed"
      BY <3>1 DEF SpoilsAll
    <3>2. ASSUME NEW k \in 1 .. Len(wire), wire[k].fault = "syntax"
          PROVE  SpoilsAll
      <4>1. RecordHolds(wire[k])
        BY DEF PathInv, WireInv, Positions
      <4> QED
        BY <1>3, <3>2, <4>1 DEF RecordHolds, SpoilsAll
    <3> QED
      BY <1>7, <3>1, <3>2
  <2>2. \A i \in pending : i \in Spoiled
    BY <1>3, <1>5, <2>1 DEF Spoiled
  <2>3. FailAll(reply)
    BY <1>7 DEF DispatchBuffered
  <2> QED
    BY <1>1, <1>3, <1>6, <2>2, <2>3, SpoiledPath
<1>8. CASE ~(fate = "crashed" \/ \E k \in 1 .. Len(wire) : wire[k].fault = "syntax")
  <2> DEFINE Answer(rec) == IF rec.fault # "none" THEN "502"
                            ELSE IF rec.type = "record" THEN "ok" ELSE "failed"
             replies == [i \in Items |->
                            IF \E k \in 1 .. Len(wire) : wire[k].id = i
                            THEN Answer(wire[CHOOSE k \in 1 .. Len(wire) : wire[k].id = i])
                            ELSE "none"]
  <2>1. FailAll(replies)
    BY <1>8 DEF DispatchBuffered
  <2>2. fate = "ended" /\ Len(wire) = kind.length /\ Positions = Batch
    BY <1>1, <1>2, <1>5, <1>8 DEF Positions, Batch
  <2>3. ASSUME NEW i \in Batch
        PROVE  replies[i] = Answer(wire[i])
    <3>1. \A k \in 1 .. Len(wire) : wire[k].id = i <=> k = i
      BY <1>5, <2>2 DEF Batch
    <3>2. i \in 1 .. Len(wire)
      BY <2>2 DEF Batch
    <3>3. (CHOOSE k \in 1 .. Len(wire) : wire[k].id = i) = i
      BY <3>1, <3>2
    <3> QED
      BY <1>3, <3>1, <3>2, <3>3
  <2>4. ASSUME NEW i \in Items \ Batch
        PROVE  replies[i] = "none"
    BY <1>5, <2>2 DEF Batch
  <2>5. ASSUME NEW i \in Batch
        PROVE  TrueReply(i, replies[i]) /\ replies[i] \in {"ok", "failed", "502"}
               /\ (replies[i] = "502" => i \in Spoiled)
    <3>1. /\ RecordHolds(wire[i]) /\ wire[i].id = i /\ wire[i] \in Records
      BY <1>2, <1>5, <2>2, ElementOfSeq DEF PathInv, WireInv, Positions
    <3>2. ~Interleaved
      BY <1>1 DEF Buffered, Interleaved
    <3>3. wire[i].type \in {"record", "failure"} /\ at[i] \in Ended
      BY <3>1, <3>2 DEF RecordHolds, Finals
    <3>4. CASE wire[i].fault # "none"
      <4>1. wire[i].fault = "value"
        BY <1>8, <2>2, <3>1, <3>4 DEF Records, Faults, Positions
      <4>2. i \in Spoiled
        BY <1>3, <3>1, <3>4, <4>1 DEF RecordHolds, Spoiled
      <4>3. replies[i] = "502"
        BY <2>3, <3>4
      <4> HIDE DEF replies
      <4> QED
        BY <4>2, <4>3 DEF TrueReply
    <3>5. CASE wire[i].fault = "none"
      BY <2>3, <3>1, <3>3, <3>5 DEF TrueReply, RecordHolds
    <3> QED
      BY <3>4, <3>5
  <2>6. replies \in [Items -> Replies]
    <3>1. \A i \in Items : replies[i] \in Replies
      BY <2>4, <2>5 DEF Replies
    <3>2. replies = [i \in Items |-> replies[i]]
      OBVIOUS
    <3> HIDE DEF replies
    <3> QED
      BY <3>1, <3>2
  <2>7. \A i \in Items : TrueReply(i, replies[i])
    BY <2>4, <2>5 DEF TrueReply
  <2> HIDE DEF replies
  <2> QED
    BY <1>1, <1>3, <1>5, <1>6, <2>1, <2>5, <2>6, <2>7, FailedPath
<1> QED
  BY <1>7, <1>8

LEMMA DispatchPath ==
    ASSUME PathInv, Dispatch
    PROVE  PathInv'
<1>1. reply \in [Items -> Replies] /\ \A i \in Items : TrueReply(i, reply[i])
  BY DEF PathInv, RDTypeOK, RepliesHold, TrueReply
<1>2. ASSUME NEW types, Dispatching(types)
      PROVE  /\ Popped /\ Id \in Items /\ Id \in Batch /\ RecordHolds(Rec) /\ Rec.type \in types
             /\ Rec = wire[1] /\ 1 \in Positions
             /\ \A q \in Positions : q = 1 \/ 1 < q
  <2>1. Popped /\ Rec.type \in types
    BY <1>2 DEF Dispatching, Popped
  <2> QED
    BY <2>1, PopEffect
\* After the last record of an item none of its chunks is on the way.
<1>3. ASSUME Dispatching(Finals), Id \in pending, client[Id] # "left"
      PROVE  at[Id] \in Ended /\ Taken(Id) = made[Id]
  <2>1. /\ Id \in Items /\ RecordHolds(Rec) /\ Rec.type \in Finals
        /\ Rec = wire[1] /\ 1 \in Positions
        /\ \A q \in Positions : q = 1 \/ 1 < q
    BY <1>2, <1>3
  <2>2. ~ \E n \in Taken(Id) + 1 .. made[Id] : TRUE
    <3> SUFFICES ASSUME NEW n \in Taken(Id) + 1 .. made[Id] PROVE FALSE
      OBVIOUS
    <3>1. PICK q \in Positions : IsChunk(q, Id, n)
      BY <1>3 DEF PathInv, Coming
    <3>2. q = 1 \/ wire[1].type \notin Finals
      BY <2>1, <3>1 DEF PathInv, WireInv, Ordered, IsChunk, Id
    <3> QED
      BY <2>1, <3>1, <3>2 DEF IsChunk, Finals
  <2>3. PICK t \in Nat, m \in Nat : t = Taken(Id) /\ m = made[Id] /\ t <= m
    <3>1. Taken(Id) \in Nat /\ Taken(Id) <= made[Id]
      BY <2>1, LenProperties DEF PathInv, RDTypeOK, Taken, InOrder
    <3>2. made[Id] \in 0 .. MaxChunks
      BY <2>1 DEF PathInv, RDTypeOK, AdapterTypeOK
    <3>3. made[Id] \in Nat
      BY <3>2, LongestBody
    <3> QED
      BY <3>1, <3>3
  <2>4. ~(t + 1 <= m)
    <3> SUFFICES ASSUME t + 1 <= m PROVE FALSE
      OBVIOUS
    <3>1. m \in t + 1 .. m
      OBVIOUS
    <3> QED
      BY <2>2, <2>3, <3>1
  <2> QED
    BY <2>1, <2>3, <2>4 DEF RecordHolds, Id
<1>4. CASE SkipRecord
  <2>1. Popped /\ Id \in Items /\ Id \in Batch /\ Id \notin pending
    BY <1>2, <1>4 DEF SkipRecord
  <2>2. UNCHANGED <<job, body, client, got>> /\ reply' = reply /\ pending' = pending /\ open' = open
    BY <1>4 DEF SkipRecord, gatevars
  <2>3. pending' = pending \ {Id} /\ open' = open \ {Id}
    BY <2>1, <2>2 DEF PathInv, Waiting
  <2>4. reply' = [reply EXCEPT ![Id] = reply[Id]]
    BY <1>1, <2>1, <2>2
  <2>5. client[Id] # "left" /\ reply[Id] = "head" =>
            Id \in Spoiled \/ (at[Id] \in Ended /\ Taken(Id) = made[Id])
    BY <2>1 DEF PathInv, Closed
  <2> QED
    BY <1>1, <2>1, <2>2, <2>3, <2>4, <2>5, RemovedPath
\* What a last record, or one whose client has left, leads to.
<1>5. ASSUME Popped, Id \in pending, Id \in Items, Remove(Id), NEW what \in Replies, Send(Id, what),
             UNCHANGED <<job, body, client, got>>,
             reply[Id] = "none" => TrueReply(Id, what),
             client[Id] # "left" /\ (what = "head" \/ reply[Id] = "head") =>
                 at[Id] \in Ended /\ Taken(Id) = made[Id]
      PROVE  PathInv'
  <2> DEFINE w == IF reply[Id] = "none" THEN what ELSE reply[Id]
  <2>1. reply' = [reply EXCEPT ![Id] = w] /\ pending' = pending \ {Id} /\ open' = open \ {Id}
    BY <1>5 DEF Send, Remove
  <2>2. /\ w \in Replies /\ TrueReply(Id, w) /\ (reply[Id] = "none" \/ w = reply[Id])
        /\ w = "head" => what = "head" \/ reply[Id] = "head"
    <3>1. CASE reply[Id] = "none"
      BY <1>5, <3>1
    <3>2. CASE reply[Id] # "none"
      BY <1>1, <1>5, <3>2
    <3> QED
      BY <3>1, <3>2
  <2> HIDE DEF w
  <2> QED
    BY <1>5, <2>1, <2>2, RemovedPath
<1>6. CASE DispatchRecord
  <2> DEFINE what == IF Rec.type = "record" THEN "ok" ELSE "failed"
  <2>1. /\ Popped /\ Id \in Items /\ RecordHolds(Rec) /\ Rec.type \in {"record", "failure"}
    BY <1>2, <1>6 DEF DispatchRecord
  <2>2. Id \in pending /\ Remove(Id) /\ UNCHANGED <<job, body, client, got>> /\ Send(Id, what)
    BY <1>6 DEF DispatchRecord
  <2>3. TrueReply(Id, what) /\ what # "head" /\ reply[Id] # "head" /\ what \in Replies
    <3>1. what \in {"ok", "failed"}
      OBVIOUS
    <3>2. at[Id] \in Ended /\ ~Interleaved
          /\ (Rec.type = "record" => result[Id] = "ok")
          /\ (Rec.type = "failure" => result[Id] = "failed")
      BY <2>1 DEF RecordHolds, Id, Finals
    <3>3. reply[Id] # "head"
      BY <1>1, <2>1, <3>2 DEF TrueReply
    <3> QED
      BY <2>1, <3>1, <3>2, <3>3 DEF TrueReply, Replies
  <2> HIDE DEF what
  <2> QED
    BY <1>5, <2>1, <2>2, <2>3
<1>7. CASE DispatchHead
  <2>1. /\ Popped /\ Id \in Items /\ Rec.type = "head"
    BY <1>2, <1>7 DEF DispatchHead
  <2>2. Id \in pending /\ UNCHANGED <<job, body, client, got>>
    BY <1>7 DEF DispatchHead
  <2>3. CASE Gone(Id) /\ reply[Id] = "none"
    <3>1. Remove(Id) /\ reply' = reply
      BY <1>7, <2>3 DEF DispatchHead
    <3>2. reply' = [reply EXCEPT ![Id] = reply[Id]]
      BY <1>1, <2>1, <3>1
    <3> QED
      BY <1>1, <2>1, <2>2, <2>3, <3>1, <3>2, RemovedPath DEF Remove, Gone
  <2>4. CASE ~(Gone(Id) /\ reply[Id] = "none")
    <3>1. Send(Id, "head") /\ pending' = pending /\ open' = open
      BY <1>7, <2>4 DEF DispatchHead
    <3> QED
      BY <2>1, <2>2, <3>1, KeptPath DEF Send
  <2> QED
    BY <2>3, <2>4
<1>8. CASE DispatchChunk
  <2>1. /\ Popped /\ Id \in Items /\ Rec.type = "chunk" /\ RecordHolds(Rec)
    BY <1>2, <1>8 DEF DispatchChunk
  <2>2. Id \in pending /\ UNCHANGED <<job, client, got>> /\ Send(Id, "head")
    BY <1>8 DEF DispatchChunk
  <2>3. CASE Gone(Id)
    <3>1. Remove(Id) /\ body' = body
      BY <1>8, <2>3 DEF DispatchChunk
    <3>2. TrueReply(Id, "head") /\ "head" \in Replies
      BY <2>1 DEF TrueReply, RecordHolds, Id, Replies
    <3>3. client[Id] = "left"
      BY <2>3 DEF Gone
    <3> QED
      BY <1>5, <2>1, <2>2, <3>1, <3>2, <3>3
  <2>4. CASE ~Gone(Id)
    <3>1. /\ pending' = pending /\ open' = open /\ client[Id] # "left"
          /\ Len(body[Id]) < BodyCapacity
          /\ body' = [body EXCEPT ![Id] = Append(@, <<Id, Rec.n>>)]
      BY <1>8, <2>4 DEF DispatchChunk, Gone
    <3> QED
      BY <2>1, <2>2, <3>1, KeptPath DEF Send
  <2> QED
    BY <2>3, <2>4
<1>9. CASE DispatchEnd \/ DispatchError
  <2>1. PICK type \in {"end", "error"} : Dispatching({type})
    BY <1>9 DEF DispatchEnd, DispatchError
  <2>2. Popped /\ Id \in Items /\ RecordHolds(Rec) /\ Rec.type = type
    BY <1>2, <2>1
  <2>3. Id \in pending /\ Remove(Id) /\ UNCHANGED <<job, body, client, got>>
    BY <1>9 DEF DispatchEnd, DispatchError
  <2>4. Dispatching(Finals)
    BY <2>1 DEF Dispatching, Finals
  <2>5. client[Id] # "left" => at[Id] \in Ended /\ Taken(Id) = made[Id]
    BY <1>3, <2>3, <2>4
  <2>6. PICK what \in {"head", "failed"} :
            Send(Id, what) /\ (what = "failed" => result[Id] = "failed")
    <3>1. CASE DispatchEnd
      BY <3>1 DEF DispatchEnd
    <3>2. CASE DispatchError
      BY <2>2, <3>2 DEF DispatchError, Dispatching, RecordHolds, Id
    <3> QED
      BY <1>9, <3>1, <3>2
  <2>7. TrueReply(Id, what) /\ what \in Replies
    BY <2>2, <2>6 DEF TrueReply, RecordHolds, Id, Replies
  <2> QED
    BY <1>5, <2>2, <2>3, <2>5, <2>6, <2>7
<1> QED
  BY <1>4, <1>6, <1>7, <1>8, <1>9, BadPath, UnreadablePath, OverPath, BufferedPath DEF Dispatch

-----------------------------------------------------------------------------
(* The clients.                                                             *)

LEMMA ClientTyped ==
    ASSUME PathInv, NEW i \in Items, Receive(i) \/ Leave(i)
    PROVE  /\ UNCHANGED <<kind, started, at, result, made, draining, mayStart, wire, flaws, fate>>
           /\ UNCHANGED <<job, pending, reply, open>>
           /\ AdapterTypeOK' /\ Progress' /\ WireInv'
           /\ Batch' = Batch /\ Batch \subseteq Items /\ Buffered' = Buffered
           /\ Interleaved' = Interleaved /\ Spoiled' = Spoiled /\ RepliesHold'
<1>1. /\ UNCHANGED <<kind, started, at, result, made, draining, mayStart, wire, flaws, fate>>
      /\ UNCHANGED <<job, pending, reply, open>>
  BY DEF Receive, TakeReply, ReadChunk, BodyOver, Leave, avars
<1>2. AdapterTypeOK /\ Progress /\ wire' \in Seq(Records)
  BY <1>1 DEF PathInv, RDTypeOK, AdapterTypeOK
<1>3. /\ AdapterTypeOK' /\ Progress'
      /\ Batch' = Batch /\ Batch \subseteq Items /\ Buffered' = Buffered
      /\ Interleaved' = Interleaved /\ Spoiled' = Spoiled
      /\ \A x : RecordHolds(x)' <=> RecordHolds(x)
  BY <1>1, <1>2, SameFunction
<1>4. Positions' = Positions
  BY <1>1 DEF Positions
<1>5. WireInv'
  <2>1. \A p \in Positions : RecordHolds(wire[p])'
    <3> SUFFICES ASSUME NEW p \in Positions PROVE RecordHolds(wire[p])'
      OBVIOUS
    <3>1. PICK x : x = wire[p] /\ x = wire'[p] /\ RecordHolds(x)
      BY <1>1 DEF PathInv, WireInv
    <3>2. RecordHolds(x)'
      BY <1>3, <3>1
    <3> QED
      BY <3>1, <3>2 DEF RecordHolds
  <2> QED
    BY <1>1, <1>3, <1>4, <2>1 DEF PathInv, WireInv, Ordered, Document
<1>6. RepliesHold'
  BY <1>1, <1>3 DEF PathInv, RepliesHold
<1> QED
  BY <1>1, <1>3, <1>5, <1>6

\* The first chunk in a body is the next one of its request.
LEMMA NextChunk ==
    ASSUME PathInv, NEW i \in Items, ReadChunk(i)
    PROVE  /\ Head(body[i]) = <<i, Len(got[i]) + 1>>
           /\ Len(got[i]) < made[i]
           /\ got' = [got EXCEPT ![i] = Append(@, <<i, Len(@) + 1>>)]
           /\ got' \in [Items -> Seq(Chunk)] /\ body' \in [Items -> Seq(Chunk)]
           /\ Len(got'[i]) = Len(got[i]) + 1 /\ Len(body[i]) = Len(body'[i]) + 1
           /\ \A j \in 1 .. Len(got'[i]) : got'[i][j] = <<i, j>>
           /\ \A j \in 1 .. Len(body'[i]) : body'[i][j] = <<i, Len(got'[i]) + j>>
           /\ \A k \in Items \ {i} : got'[k] = got[k] /\ body'[k] = body[k]
<1>1. got \in [Items -> Seq(Chunk)] /\ body \in [Items -> Seq(Chunk)] /\ body[i] # <<>>
  BY DEF PathInv, RDTypeOK, ReadChunk
<1>2. got' = [got EXCEPT ![i] = Append(@, Head(body[i]))] /\ body' = [body EXCEPT ![i] = Tail(@)]
  BY DEF ReadChunk
<1>3. got[i] \in Seq(Chunk) /\ body[i] \in Seq(Chunk)
  BY <1>1
<1>4. PICK g \in Nat, b \in Nat : g = Len(got[i]) /\ Len(body[i]) = b /\ Taken(i) = g + b
  BY <1>3, LenProperties DEF Taken
<1>5. /\ 1 \in 1 .. b /\ Head(body[i]) = body[i][1] /\ Head(body[i]) \in Chunk
      /\ Tail(body[i]) \in Seq(Chunk) /\ Len(Tail(body[i])) = b - 1
      /\ \A j \in 1 .. b - 1 : j + 1 \in 1 .. b /\ Tail(body[i])[j] = body[i][j + 1]
  BY <1>1, <1>3, <1>4, TailElems, HeadTailProperties
<1>6. /\ \A j \in 1 .. g : got[i][j] = <<i, j>>
      /\ \A j \in 1 .. b : body[i][j] = <<i, g + j>>
      /\ g + b <= made[i]
  BY <1>4 DEF PathInv, InOrder
<1>7. Head(body[i]) = <<i, g + 1>>
  BY <1>5, <1>6
<1>8. g < made[i]
  <2>1. made[i] \in 0 .. MaxChunks
    BY DEF PathInv, RDTypeOK, AdapterTypeOK
  <2>2. PICK m \in Nat : m = made[i]
    BY <2>1, LongestBody
  <2> QED
    BY <1>5, <1>6, <2>2
<1> DEFINE e == <<i, g + 1>>
<1>9. e \in Chunk
  BY <1>5, <1>7
<1>10. got' = [got EXCEPT ![i] = Append(got[i], e)]
  BY <1>2, <1>7
<1> HIDE DEF e
<1>11. /\ Append(got[i], e) \in Seq(Chunk) /\ Len(Append(got[i], e)) = g + 1
       /\ Append(got[i], e)[g + 1] = e
       /\ \A j \in 1 .. g : Append(got[i], e)[j] = got[i][j]
       /\ \A j \in 1 .. g + 1 : j \in 1 .. g \/ j = g + 1
  BY <1>3, <1>4, <1>9, AppendElems
<1>12. /\ got'[i] = Append(got[i], e) /\ body'[i] = Tail(body[i])
       /\ \A k \in Items \ {i} : got'[k] = got[k] /\ body'[k] = body[k]
       /\ got' \in [Items -> Seq(Chunk)] /\ body' \in [Items -> Seq(Chunk)]
  BY <1>1, <1>2, <1>5, <1>10, <1>11
<1>13. Len(got'[i]) = g + 1 /\ Len(body'[i]) = b - 1
  BY <1>5, <1>11, <1>12
<1>14. \A j \in 1 .. g + 1 : got'[i][j] = <<i, j>>
  <2> SUFFICES ASSUME NEW j \in 1 .. g + 1 PROVE got'[i][j] = <<i, j>>
    OBVIOUS
  <2>1. CASE j \in 1 .. g
    BY <1>6, <1>11, <1>12, <2>1
  <2>2. CASE j = g + 1
    BY <1>11, <1>12, <2>2 DEF e
  <2> QED
    BY <1>11, <2>1, <2>2
<1>15. \A j \in 1 .. b - 1 : body'[i][j] = <<i, (g + 1) + j>>
  <2> SUFFICES ASSUME NEW j \in 1 .. b - 1 PROVE body'[i][j] = <<i, (g + 1) + j>>
    OBVIOUS
  <2>1. body'[i][j] = body[i][j + 1] /\ j + 1 \in 1 .. b
    BY <1>5, <1>12
  <2>2. g + (j + 1) = (g + 1) + j
    OBVIOUS
  <2> QED
    BY <1>6, <2>1, <2>2
<1>16. (b - 1) + 1 = b
  OBVIOUS
<1>17. got' = [got EXCEPT ![i] = Append(@, <<i, Len(@) + 1>>)]
  BY <1>4, <1>10 DEF e
<1> QED
  BY <1>4, <1>7, <1>8, <1>12, <1>13, <1>14, <1>15, <1>16, <1>17

LEMMA ClientPath ==
    ASSUME PathInv, NEW i \in Items, Receive(i) \/ Leave(i)
    PROVE  PathInv'
<1>1. /\ at' = at /\ result' = result /\ made' = made /\ wire' = wire /\ job' = job
      /\ pending' = pending /\ reply' = reply /\ open' = open
      /\ AdapterTypeOK' /\ Progress' /\ WireInv'
      /\ Batch' = Batch /\ Batch \subseteq Items /\ Buffered' = Buffered
      /\ Interleaved' = Interleaved /\ Spoiled' = Spoiled /\ RepliesHold'
  BY ClientTyped
<1>2. pending \subseteq Items /\ Positions' = Positions
  BY <1>1 DEF PathInv, RDTypeOK, Positions
<1>3. client \in [Items -> {"absent", "waiting", "streaming", "over", "left"}]
      /\ reply \in [Items -> Replies] /\ body \in [Items -> Seq(Chunk)]
  BY DEF PathInv, RDTypeOK
\* Taken is what it was, where the client has not left.
<1>4. ASSUME RDTypeOK', InOrder', Waiting',
             \A j \in Items : client'[j] # "left" =>
                 client[j] # "left" /\ Len(got'[j]) + Len(body'[j]) = Taken(j)
      PROVE  PathInv'
  <2>1. Closed'
    <3> SUFFICES ASSUME NEW j \in Batch \ pending, client'[j] # "left", reply[j] = "head"
                 PROVE  j \in Spoiled \/ (at[j] \in Ended /\ Len(got'[j]) + Len(body'[j]) = made[j])
      BY <1>1 DEF Closed, Taken
    <3>1. client[j] # "left" /\ Len(got'[j]) + Len(body'[j]) = Taken(j)
      BY <1>1, <1>4
    <3> QED
      BY <3>1 DEF PathInv, Closed
  <2>2. Coming'
    <3> SUFFICES ASSUME NEW j \in pending
                 PROVE  /\ client'[j] # "left" =>
                             /\ \A p \in Positions : \A n \in Nat :
                                    IsChunk(p, j, n)' => Len(got'[j]) + Len(body'[j]) < n
                             /\ \A n \in (Len(got'[j]) + Len(body'[j])) + 1 .. made[j] :
                                    \E p \in Positions : IsChunk(p, j, n)'
                        /\ ~Buffered /\ at[j] \in Ended =>
                             \E p \in Positions : wire[p].id = j /\ wire[p].type \in Finals
      BY <1>1, <1>2 DEF Coming, Taken
    <3>1. \A p, n : IsChunk(p, j, n)' <=> IsChunk(p, j, n)
      BY <1>1 DEF IsChunk
    <3>2. client'[j] # "left" => client[j] # "left" /\ Len(got'[j]) + Len(body'[j]) = Taken(j)
      BY <1>2, <1>4
    <3>3. /\ client[j] # "left" =>
                /\ \A p \in Positions : \A n \in Nat : IsChunk(p, j, n) => Taken(j) < n
                /\ \A n \in Taken(j) + 1 .. made[j] : \E p \in Positions : IsChunk(p, j, n)
          /\ ~Buffered /\ at[j] \in Ended =>
                \E p \in Positions : wire[p].id = j /\ wire[p].type \in Finals
      BY DEF PathInv, Coming
    <3>4. CASE client'[j] = "left"
      BY <3>3, <3>4
    <3>5. CASE client'[j] # "left"
      BY <3>1, <3>2, <3>3, <3>5
    <3> QED
      BY <3>4, <3>5
  <2> QED
    BY <1>1, <1>4, <2>1, <2>2 DEF PathInv
<1>5. CASE TakeReply(i) \/ BodyOver(i)
  <2>1. PICK c \in {"streaming", "over"} :
          /\ client' = [client EXCEPT ![i] = c] /\ client[i] \in {"waiting", "streaming"}
          /\ reply[i] # "none" /\ (c = "streaming" => reply[i] = "head")
    <3>1. CASE TakeReply(i)
      BY <3>1 DEF TakeReply
    <3>2. CASE BodyOver(i)
      <4>1. client' = [client EXCEPT ![i] = "over"] /\ client[i] = "streaming"
        BY <3>2 DEF BodyOver
      <4>2. reply[i] = "head"
        BY <4>1 DEF PathInv, Waiting
      <4> QED
        BY <4>1, <4>2
    <3> QED
      BY <1>5, <3>1, <3>2
  <2>2. got' = got /\ body' = body
    BY <1>5 DEF TakeReply, BodyOver
  <2>3. client'[i] = c /\ \A j \in Items \ {i} : client'[j] = client[j]
    BY <1>3, <2>1
  <2>4. RDTypeOK'
    BY <1>1, <1>3, <2>1, <2>2 DEF PathInv, RDTypeOK
  <2>5. Waiting'
    BY <1>1, <2>1, <2>3 DEF PathInv, Waiting
  <2>6. InOrder'
    BY <1>1, <2>2 DEF PathInv, InOrder, Taken
  <2> QED
    BY <1>4, <2>1, <2>2, <2>3, <2>4, <2>5, <2>6 DEF Taken
<1>6. CASE ReadChunk(i)
  <2>1. /\ got' \in [Items -> Seq(Chunk)] /\ body' \in [Items -> Seq(Chunk)]
        /\ Len(got'[i]) = Len(got[i]) + 1 /\ Len(body[i]) = Len(body'[i]) + 1
        /\ \A j \in 1 .. Len(got'[i]) : got'[i][j] = <<i, j>>
        /\ \A j \in 1 .. Len(body'[i]) : body'[i][j] = <<i, Len(got'[i]) + j>>
        /\ \A k \in Items \ {i} : got'[k] = got[k] /\ body'[k] = body[k]
    BY <1>6, NextChunk
  <2>2. client' = client
    BY <1>6 DEF ReadChunk
  <2>3. PICK g \in Nat, b \in Nat : g = Len(got[i]) /\ b = Len(body'[i])
    BY <2>1, LenProperties DEF PathInv, RDTypeOK
  <2>4. \A k \in Items : Len(got'[k]) + Len(body'[k]) = Taken(k)
    <3> SUFFICES ASSUME NEW k \in Items PROVE Len(got'[k]) + Len(body'[k]) = Taken(k)
      OBVIOUS
    <3>1. CASE k = i
      <4>1. (g + 1) + b = g + (b + 1)
        OBVIOUS
      <4> QED
        BY <2>1, <2>3, <3>1, <4>1 DEF Taken
    <3>2. CASE k # i
      BY <2>1, <3>2 DEF Taken
    <3> QED
      BY <3>1, <3>2
  <2>5. \A k \in Items : Len(body'[k]) <= BodyCapacity
    <3> SUFFICES ASSUME NEW k \in Items PROVE Len(body'[k]) <= BodyCapacity
      OBVIOUS
    <3>1. Len(body[k]) <= BodyCapacity
      BY DEF PathInv, RDTypeOK
    <3>2. CASE k = i
      BY <2>1, <2>3, <3>1, <3>2, Sizes
    <3>3. CASE k # i
      BY <2>1, <3>1, <3>3
    <3> QED
      BY <3>2, <3>3
  <2>6. RDTypeOK'
    BY <1>1, <1>3, <2>1, <2>2, <2>5 DEF PathInv, RDTypeOK
  <2>7. Waiting'
    BY <1>1, <2>2 DEF PathInv, Waiting
  <2>8. InOrder'
    <3> SUFFICES ASSUME NEW k \in Items
                 PROVE  /\ \A j \in 1 .. Len(got'[k]) : got'[k][j] = <<k, j>>
                        /\ \A j \in 1 .. Len(body'[k]) : body'[k][j] = <<k, Len(got'[k]) + j>>
                        /\ Len(got'[k]) + Len(body'[k]) <= made[k]
      BY <1>1 DEF InOrder, Taken
    <3>1. Len(got'[k]) + Len(body'[k]) <= made[k]
      BY <2>4 DEF PathInv, InOrder
    <3>2. CASE k = i
      BY <2>1, <3>1, <3>2
    <3>3. CASE k # i
      BY <2>1, <3>1, <3>3 DEF PathInv, InOrder
    <3> QED
      BY <3>2, <3>3
  <2> QED
    BY <1>4, <2>2, <2>4, <2>6, <2>7, <2>8
<1>7. CASE Leave(i)
  <2>1. /\ client' = [client EXCEPT ![i] = "left"] /\ client[i] \in {"waiting", "streaming"}
        /\ body' = [body EXCEPT ![i] = <<>>] /\ got' = got
    BY <1>7 DEF Leave
  <2>2. <<>> \in Seq(Chunk) /\ Len(<<>>) = 0
    BY EmptySeq
  <2>3. /\ client'[i] = "left" /\ body'[i] = <<>>
        /\ \A j \in Items \ {i} : client'[j] = client[j] /\ body'[j] = body[j]
        /\ client' \in [Items -> {"absent", "waiting", "streaming", "over", "left"}]
        /\ body' \in [Items -> Seq(Chunk)]
    BY <1>3, <2>1, <2>2
  <2>4. \A j \in Items : Len(body'[j]) <= BodyCapacity
    <3> SUFFICES ASSUME NEW j \in Items PROVE Len(body'[j]) <= BodyCapacity
      OBVIOUS
    <3>1. CASE j = i
      <4>1. Len(body'[j]) = 0
        BY <2>2, <2>3, <3>1
      <4> QED
        BY <4>1, Sizes
    <3>2. CASE j # i
      BY <2>3, <3>2 DEF PathInv, RDTypeOK
    <3> QED
      BY <3>1, <3>2
  <2>5. RDTypeOK'
    BY <1>1, <1>3, <2>1, <2>3, <2>4 DEF PathInv, RDTypeOK
  <2>6. Waiting'
    BY <1>1, <2>1, <2>3 DEF PathInv, Waiting
  <2>7. InOrder'
    <3> SUFFICES ASSUME NEW k \in Items
                 PROVE  /\ \A j \in 1 .. Len(got[k]) : got[k][j] = <<k, j>>
                        /\ \A j \in 1 .. Len(body'[k]) : body'[k][j] = <<k, Len(got[k]) + j>>
                        /\ Len(got[k]) + Len(body'[k]) <= made[k]
      BY <1>1, <2>1 DEF InOrder, Taken
    <3>1. /\ \A j \in 1 .. Len(got[k]) : got[k][j] = <<k, j>>
          /\ \A j \in 1 .. Len(body[k]) : body[k][j] = <<k, Len(got[k]) + j>>
          /\ Len(got[k]) + Len(body[k]) <= made[k]
      BY DEF PathInv, InOrder, Taken
    <3>2. CASE k = i
      <4>1. PICK g \in Nat, b \in Nat : g = Len(got[k]) /\ b = Len(body[k])
        BY LenProperties DEF PathInv, RDTypeOK
      <4>2. made[k] \in 0 .. MaxChunks
        BY DEF PathInv, RDTypeOK, AdapterTypeOK
      <4>3. PICK m \in Nat : m = made[k]
        BY <4>2, LongestBody
      <4>4. Len(body'[k]) = 0
        BY <2>2, <2>3, <3>2
      <4>5. g + b <= m
        BY <3>1, <4>1, <4>3
      <4>6. g + 0 <= m /\ \A j \in 1 .. 0 : FALSE
        BY <4>5
      <4> QED
        BY <3>1, <4>1, <4>3, <4>4, <4>6
    <3>3. CASE k # i
      BY <2>3, <3>1, <3>3
    <3> QED
      BY <3>2, <3>3
  <2>8. \A j \in Items : client'[j] # "left" =>
            client[j] # "left" /\ Len(got'[j]) + Len(body'[j]) = Taken(j)
    BY <2>1, <2>3 DEF Taken
  <2> QED
    BY <1>4, <2>5, <2>6, <2>7, <2>8
<1> QED
  BY <1>5, <1>6, <1>7 DEF Receive

-----------------------------------------------------------------------------
(* The theorems.                                                            *)

LEMMA Starts ==
    ASSUME RDInit
    PROVE  PathInv /\ SlotsHeld
<1>1. /\ kind \in Kinds /\ started = 0 /\ at = [i \in Items |-> "waiting"]
      /\ result = [i \in Items |-> "none"] /\ made = [i \in Items |-> 0]
      /\ draining = {} /\ mayStart = TRUE /\ wire = <<>> /\ flaws = {} /\ fate = "open"
      /\ job = "running" /\ pending = Batch /\ reply = [i \in Items |-> "none"]
      /\ open = (IF Buffered THEN {} ELSE Batch)
      /\ body = [i \in Items |-> <<>>] /\ got = [i \in Items |-> <<>>]
      /\ client = [i \in Items |-> IF i \in Batch THEN "waiting" ELSE "absent"]
  BY DEF RDInit, AdapterInit
<1>2. kind.length \in Nat /\ Batch \subseteq Items /\ Limit \in Nat
  BY <1>1, Slots
<1>3. <<>> \in Seq(Records) /\ <<>> \in Seq(Chunk) /\ Len(<<>>) = 0
  BY EmptySeq
<1>4. 0 \in 0 .. MaxChunks /\ 0 \in 0 .. kind.length /\ 0 <= BodyCapacity
  BY <1>2, LongestBody, Sizes
<1>5. AdapterTypeOK
  BY <1>1, <1>3, <1>4 DEF AdapterTypeOK, Stages
<1>6. RDTypeOK
  <2>1. \A i \in Items : body[i] = <<>>
    BY <1>1
  <2>2. \A i \in Items : Len(body[i]) <= BodyCapacity
    BY <1>3, <1>4, <2>1
  <2>3. reply \in [Items -> Replies]
        /\ client \in [Items -> {"absent", "waiting", "streaming", "over", "left"}]
    BY <1>1 DEF Replies
  <2>4. body \in [Items -> Seq(Chunk)] /\ got \in [Items -> Seq(Chunk)]
    BY <1>1, <1>3
  <2>5. pending \subseteq Items /\ open \subseteq Items
    BY <1>1, <1>2
  <2> QED
    BY <1>1, <1>5, <2>2, <2>3, <2>4, <2>5 DEF RDTypeOK
<1>7. Progress
  <2> SUFFICES ASSUME NEW i \in Items
               PROVE  /\ ~(i <= started) /\ at[i] = "waiting" /\ result[i] = "none"
                      /\ made[i] = 0 /\ 0 <= ChunksOf[i]
    BY <1>1 DEF Progress, Ended
  <2>1. i \in Nat /\ i >= 1 /\ ChunksOf[i] \in Nat
    BY Sizes DEF Items
  <2> QED
    BY <1>1, <2>1
<1>8. Positions = {}
  BY <1>1, <1>3 DEF Positions
<1>9. WireInv
  BY <1>1, <1>2, <1>8 DEF WireInv, Ordered, Document
<1>10. \A i \in Items : Len(got[i]) = 0 /\ Len(body[i]) = 0 /\ Taken(i) = 0 /\ made[i] = 0
                        /\ reply[i] = "none" /\ at[i] = "waiting"
                        /\ client[i] = IF i \in Batch THEN "waiting" ELSE "absent"
  <2>1. \A i \in Items : got[i] = <<>> /\ body[i] = <<>>
    BY <1>1
  <2>2. \A i \in Items : Len(got[i]) = 0 /\ Len(body[i]) = 0
    BY <1>3, <2>1
  <2> QED
    BY <1>1, <2>2 DEF Taken
<1>11. InOrder
  <2>1. \A j \in 1 .. 0 : FALSE
    OBVIOUS
  <2> QED
    BY <1>10, <2>1 DEF InOrder
<1>12. Coming
  <2>1. \A n \in 0 + 1 .. 0 : FALSE
    OBVIOUS
  <2> QED
    BY <1>1, <1>2, <1>8, <1>10, <2>1 DEF Coming, Ended
<1>13. RepliesHold /\ Closed
  BY <1>1, <1>10 DEF RepliesHold, Closed
<1>14. Waiting
  BY <1>1, <1>10 DEF Waiting
<1>15. SlotsHeld
  <2>1. Occupied = {}
    BY <1>1 DEF Occupied
  <2> QED
    BY <1>2, <2>1, FS_EmptySet DEF SlotsHeld
<1> QED
  BY <1>6, <1>7, <1>9, <1>11, <1>12, <1>13, <1>14, <1>15 DEF PathInv

LEMMA PathStays ==
    ASSUME PathInv, SlotsHeld, [RDNext]_rdvars
    PROVE  PathInv' /\ SlotsHeld'
<1>1. AdapterTypeOK /\ Progress
  BY DEF PathInv, RDTypeOK
<1>2. CASE AdapterStep
  <2>1. Watched /\ (Adapt \/ Crash)
    BY <1>2 DEF AdapterStep
  <2>2. SlotsHeld'
    BY <1>1, <2>1, SlotsKept
  <2>3. PathInv'
    BY <2>1, AdapterSteps, StirredPath, FinishPath, WritesAreWrote, WrotePath, <1>1
  <2> QED
    BY <2>2, <2>3
<1>3. ASSUME Dispatch \/ (\E i \in Items : Receive(i) \/ Leave(i)) \/ RDQuiescent \/ UNCHANGED rdvars
      PROVE  PathInv' /\ SlotsHeld'
  <2>1. UNCHANGED <<kind, started, at, result, made, draining, mayStart, flaws, fate>>
    BY <1>3, OthersLeave
  <2>2. SlotsHeld'
    BY <1>1, <2>1, FewerOccupied DEF Occupied
  <2>3. CASE Dispatch
    BY <2>2, <2>3, DispatchPath
  <2>4. CASE \E i \in Items : Receive(i) \/ Leave(i)
    BY <2>2, <2>4, ClientPath
  <2>5. CASE RDQuiescent \/ UNCHANGED rdvars
    <3>1. UNCHANGED <<kind, started, at, result, made, draining, mayStart, wire, flaws, fate,
                      job, pending, reply, open, body, client, got>>
      BY <2>5 DEF RDQuiescent, rdvars, avars, gatevars
    <3>2. Batch' = Batch /\ Buffered' = Buffered /\ Interleaved' = Interleaved
          /\ Spoiled' = Spoiled /\ Positions' = Positions
      BY <3>1 DEF Batch, Buffered, Interleaved, Spoiled, SpoilsAll, Positions
    <3>3. RDTypeOK'
      BY <3>1 DEF PathInv, RDTypeOK, AdapterTypeOK
    <3>4. Progress'
      BY <3>1, <3>2 DEF PathInv, Progress
    <3>5. WireInv'
      BY <3>1, <3>2 DEF PathInv, WireInv, RecordHolds, Ordered, Document
    <3>6. InOrder'
      BY <3>1 DEF PathInv, InOrder, Taken
    <3>7. Coming'
      <4>1. \A i, p, n : IsChunk(p, i, n)' <=> IsChunk(p, i, n)
        BY <3>1 DEF IsChunk
      <4>2. \A i : Taken(i)' = Taken(i)
        BY <3>1 DEF Taken
      <4> QED
        BY <3>1, <3>2, <4>1, <4>2 DEF PathInv, Coming
    <3>8. RepliesHold' /\ Closed' /\ Waiting'
      BY <3>1, <3>2 DEF PathInv, RepliesHold, Closed, Waiting, Taken
    <3> QED
      BY <2>2, <3>3, <3>4, <3>5, <3>6, <3>7, <3>8 DEF PathInv
  <2> QED
    BY <1>3, <2>3, <2>4, <2>5
<1> QED
  BY <1>2, <1>3 DEF RDNext

LEMMA PathInvariant == RDSpec => [](PathInv /\ SlotsHeld)
<1>1. RDInit => PathInv /\ SlotsHeld
  BY Starts
<1>2. PathInv /\ SlotsHeld /\ [RDNext]_rdvars => (PathInv /\ SlotsHeld)'
  BY PathStays
<1> QED
  BY <1>1, <1>2, PTL DEF RDSpec

(***************************************************************************)
(* Every record, reply and chunk on the way is one the adapters and         *)
(* dispatch_stream_record can make, and no body channel overflows.          *)
(***************************************************************************)
THEOREM ResponseType == RDSpec => []RDTypeOK
<1>1. PathInv => RDTypeOK
  BY DEF PathInv
<1> QED
  BY <1>1, PathInvariant, PTL

(***************************************************************************)
(* Handlers and bodies that run at a time are within the concurrency        *)
(* option, for every adapter, whatever its batch, bodies and stream.        *)
(***************************************************************************)
THEOREM ConcurrencyIsBounded == RDSpec => []ConcurrencyBounded
<1>1. PathInv /\ SlotsHeld => ConcurrencyBounded
  <2> SUFFICES ASSUME PathInv, SlotsHeld PROVE ConcurrencyBounded
    OBVIOUS
  <2> DEFINE Working == {i \in Items : at[i] \in {"running", "body"}}
  <2>1. AdapterTypeOK /\ Limit \in Nat
    BY Slots DEF PathInv, RDTypeOK, AdapterTypeOK
  <2>2. IsFiniteSet(Occupied) /\ Cardinality(Occupied) \in Nat
    BY <2>1, OccupiedFinite
  <2>3. Working \subseteq Occupied
    BY DEF Occupied
  <2>4. Cardinality(Working) <= Cardinality(Occupied) /\ Cardinality(Working) \in Nat
    BY <2>2, <2>3, FS_Subset, FS_CardinalityType
  <2>5. Cardinality(Working) <= Limit
    <3> HIDE DEF Working
    <3> QED
      BY <2>1, <2>2, <2>4 DEF SlotsHeld
  <2> QED
    BY <2>5 DEF ConcurrencyBounded
<1> QED
  BY <1>1, PathInvariant, PTL

-----------------------------------------------------------------------------
(* The refinement of ResponseDelivery.                                      *)

Whole == {i \in Items : at[i] \in {"spent", "done"}}
Phase == [i \in Items |-> IF i \in Batch THEN client[i] ELSE "waiting"]
Outcome == [i \in Items |-> IF client[i] # "over" THEN "none"
                            ELSE IF reply[i] = "head" THEN "body"
                            ELSE IF reply[i] = "dropped" THEN "502" ELSE reply[i]]

\* What was sent is not sent again.
LEMMA RepliesStay ==
    ASSUME PathInv, Dispatch
    PROVE  /\ \A i \in Batch : reply[i] # "none" => reply'[i] = reply[i]
           /\ client' = client /\ got' = got
<1>1. reply \in [Items -> Replies]
  BY DEF PathInv, RDTypeOK
<1>2. Batch \subseteq Items
  BY Slots DEF PathInv, RDTypeOK, AdapterTypeOK
<1>3. client' = client /\ got' = got
  BY DEF Dispatch, SkipRecord, DispatchRecord, DispatchHead, DispatchChunk, DispatchEnd,
         DispatchError, DispatchBad, StreamUnreadable, StreamOver, DispatchBuffered,
         FailAll, gatevars
<1>4. ASSUME NEW i, NEW what, Send(i, what)
      PROVE  \A j \in Items : reply[j] # "none" => reply'[j] = reply[j]
  BY <1>1, <1>4 DEF Send
<1>5. ASSUME NEW replies, FailAll(replies), \A i \in Batch : reply[i] # "none" => replies[i] = reply[i]
      PROVE  \A i \in Batch : reply[i] # "none" => reply'[i] = reply[i]
  BY <1>2, <1>5 DEF FailAll
<1>6. CASE SkipRecord \/ DispatchRecord \/ DispatchHead \/ DispatchChunk \/ DispatchEnd
           \/ DispatchError
  <2>1. reply' = reply \/ \E i, what : Send(i, what)
    BY <1>6 DEF SkipRecord, DispatchRecord, DispatchHead, DispatchChunk, DispatchEnd,
                DispatchError, gatevars
  <2>2. \A j \in Items : reply[j] # "none" => reply'[j] = reply[j]
    BY <1>4, <2>1
  <2> QED
    BY <1>2, <1>3, <2>2
<1>7. CASE DispatchBad
  <2> DEFINE what == IF reply[Id] # "none" THEN reply[Id]
                     ELSE IF Rec.type = "chunk" THEN "head" ELSE "dropped"
  <2>1. FailAll([reply EXCEPT ![Id] = what])
    BY <1>7 DEF DispatchBad
  <2>2. \A i \in Batch : reply[i] # "none" => [reply EXCEPT ![Id] = what][i] = reply[i]
    BY <1>1, <1>2
  <2> HIDE DEF what
  <2> QED
    BY <1>3, <1>5, <2>1, <2>2
<1>8. CASE StreamUnreadable \/ StreamOver
  BY <1>3, <1>5, <1>8 DEF StreamUnreadable, StreamOver
<1>9. CASE DispatchBuffered
  <2>1. \A i \in Batch : reply[i] = "none"
    BY <1>9 DEF DispatchBuffered, PathInv, WireInv, Document
  <2> QED
    BY <1>3, <2>1
<1> QED
  BY <1>6, <1>7, <1>8, <1>9 DEF Dispatch

LEMMA MapsInit ==
    ASSUME RDInit
    PROVE  Delivery!RInit
<1>1. /\ at = [i \in Items |-> "waiting"] /\ result = [i \in Items |-> "none"]
      /\ made = [i \in Items |-> 0] /\ flaws = {} /\ fate = "open"
      /\ got = [i \in Items |-> <<>>]
      /\ client = [i \in Items |-> IF i \in Batch THEN "waiting" ELSE "absent"]
  BY DEF RDInit, AdapterInit
<1>2. Whole = {}
  BY <1>1 DEF Whole
<1>3. Spoiled = {}
  BY <1>1 DEF Spoiled, SpoilsAll
<1>4. Phase = [i \in Items |-> "waiting"] /\ Outcome = [i \in Items |-> "none"]
  BY <1>1 DEF Phase, Outcome
<1> QED
  BY <1>1, <1>2, <1>3, <1>4 DEF Delivery!RInit, Whole, Spoiled, Phase, Outcome

\* The steps of the adapter are steps of the handlers, or faults.
LEMMA MapsAdapter ==
    ASSUME PathInv, AdapterStep
    PROVE  Delivery!Handle
<1>1. /\ Watched /\ AdapterTypeOK /\ Progress
  BY DEF AdapterStep, PathInv, RDTypeOK
<1>2. /\ reply' = reply /\ client' = client /\ got' = got
  BY <1>1 DEF Watched, gatevars
<1>3. PathInv' /\ Batch' = Batch
  <2>1. PathInv'
    BY <1>1, AdapterSteps, StirredPath, FinishPath, WritesAreWrote, WrotePath DEF AdapterStep
  <2>2. kind' = kind
    BY <1>1, AdapterSteps, StirsAreStirred, WritesAreWrote
       DEF AdapterStep, Stirred, Wrote, FinishBuffered
  <2> QED
    BY <2>1, <2>2 DEF Batch
<1>4. /\ \A i \in Items : made'[i] >= made[i]
      /\ \A i \in Items : at[i] \in Ended => made'[i] = made[i] /\ result'[i] = result[i]
      /\ \A i \in Items : at[i] \in {"spent", "done"} => at'[i] \in {"spent", "done"}
      /\ \A i \in Items : result'[i] # result[i] => result[i] = "none" \/ result'[i] = "failed"
      /\ Spoiled \subseteq Spoiled'
  <2>1. made \in [Items -> 0 .. MaxChunks]
    BY <1>1 DEF AdapterTypeOK
  <2>2. \A i \in Items : made[i] \in Nat /\ made[i] >= made[i] /\ made[i] + 1 >= made[i]
    BY <2>1, LongestBody
  <2>3. CASE Stirs
    <3>1. Stirred
      BY <1>1, <2>3, StirsAreStirred
    <3>2. Spoiled \subseteq Spoiled'
      BY <3>1, SpoiledGrows DEF Stirred
    <3>3. \A i \in Items : at[i] \in Ended => result'[i] = result[i]
      BY <1>1, <3>1 DEF Stirred, Progress
    <3> QED
      BY <2>2, <3>1, <3>2, <3>3 DEF Stirred, Ended
  <2>4. CASE FinishBuffered
    <3>1. /\ at' = at /\ result' = result /\ made' = made /\ kind' = kind
          /\ Buffered /\ fate = "open"
      BY <2>4 DEF FinishBuffered
    <3>2. flaws = {}
      BY <3>1 DEF PathInv, WireInv, Document
    <3>3. Spoiled \subseteq Spoiled'
      BY <3>1, <3>2, SpoiledGrows
    <3> QED
      BY <2>2, <3>1, <3>3
  <2>5. ASSUME NEW i \in Items, Wrote(i)
        PROVE  /\ \A j \in Items : made'[j] >= made[j]
               /\ \A j \in Items : at[j] \in Ended => made'[j] = made[j] /\ result'[j] = result[j]
               /\ \A j \in Items : at[j] \in {"spent", "done"} => at'[j] \in {"spent", "done"}
               /\ \A j \in Items : result'[j] # result[j] => result[j] = "none" \/ result'[j] = "failed"
               /\ Spoiled \subseteq Spoiled'
    <3>1. /\ at[i] \in {"running", "body"}
          /\ \A j \in Items \ {i} : at'[j] = at[j] /\ result'[j] = result[j]
          /\ result'[i] # result[i] => result[i] = "none" \/ result'[i] = "failed"
          /\ kind' = kind /\ fate' = fate /\ flaws \subseteq flaws'
      BY <2>5 DEF Wrote
    <3>2. \A j \in Items : made'[j] = made[j] \/ made'[j] = made[j] + 1
      BY <2>1, <2>5 DEF Wrote
    <3>3. Spoiled \subseteq Spoiled'
      BY <3>1, SpoiledGrows
    <3>4. \A j \in Items : at[j] \in Ended => made'[j] = made[j] /\ result'[j] = result[j]
      BY <2>1, <2>5, <3>1 DEF Wrote, Ended
    <3> QED
      BY <2>2, <3>1, <3>2, <3>3, <3>4
  <2> QED
    BY <1>1, <2>3, <2>4, <2>5, AdapterSteps, WritesAreWrote DEF AdapterStep
<1>5. Whole \subseteq Whole'
  BY <1>4 DEF Whole
<1>6. Phase' = Phase /\ Outcome' = Outcome
  BY <1>2, <1>3 DEF Phase, Outcome
<1>7. \A i \in Whole : made'[i] = made[i] /\ result'[i] = result[i]
  BY <1>4 DEF Whole, Ended
<1> QED
  BY <1>2, <1>4, <1>5, <1>6, <1>7 DEF Delivery!Handle, Whole, Spoiled, Phase, Outcome

\* What the gateway does with records is not seen until a client takes it.
LEMMA MapsDispatch ==
    ASSUME PathInv, Dispatch
    PROVE  UNCHANGED Delivery!rvars
<1>1. /\ UNCHANGED <<kind, started, at, result, made, draining, mayStart, flaws, fate>>
      /\ AdapterTypeOK /\ Progress
  BY OthersLeave DEF PathInv, RDTypeOK
<1>2. Batch' = Batch /\ Batch \subseteq Items /\ Spoiled' = Spoiled
  BY <1>1, SameFunction
<1>3. /\ \A i \in Batch : reply[i] # "none" => reply'[i] = reply[i]
      /\ client' = client /\ got' = got
  BY RepliesStay
<1>4. Whole' = Whole /\ Phase' = Phase
  BY <1>1, <1>2, <1>3 DEF Whole, Phase
<1>5. Outcome' = Outcome
  <2>1. \A i \in Items : client[i] = "over" => reply'[i] = reply[i]
    BY <1>3 DEF PathInv, Waiting
  <2> QED
    BY <1>3, <2>1 DEF Outcome
<1> QED
  BY <1>1, <1>2, <1>3, <1>4, <1>5 DEF Delivery!rvars, Whole, Spoiled, Phase, Outcome

LEMMA MapsClient ==
    ASSUME PathInv, NEW i \in Items, Receive(i) \/ Leave(i)
    PROVE  \/ \E how \in {"ok", "failed", "502"} : Delivery!Tell(i, how)
           \/ Delivery!Open(i) \/ Delivery!Deliver(i) \/ Delivery!Close(i) \/ Delivery!Leave(i)
<1>1. /\ at' = at /\ result' = result /\ made' = made /\ reply' = reply
      /\ Batch' = Batch /\ Batch \subseteq Items /\ Spoiled' = Spoiled
  BY ClientTyped
<1>2. Whole' = Whole
  BY <1>1 DEF Whole
<1>3. i \in Batch /\ client \in [Items -> {"absent", "waiting", "streaming", "over", "left"}]
  BY DEF Receive, TakeReply, ReadChunk, BodyOver, Leave, PathInv, RDTypeOK, Waiting
<1>4. Phase[i] = client[i]
  BY <1>3 DEF Phase
\* The client of i is now at c.
<1>5. ASSUME NEW c, client' = [client EXCEPT ![i] = c], client[i] # "over"
      PROVE  /\ Phase' = [Phase EXCEPT ![i] = c]
             /\ c # "over" => Outcome' = Outcome
             /\ c = "over" => Outcome' = [Outcome EXCEPT ![i] =
                                              IF reply[i] = "head" THEN "body"
                                              ELSE IF reply[i] = "dropped" THEN "502" ELSE reply[i]]
  <2>1. client'[i] = c /\ \A j \in Items \ {i} : client'[j] = client[j]
    BY <1>3, <1>5
  <2>2. Phase' = [Phase EXCEPT ![i] = c]
    BY <1>1, <1>3, <2>1 DEF Phase
  <2> QED
    BY <1>1, <1>5, <2>1, <2>2 DEF Outcome
<1>6. CASE TakeReply(i)
  <2>1. /\ client[i] = "waiting" /\ reply[i] # "none" /\ got' = got
        /\ client' = [client EXCEPT ![i] = IF reply[i] = "head" THEN "streaming" ELSE "over"]
    BY <1>6 DEF TakeReply
  <2>2. CASE reply[i] = "head"
    <3>1. result[i] # "none"
      BY <2>2 DEF PathInv, RepliesHold
    <3>2. Phase' = [Phase EXCEPT ![i] = "streaming"] /\ Outcome' = Outcome
      <4>1. client' = [client EXCEPT ![i] = "streaming"] /\ client[i] # "over"
        BY <2>1, <2>2
      <4> QED
        BY <1>5, <4>1
    <3>3. Delivery!Open(i)
      BY <1>1, <1>2, <1>4, <2>1, <3>1, <3>2 DEF Delivery!Open, Whole, Spoiled, Phase, Outcome
    <3> QED
      BY <3>3
  <2>3. CASE reply[i] # "head"
    <3>1. PICK how \in {"ok", "failed", "502"} :
              how = IF reply[i] = "dropped" THEN "502" ELSE reply[i]
      BY <2>1, <2>3 DEF PathInv, RDTypeOK, Replies
    <3>2. (how = "502" => i \in Spoiled) /\ (how # "502" => result[i] = how)
      <4>1. reply[i] \in {"ok", "failed", "502", "dropped"}
        BY <2>1, <2>3 DEF PathInv, RDTypeOK, Replies
      <4> QED
        BY <3>1, <4>1 DEF PathInv, RepliesHold
    <3>3. Phase' = [Phase EXCEPT ![i] = "over"] /\ Outcome' = [Outcome EXCEPT ![i] = how]
      BY <1>5, <2>1, <2>3, <3>1
    <3>4. how = "ok" => i \in Whole
      BY <3>1 DEF PathInv, RepliesHold, Whole, Ended
    <3>5. /\ Phase[i] = "waiting" /\ (how = "502" => i \in Spoiled) /\ (how # "502" => result[i] = how)
          /\ how = "ok" => i \in Whole
          /\ result' = result /\ made' = made /\ got' = got
      BY <1>1, <1>4, <2>1, <3>2, <3>4
    <3>6. Delivery!Tell(i, how)
      BY <1>1, <1>2, <3>3, <3>5 DEF Delivery!Tell, Whole, Spoiled, Phase, Outcome
    <3> QED
      BY <3>1, <3>6
  <2> QED
    BY <2>2, <2>3
<1>7. CASE ReadChunk(i)
  <2>1. /\ Len(got[i]) < made[i]
        /\ got' = [got EXCEPT ![i] = Append(@, <<i, Len(@) + 1>>)]
    BY <1>7, NextChunk
  <2>2. client[i] = "streaming" /\ client' = client
    BY <1>7 DEF ReadChunk
  <2>3. Phase' = Phase /\ Outcome' = Outcome
    BY <1>1, <2>2 DEF Phase, Outcome
  <2>4. Delivery!Deliver(i)
    BY <1>1, <1>2, <1>4, <2>1, <2>2, <2>3 DEF Delivery!Deliver, Whole, Spoiled, Phase, Outcome
  <2> QED
    BY <2>4
<1>8. CASE BodyOver(i)
  <2>1. /\ client[i] = "streaming" /\ client' = [client EXCEPT ![i] = "over"]
        /\ body[i] = <<>> /\ i \notin open /\ got' = got
    BY <1>8 DEF BodyOver
  <2>2. reply[i] = "head" /\ ~Buffered
    <3>1. reply[i] = "head" /\ Interleaved
      BY <2>1 DEF PathInv, Waiting, RepliesHold
    <3> QED
      BY <3>1 DEF Interleaved, Buffered
  <2>3. i \in Batch \ pending
    BY <1>3, <2>1, <2>2 DEF PathInv, Waiting
  <2>4. i \in Spoiled \/ (at[i] \in Ended /\ Taken(i) = made[i])
    BY <2>1, <2>2, <2>3 DEF PathInv, Closed
  <2>5. Taken(i) = Len(got[i])
    <3>1. Len(body[i]) = 0
      BY <2>1, EmptySeq
    <3>2. Len(got[i]) \in Nat
      BY LenProperties DEF PathInv, RDTypeOK
    <3> QED
      BY <3>1, <3>2 DEF Taken
  <2>6. Phase' = [Phase EXCEPT ![i] = "over"] /\ Outcome' = [Outcome EXCEPT ![i] = "body"]
    BY <1>5, <2>1, <2>2
  <2>7. i \in Spoiled \/ (i \in Whole /\ Len(got[i]) = made[i])
    BY <2>4, <2>5 DEF Whole, Ended
  <2>8. Delivery!Close(i)
    BY <1>1, <1>2, <1>4, <2>1, <2>6, <2>7 DEF Delivery!Close, Whole, Spoiled, Phase, Outcome
  <2> QED
    BY <2>8
<1>9. CASE Leave(i)
  <2>1. /\ client[i] \in {"waiting", "streaming"} /\ got' = got
        /\ client' = [client EXCEPT ![i] = "left"]
    BY <1>9 DEF Leave
  <2>2. Phase' = [Phase EXCEPT ![i] = "left"] /\ Outcome' = Outcome
    BY <1>5, <2>1
  <2>3. Delivery!Leave(i)
    BY <1>1, <1>2, <1>4, <2>1, <2>2 DEF Delivery!Leave, Whole, Spoiled, Phase, Outcome
  <2> QED
    BY <2>3
<1> QED
  BY <1>6, <1>7, <1>8, <1>9 DEF Receive

(***************************************************************************)
(* Every client gets what the handler made of its own request, and only the *)
(* failure of the response as a whole reaches the clients of others: the    *)
(* adapters, the stream, dispatch_stream_record, the channels and the       *)
(* handlers together implement ResponseDelivery.                            *)
(***************************************************************************)
THEOREM DeliveryIsImplemented == RDSpec => ImplementsDelivery
<1>1. RDInit => Delivery!RInit
  BY MapsInit
<1>2. PathInv /\ [RDNext]_rdvars => [Delivery!RNext]_(Delivery!rvars)
  <2> SUFFICES ASSUME PathInv, [RDNext]_rdvars
               PROVE  Delivery!RNext \/ UNCHANGED Delivery!rvars
    OBVIOUS
  <2>1. CASE AdapterStep
    BY <2>1, MapsAdapter DEF Delivery!RNext
  <2>2. CASE Dispatch
    BY <2>2, MapsDispatch
  <2>3. ASSUME NEW i \in Items, Receive(i) \/ Leave(i)
        PROVE  Delivery!RNext
    BY <2>3, MapsClient DEF Delivery!RNext
  <2>4. CASE RDQuiescent \/ UNCHANGED rdvars
    <3>1. UNCHANGED <<kind, at, result, made, flaws, fate, reply, client, got>>
      BY <2>4 DEF RDQuiescent, rdvars, avars, gatevars
    <3> QED
      BY <3>1 DEF Delivery!rvars, SpoilsAll, Batch, Buffered
  <2> QED
    BY <2>1, <2>2, <2>3, <2>4 DEF RDNext
<1> QED
  BY <1>1, <1>2, PathInvariant, PTL DEF RDSpec, ImplementsDelivery, Delivery!RSpec

-----------------------------------------------------------------------------
(* What the clients have in the end.                                        *)

\* A body that is over has been read to its end.
ReadOut ==
    \A i \in Items : client[i] = "over" /\ reply[i] = "head" => i \notin open /\ body[i] = <<>>

\* The channel of a body that is closed is not written to again.
LEMMA DispatchWritesOpen ==
    ASSUME PathInv, Dispatch
    PROVE  open' \subseteq open /\ \A i \in Items \ open : body'[i] = body[i]
<1>1. body \in [Items -> Seq(Chunk)]
  BY DEF PathInv, RDTypeOK
<1>2. ~Buffered => open = pending
  BY DEF PathInv, Waiting
<1>3. CASE DispatchChunk
  <2>1. ~Buffered /\ Id \in pending
    BY <1>3 DEF DispatchChunk, Dispatching
  <2>2. open' \subseteq open
    BY <1>3 DEF DispatchChunk, Remove
  <2>3. body' = body \/ \E c : body' = [body EXCEPT ![Id] = c]
    BY <1>3 DEF DispatchChunk
  <2> QED
    BY <1>1, <1>2, <2>1, <2>2, <2>3
<1>4. CASE ~DispatchChunk
  <2>1. body' = body /\ open' \subseteq open
    BY <1>4 DEF Dispatch, SkipRecord, DispatchRecord, DispatchHead, DispatchEnd, DispatchError, DispatchBad,
       StreamUnreadable, StreamOver, DispatchBuffered, FailAll, Remove, gatevars
  <2> QED
    BY <2>1
<1> QED
  BY <1>3, <1>4

LEMMA ReadOutKept ==
    ASSUME PathInv, ReadOut, [RDNext]_rdvars
    PROVE  ReadOut'
<1>1. /\ client \in [Items -> {"absent", "waiting", "streaming", "over", "left"}]
      /\ body \in [Items -> Seq(Chunk)]
  BY DEF PathInv, RDTypeOK
<1>2. CASE UNCHANGED <<client, reply, open, body>>
  BY <1>2 DEF ReadOut
<1>3. CASE Dispatch
  <2>1. \A i \in Items : client[i] = "over" => i \in Batch /\ reply[i] # "none"
    BY DEF PathInv, Waiting
  <2>2. /\ \A i \in Batch : reply[i] # "none" => reply'[i] = reply[i]
        /\ client' = client
    BY <1>3, RepliesStay
  <2> QED
    BY <1>3, <2>1, <2>2, DispatchWritesOpen DEF ReadOut
<1>4. ASSUME NEW j \in Items, Receive(j) \/ Leave(j)
      PROVE  ReadOut'
  <2>1. reply' = reply /\ open' = open
    BY <1>4 DEF Receive, TakeReply, ReadChunk, BodyOver, Leave
  <2>2. \A i \in Items \ {j} : client'[i] = client[i] /\ body'[i] = body[i]
    BY <1>1, <1>4 DEF Receive, TakeReply, ReadChunk, BodyOver, Leave
  <2>3. client'[j] = "over" /\ reply[j] = "head" => j \notin open /\ body'[j] = <<>>
    BY <1>1, <1>4 DEF Receive, TakeReply, ReadChunk, BodyOver, Leave
  <2> QED
    BY <2>1, <2>2, <2>3 DEF ReadOut
<1> QED
  BY <1>2, <1>3, <1>4 DEF RDNext, AdapterStep, Watched, RDQuiescent, rdvars, gatevars

\* What a client has been given, and what it has been told when all is over.
Kept(i) ==
    /\ \A n \in 1 .. Len(got[i]) : got[i][n] = <<i, n>>
    /\ client[i] = "over" =>
          /\ reply[i] \in {"ok", "failed"} => result[i] = reply[i]
          /\ reply[i] \in {"502", "dropped"} => i \in Spoiled
          /\ reply[i] = "head" /\ i \notin Spoiled => at[i] \in Ended /\ Len(got[i]) = made[i]

(***************************************************************************)
(* A client that has been served has the handler's own response, or every   *)
(* chunk of its body, in order, once; unless the response was spoiled, and  *)
(* that is the only reason for a 502 or a body that is cut off.             *)
(***************************************************************************)
THEOREM ClientsGetTheirOwn == RDSpec => [](\A i \in Items : Kept(i))
<1>1. RDInit => ReadOut
  BY DEF RDInit, ReadOut
<1>2. PathInv /\ ReadOut /\ [RDNext]_rdvars => ReadOut'
  BY ReadOutKept
<1>3. PathInv /\ ReadOut => \A i \in Items : Kept(i)
  <2> SUFFICES ASSUME PathInv, ReadOut, NEW i \in Items PROVE Kept(i)
    OBVIOUS
  <2>1. \A n \in 1 .. Len(got[i]) : got[i][n] = <<i, n>>
    BY DEF PathInv, InOrder
  <2>2. /\ reply[i] \in {"ok", "failed"} => result[i] = reply[i]
        /\ reply[i] \in {"502", "dropped"} => i \in Spoiled
    BY DEF PathInv, RepliesHold
  <2>3. ASSUME client[i] = "over", reply[i] = "head", i \notin Spoiled
        PROVE  at[i] \in Ended /\ Len(got[i]) = made[i]
    <3>1. i \in Batch /\ i \notin open /\ body[i] = <<>>
      BY <2>3 DEF PathInv, Waiting, ReadOut
    <3>2. ~Buffered
      BY <2>3 DEF PathInv, RepliesHold, Buffered, Interleaved
    <3>3. i \notin pending
      BY <3>1, <3>2 DEF PathInv, Waiting
    <3>4. at[i] \in Ended /\ Taken(i) = made[i]
      BY <2>3, <3>1, <3>3 DEF PathInv, Closed
    <3>5. Len(body[i]) = 0 /\ Len(got[i]) \in Nat
      BY <3>1 DEF PathInv, RDTypeOK
    <3> QED
      BY <3>4, <3>5 DEF Taken
  <2> QED
    BY <2>1, <2>2, <2>3 DEF Kept
<1> QED
  BY <1>1, <1>2, <1>3, PathInvariant, PTL DEF RDSpec
=============================================================================
