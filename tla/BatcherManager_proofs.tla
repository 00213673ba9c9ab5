----------------------- MODULE BatcherManager_proofs ------------------------
(***************************************************************************)
(* Proofs about BatcherManager, for every set of requests, keys, operations *)
(* and every queue depth and batch size.                                    *)
(***************************************************************************)
EXTENDS BatcherManager, SequenceLemmas

\* The loop of enqueue: how many channels a call has looked up so far.
LoopInv ==
    \A r \in Requests :
        /\ Len(tried[r]) <= 2
        /\ handler[r] = "enqueue" => Len(tried[r]) <= 1
        /\ handler[r] \in {"send", "remove"} => Len(tried[r]) >= 1

TypeInv == TypeOK /\ LoopInv

-----------------------------------------------------------------------------
(* Facts about the definitions.                                             *)

LEMMA KeyTypes ==
    /\ \A r \in Requests : BatchKey(r) \in BatchKeys
    /\ \A c \in Chans : KeyOf(c) \in BatchKeys /\ c[1] \in Requests /\ c[2] \in 1 .. 2
    /\ \A r \in Requests : \A n \in 1 .. 2 : <<r, n>> \in Chans
BY OpAssumption, KeyAssumption
   DEF BatchKey, BatchKeys, SeenKey, KeyOf, Chans

-----------------------------------------------------------------------------
(* Type correctness.                                                        *)

LEMMA InitType == Init => TypeInv
BY DEF Init, TypeInv, TypeOK, LoopInv, TaskStates, HandlerStates

\* The sender clone a handler holds is one of the channels it looked up.
LEMMA HeldType ==
    ASSUME TypeInv, NEW r \in Requests, handler[r] \in {"send", "remove"}
    PROVE  /\ Len(tried[r]) \in 1 .. 2
           /\ Held(r) \in Chans
<1>1. tried[r] \in Seq(Chans)
  BY DEF TypeInv, TypeOK
<1>2. PICK n \in Nat : n = Len(tried[r])
  BY <1>1
<1>3. n <= 2 /\ n >= 1
  BY <1>2 DEF TypeInv, LoopInv
<1>4. n \in 1 .. 2 /\ n \in 1 .. n
  BY <1>3
<1> QED
  BY <1>1, <1>2, <1>4, ElementOfSeq DEF Held

LEMMA EnqueueType ==
    ASSUME TypeInv, NEW r \in Requests, Enqueue(r)
    PROVE  TypeInv'
<1> USE KeyTypes DEF TypeInv, TypeOK, LoopInv, TaskStates, HandlerStates
<1>1. CASE LookupOccupied(r)
  <2>1. entry[BatchKey(r)] \in Chans
    BY <1>1 DEF LookupOccupied
  <2> QED
    BY <1>1, <2>1 DEF LookupOccupied
<1>2. CASE LookupVacant(r)
  <2>1. PICK n \in 1 .. 2 : n = Len(tried[r]) + 1
    BY <1>2, LenProperties DEF LookupVacant
  <2>2. PICK c \in Chans : c = <<r, n>>
    OBVIOUS
  <2>3. /\ entry' = [entry EXCEPT ![BatchKey(r)] = c]
        /\ task' = [task EXCEPT ![c] = "recv"]
        /\ tried' = [tried EXCEPT ![r] = Append(@, c)]
        /\ handler' = [handler EXCEPT ![r] = "send"]
        /\ UNCHANGED <<queue, batch, handed, lost>>
    BY <1>2, <2>1, <2>2 DEF LookupVacant
  <2>4. Append(tried[r], c) \in Seq(Chans) /\ Len(Append(tried[r], c)) = n
    BY <2>1
  <2>5. TypeOK'
    BY <2>3, <2>4
  <2>6. LoopInv'
    BY <2>1, <2>3, <2>4
  <2> QED
    BY <2>5, <2>6
<1>3. CASE TrySend(r)
  <2>1. Held(r) \in Chans
    BY <1>3, HeldType DEF TrySend
  <2> QED
    BY <1>3, <2>1 DEF TrySend
<1>4. CASE TrySendFull(r)
  BY <1>4 DEF TrySendFull
<1>5. CASE TrySendClosed(r)
  BY <1>5 DEF TrySendClosed
<1>6. CASE RemoveClosed(r)
  BY <1>6 DEF RemoveClosed
<1> QED
  BY <1>1, <1>2, <1>3, <1>4, <1>5, <1>6 DEF Enqueue

LEMMA BatcherType ==
    ASSUME TypeInv, NEW c \in Chans, Batcher(c)
    PROVE  TypeInv'
<1> USE KeyTypes DEF TypeInv, TypeOK, LoopInv, TaskStates, HandlerStates
<1>1. CASE queue[c] # <<>> /\ Receive(c)
  <2>1. /\ Head(queue[c]) \in Requests
        /\ Tail(queue[c]) \in Seq(Requests)
    BY <1>1
  <2>2. AfterPush(c, Len(batch[c]) + 1) \in TaskStates
    BY DEF AfterPush
  <2> QED
    BY <1>1, <2>1, <2>2 DEF Receive
<1>2. CASE \E state \in TaskStates : Goto(c, state)
  BY <1>2 DEF Goto
<1>3. ASSUME NEW n \in 1 .. Len(batch[c]), FlushPart(c, n)
      PROVE  TypeInv'
  <2>1. SubSeq(batch[c], n + 1, Len(batch[c])) \in Seq(Requests)
    BY RestIsSeq
  <2>2. {batch[c][i] : i \in 1 .. n} \subseteq Requests
    OBVIOUS
  <2> QED
    BY <1>3, <2>1, <2>2 DEF FlushPart
<1>4. CASE DropReceiver(c)
  <2>1. Range(queue[c]) \subseteq Requests
    BY DEF Range
  <2> QED
    BY <1>4, <2>1 DEF DropReceiver
<1>5. CASE RemoveSelf(c)
  BY <1>5 DEF RemoveSelf
<1> QED
  BY <1>1, <1>2, <1>3, <1>4, <1>5
     DEF Batcher, ReceiveFirst, ReceiveMore, IdleExpires, RecvDisconnected,
         WindowExpires, CollectDisconnected

LEMMA NextType == TypeInv /\ [Next]_vars => TypeInv'
<1> SUFFICES ASSUME TypeInv, [Next]_vars PROVE TypeInv'
  OBVIOUS
<1>1. CASE UNCHANGED vars
  BY <1>1 DEF vars, TypeInv, TypeOK, LoopInv
<1>2. CASE Quiescent
  BY <1>1, <1>2 DEF Quiescent
<1> QED
  BY <1>1, <1>2, EnqueueType, BatcherType DEF Next

(***************************************************************************)
(* The variables keep their types: in particular enqueue looks a channel up *)
(* at most twice, so the two channels per request that Chans provides for   *)
(* are enough.                                                              *)
(***************************************************************************)
THEOREM TypeCorrect == Spec => []TypeInv
BY InitType, NextType, PTL DEF Spec

-----------------------------------------------------------------------------
(* The map of batchers.                                                     *)

\* A channel exists once the call that inserted it has looked it up; a call
\* only looks up channels of its own key.
BornInv ==
    /\ \A c \in Chans : task[c] # "unborn" => Len(tried[c[1]]) >= c[2]
    /\ \A r \in Requests : \A i \in 1 .. Len(tried[r]) :
          /\ task[tried[r][i]] # "unborn"
          /\ KeyOf(tried[r][i]) = BatchKey(r)

MapInv == TypeInv /\ BornInv /\ EntryNeverDead

\* What a step of a batcher task can do to the map, the tasks and the calls.
LEMMA BatcherMoveKeeps ==
    ASSUME TypeInv, NEW c \in Chans, Batcher(c)
    PROVE  /\ UNCHANGED <<handler, tried>>
           /\ \A d \in Chans : d # c => task'[d] = task[d]
           /\ task[c] \notin {"unborn", "done"}
           /\ task'[c] # "unborn"
           /\ task[c] = "remove" => task'[c] = "done"
           /\ \/ entry' = entry /\ task'[c] # "done"
              \/ RemoveSelf(c)
<1> USE DEF TypeInv, TypeOK, TaskStates
<1>1. CASE ReceiveFirst(c) \/ ReceiveMore(c)
  BY <1>1 DEF ReceiveFirst, ReceiveMore, Receive, AfterPush
<1>2. CASE \/ IdleExpires(c) \/ RecvDisconnected(c)
           \/ WindowExpires(c) \/ CollectDisconnected(c)
  BY <1>2 DEF IdleExpires, RecvDisconnected, WindowExpires, CollectDisconnected, Goto
<1>3. CASE \E n \in 1 .. Len(batch[c]) : FlushPart(c, n)
  BY <1>3 DEF FlushPart
<1>4. CASE DropReceiver(c)
  BY <1>4 DEF DropReceiver
<1>5. CASE RemoveSelf(c)
  BY <1>5 DEF RemoveSelf
<1> QED
  BY <1>1, <1>2, <1>3, <1>4, <1>5 DEF Batcher

LEMMA InitMap == Init => MapInv
<1> SUFFICES ASSUME Init PROVE MapInv
  OBVIOUS
<1>1. TypeInv
  BY InitType
<1>2. BornInv
  BY KeyTypes DEF Init, BornInv
<1>3. EntryNeverDead
  BY DEF Init, EntryNeverDead
<1> QED
  BY <1>1, <1>2, <1>3 DEF MapInv

\* A lookup adds one channel of the caller's key to what the call has tried.
LEMMA LookupBorn ==
    ASSUME TypeInv, TypeInv', BornInv, NEW r \in Requests, NEW c \in Chans,
           KeyOf(c) = BatchKey(r),
           tried' = [tried EXCEPT ![r] = Append(@, c)],
           \A d \in Chans : task'[d] # "unborn" <=> (d = c \/ task[d] # "unborn"),
           task[c] # "unborn" \/ (c[1] = r /\ c[2] = Len(tried[r]) + 1)
    PROVE  BornInv'
<1>1. tried[r] \in Seq(Chans)
  BY DEF TypeInv, TypeOK
<1>2. PICK n \in Nat : n = Len(tried[r])
  BY <1>1, LenProperties
<1>3. tried'[r] = Append(tried[r], c) /\ \A q \in Requests : q # r => tried'[q] = tried[q]
  BY DEF TypeInv, TypeOK
<1>4. /\ Len(tried'[r]) = n + 1
      /\ tried'[r][n + 1] = c
      /\ \A i \in 1 .. n : tried'[r][i] = tried[r][i]
      /\ \A i \in 1 .. n + 1 : i \in 1 .. n \/ i = n + 1
  BY <1>1, <1>2, <1>3, AppendElems
<1>5. ASSUME NEW d \in Chans, task'[d] # "unborn"
      PROVE  Len(tried'[d[1]]) >= d[2]
  <2>1. d[1] \in Requests /\ d[2] \in 1 .. 2
    BY KeyTypes
  <2>2. CASE task[d] # "unborn" /\ d[1] = r
    <3>1. n >= d[2]
      BY <1>2, <2>2 DEF BornInv
    <3> QED
      BY <1>4, <2>1, <2>2, <3>1
  <2>3. CASE task[d] # "unborn" /\ d[1] # r
    BY <1>3, <2>1, <2>3 DEF BornInv
  <2>4. CASE task[d] = "unborn"
    <3>1. d[1] = r /\ d[2] = n + 1
      BY <1>2, <1>5, <2>4
    <3> QED
      BY <1>4, <3>1
  <2> QED
    BY <2>2, <2>3, <2>4
<1>6. ASSUME NEW q \in Requests, NEW i \in 1 .. Len(tried'[q])
      PROVE  task'[tried'[q][i]] # "unborn" /\ KeyOf(tried'[q][i]) = BatchKey(q)
  <2>1. CASE q # r
    <3>1. i \in 1 .. Len(tried[q]) /\ tried'[q][i] = tried[q][i]
      BY <1>3, <2>1
    <3>2. tried[q][i] \in Chans
      BY <3>1, ElementOfSeq DEF TypeInv, TypeOK
    <3> QED
      BY <3>1, <3>2 DEF BornInv
  <2>2. CASE q = r /\ i \in 1 .. n
    <3>1. tried'[q][i] = tried[q][i]
      BY <1>4, <2>2
    <3>2. tried[q][i] \in Chans
      BY <1>1, <1>2, <2>2, ElementOfSeq
    <3> QED
      BY <1>2, <2>2, <3>1, <3>2 DEF BornInv
  <2>3. CASE q = r /\ i = n + 1
    BY <1>4, <2>3
  <2> QED
    BY <1>4, <1>6, <2>1, <2>2, <2>3
<1> QED
  BY <1>5, <1>6 DEF BornInv

LEMMA EnqueueMap ==
    ASSUME MapInv, NEW r \in Requests, Enqueue(r)
    PROVE  BornInv' /\ EntryNeverDead'
<1> USE DEF MapInv
<1>0. TypeInv /\ TypeInv'
  BY EnqueueType
<1>1. CASE LookupOccupied(r)
  <2> DEFINE c == entry[BatchKey(r)]
  <2>1. /\ c \in Chans
        /\ KeyOf(c) = BatchKey(r)
        /\ task[c] # "unborn"
    BY <1>0, <1>1, KeyTypes DEF LookupOccupied, EntryNeverDead, TypeInv, TypeOK
  <2>2. /\ tried' = [tried EXCEPT ![r] = Append(@, c)]
        /\ UNCHANGED <<entry, task>>
    BY <1>1 DEF LookupOccupied
  <2> HIDE DEF c
  <2>3. BornInv'
    BY <1>0, <2>1, <2>2, LookupBorn
  <2>4. EntryNeverDead'
    BY <2>2 DEF EntryNeverDead
  <2> QED
    BY <2>3, <2>4
<1>2. CASE LookupVacant(r)
  <2>1. PICK n \in 1 .. 2 : n = Len(tried[r]) + 1
    BY <1>0, <1>2, LenProperties DEF LookupVacant, TypeInv, TypeOK, LoopInv
  <2>2. PICK c \in Chans : c = <<r, n>> /\ c[1] = r /\ c[2] = n
    BY KeyTypes DEF Chans
  <2>3. /\ entry' = [entry EXCEPT ![BatchKey(r)] = c]
        /\ task' = [task EXCEPT ![c] = "recv"]
        /\ tried' = [tried EXCEPT ![r] = Append(@, c)]
    BY <1>2, <2>1, <2>2 DEF LookupVacant
  <2>4. KeyOf(c) = BatchKey(r)
    BY <2>2 DEF KeyOf
  <2>5. \A d \in Chans : task'[d] # "unborn" <=> (d = c \/ task[d] # "unborn")
    BY <1>0, <2>3 DEF TypeInv, TypeOK
  <2>6. BornInv'
    BY <1>0, <2>1, <2>2, <2>3, <2>4, <2>5, LookupBorn
  <2>7. EntryNeverDead'
    BY <1>0, <2>3, <2>4, KeyTypes DEF EntryNeverDead, TypeInv, TypeOK
  <2> QED
    BY <2>6, <2>7
<1>3. CASE TrySend(r) \/ TrySendFull(r) \/ TrySendClosed(r)
  BY <1>3 DEF TrySend, TrySendFull, TrySendClosed, BornInv, EntryNeverDead
<1>4. CASE RemoveClosed(r)
  BY <1>0, <1>4, KeyTypes
     DEF RemoveClosed, BornInv, EntryNeverDead, TypeInv, TypeOK
<1> QED
  BY <1>1, <1>2, <1>3, <1>4 DEF Enqueue

LEMMA BatcherMap ==
    ASSUME MapInv, NEW c \in Chans, Batcher(c)
    PROVE  BornInv' /\ EntryNeverDead'
<1> USE DEF MapInv
<1>1. TypeInv /\ TypeInv'
  BY BatcherType
<1>2. \A d \in Chans : task'[d] # "unborn" <=> task[d] # "unborn"
  BY <1>1, BatcherMoveKeeps DEF TypeInv, TypeOK
<1>3. BornInv'
  BY <1>1, <1>2, BatcherMoveKeeps, KeyTypes DEF BornInv, TypeInv, TypeOK
<1>4. CASE entry' = entry /\ task'[c] # "done"
  <2>1. \A d \in Chans : task[d] # "done" => task'[d] # "done"
    BY <1>4, BatcherMoveKeeps
  <2> QED
    BY <1>1, <1>2, <1>3, <1>4, <2>1 DEF EntryNeverDead, TypeInv, TypeOK
<1>5. CASE RemoveSelf(c)
  <2>1. /\ entry' = [entry EXCEPT ![KeyOf(c)] = NoChan]
        /\ \A d \in Chans : d # c => task'[d] = task[d]
    BY <1>1, <1>5 DEF RemoveSelf, TypeInv, TypeOK
  <2>2. ASSUME NEW k \in BatchKeys, entry'[k] # NoChan
        PROVE  entry'[k] = entry[k] /\ entry[k] \in Chans /\ entry[k] # c /\ entry[k] # NoChan
    <3>1. k # KeyOf(c)
      BY <1>1, <2>1, <2>2 DEF TypeInv, TypeOK
    <3>2. entry'[k] = entry[k] /\ entry[k] \in Chans
      BY <1>1, <2>1, <2>2, <3>1 DEF TypeInv, TypeOK
    <3> QED
      BY <2>2, <3>1, <3>2 DEF EntryNeverDead
  <2> QED
    BY <1>2, <1>3, <2>1, <2>2 DEF EntryNeverDead
<1> QED
  BY <1>3, <1>4, <1>5, BatcherMoveKeeps

LEMMA NextMap == MapInv /\ [Next]_vars => MapInv'
<1> SUFFICES ASSUME MapInv, [Next]_vars PROVE MapInv'
  OBVIOUS
<1>1. TypeInv'
  BY NextType DEF MapInv
<1>2. CASE UNCHANGED vars
  BY <1>1, <1>2 DEF vars, MapInv, BornInv, EntryNeverDead
<1>3. CASE Quiescent
  BY <1>2, <1>3 DEF Quiescent
<1> QED
  BY <1>1, <1>2, <1>3, EnqueueMap, BatcherMap DEF Next, MapInv

(***************************************************************************)
(* The map never keeps the sender of a finished batcher, whatever removals  *)
(* of evicting tasks and of handlers overlap: no key is ever wedged.        *)
(***************************************************************************)
THEOREM NoDeadEntry == Spec => []EntryNeverDead
<1>1. MapInv => EntryNeverDead
  BY DEF MapInv
<1> QED
  BY <1>1, InitMap, NextMap, PTL DEF Spec

-----------------------------------------------------------------------------
(* Requests of one key only share a channel and a batch.                    *)

KeyInv ==
    \A c \in Chans :
        /\ \A i \in 1 .. Len(queue[c]) : BatchKey(queue[c][i]) = KeyOf(c)
        /\ \A i \in 1 .. Len(batch[c]) : BatchKey(batch[c][i]) = KeyOf(c)

IsolationInv == MapInv /\ KeyInv

LEMMA EnqueueKey ==
    ASSUME IsolationInv, NEW r \in Requests, Enqueue(r)
    PROVE  KeyInv'
<1> USE DEF IsolationInv, MapInv
<1>1. CASE TrySend(r)
  <2>1. PICK c \in Chans : c = Held(r) /\ KeyOf(c) = BatchKey(r)
    <3>1. Len(tried[r]) \in 1 .. 2 /\ Held(r) \in Chans
      BY <1>1, HeldType DEF TrySend
    <3>2. KeyOf(Held(r)) = BatchKey(r)
      BY <3>1 DEF BornInv, Held
    <3> QED
      BY <3>1, <3>2
  <2>2. /\ queue[c] \in Seq(Requests)
        /\ queue'[c] = Append(queue[c], r)
        /\ \A d \in Chans : d # c => queue'[d] = queue[d]
        /\ batch' = batch
    BY <1>1, <2>1 DEF TrySend, TypeInv, TypeOK
  <2>3. \A i \in 1 .. Len(queue'[c]) : BatchKey(queue'[c][i]) = KeyOf(c)
    BY <2>1, <2>2, AppendElems DEF KeyInv
  <2> QED
    BY <2>2, <2>3 DEF KeyInv
<1>2. CASE UNCHANGED <<queue, batch>>
  BY <1>2 DEF KeyInv
<1> QED
  BY <1>1, <1>2
     DEF Enqueue, LookupOccupied, LookupVacant, TrySendFull, TrySendClosed, RemoveClosed

LEMMA BatcherKey ==
    ASSUME IsolationInv, NEW c \in Chans, Batcher(c)
    PROVE  KeyInv'
<1> USE DEF IsolationInv, MapInv
<1>0. /\ queue \in [Chans -> Seq(Requests)]
      /\ batch \in [Chans -> Seq(Requests)]
  BY DEF TypeInv, TypeOK
<1>1. CASE queue[c] # <<>> /\ Receive(c)
  <2>1. /\ queue'[c] = Tail(queue[c])
        /\ batch'[c] = Append(batch[c], Head(queue[c]))
        /\ \A d \in Chans : d # c => queue'[d] = queue[d] /\ batch'[d] = batch[d]
    BY <1>0, <1>1 DEF Receive
  <2>2. /\ 1 \in 1 .. Len(queue[c])
        /\ Head(queue[c]) = queue[c][1]
        /\ Head(queue[c]) \in Requests
        /\ \A i \in 1 .. Len(Tail(queue[c])) :
              i + 1 \in 1 .. Len(queue[c]) /\ Tail(queue[c])[i] = queue[c][i + 1]
    BY <1>0, <1>1, TailElems
  <2>4. \A i \in 1 .. Len(queue'[c]) : BatchKey(queue'[c][i]) = KeyOf(c)
    BY <2>1, <2>2 DEF KeyInv
  <2>5. BatchKey(Head(queue[c])) = KeyOf(c)
    BY <2>2 DEF KeyInv
  <2>6. \A i \in 1 .. Len(batch'[c]) : BatchKey(batch'[c][i]) = KeyOf(c)
    <3>1. /\ batch[c] \in Seq(Requests)
          /\ \A i \in 1 .. Len(batch[c]) : BatchKey(batch[c][i]) = KeyOf(c)
      BY <1>0 DEF KeyInv
    <3> QED
      BY <2>1, <2>2, <2>5, <3>1, AppendElems
  <2> QED
    BY <2>1, <2>4, <2>6 DEF KeyInv
<1>2. ASSUME NEW n \in 1 .. Len(batch[c]), FlushPart(c, n)
      PROVE  KeyInv'
  <2>1. /\ batch'[c] = SubSeq(batch[c], n + 1, Len(batch[c]))
        /\ \A d \in Chans : d # c => batch'[d] = batch[d]
        /\ queue' = queue
    BY <1>0, <1>2 DEF FlushPart
  <2>2. PICK m \in Nat : m = Len(batch[c])
    BY <1>0, LenProperties
  <2>3. n \in 1 .. m /\ \A i \in 1 .. m - n : n + i \in 1 .. m
    BY <2>2
  <2>4. \A i \in 1 .. Len(batch'[c]) : BatchKey(batch'[c][i]) = KeyOf(c)
    <3>1. /\ Len(batch'[c]) = m - n
          /\ \A i \in 1 .. m - n : batch'[c][i] = batch[c][n + i]
      BY <1>0, <2>1, <2>2, RestIsSeq
    <3>2. \A i \in 1 .. m : BatchKey(batch[c][i]) = KeyOf(c)
      BY <2>2 DEF KeyInv
    <3> QED
      BY <2>3, <3>1, <3>2
  <2> QED
    BY <2>1, <2>4 DEF KeyInv
<1>3. CASE DropReceiver(c)
  <2>1. /\ queue'[c] = <<>>
        /\ \A d \in Chans : d # c => queue'[d] = queue[d]
        /\ batch' = batch
    BY <1>0, <1>3 DEF DropReceiver
  <2> QED
    BY <2>1 DEF KeyInv
<1>4. CASE \/ IdleExpires(c) \/ RecvDisconnected(c) \/ WindowExpires(c)
           \/ CollectDisconnected(c) \/ RemoveSelf(c)
  <2>1. UNCHANGED <<queue, batch>>
    BY <1>4 DEF IdleExpires, RecvDisconnected, WindowExpires, CollectDisconnected,
                Goto, RemoveSelf
  <2> QED
    BY <2>1 DEF KeyInv
<1>5. CASE ReceiveFirst(c) \/ ReceiveMore(c)
  BY <1>1, <1>5 DEF ReceiveFirst, ReceiveMore
<1> QED
  BY <1>2, <1>3, <1>4, <1>5 DEF Batcher

LEMMA NextKey == IsolationInv /\ [Next]_vars => IsolationInv'
<1> SUFFICES ASSUME IsolationInv, [Next]_vars PROVE IsolationInv'
  OBVIOUS
<1>1. MapInv'
  BY NextMap DEF IsolationInv
<1>2. CASE UNCHANGED vars
  BY <1>1, <1>2 DEF vars, KeyInv, IsolationInv
<1>3. CASE Quiescent
  BY <1>2, <1>3 DEF Quiescent
<1>4. KeyInv'
  BY <1>2, <1>3, EnqueueKey, BatcherKey DEF Next, IsolationInv
<1> QED
  BY <1>1, <1>4 DEF IsolationInv

LEMMA InitIsolation == Init => IsolationInv
BY InitMap DEF Init, IsolationInv, KeyInv

LEMMA KeyInvIsolates == IsolationInv => KeyIsolation
<1> SUFFICES ASSUME IsolationInv, NEW c \in Chans,
                    NEW r \in Range(queue[c]) \cup Range(batch[c])
             PROVE  /\ OpOf[r] = OpOf[c[1]]
                    /\ KeyHeaderForwarded => KeyHeader[r] = KeyHeader[c[1]]
  BY DEF KeyIsolation
<1>1. /\ queue[c] \in Seq(Requests)
      /\ batch[c] \in Seq(Requests)
  BY DEF IsolationInv, MapInv, TypeInv, TypeOK
<1>2. BatchKey(r) = KeyOf(c)
  BY <1>1, LenProperties DEF IsolationInv, KeyInv, Range
<1> QED
  BY <1>2 DEF KeyOf, BatchKey, SeenKey

(***************************************************************************)
(* The requests of a channel and of a batch have the operation and the key  *)
(* values of the request that spawned the batcher: lookups, retries and     *)
(* evictions never lead a request into a batch of another key.              *)
(***************************************************************************)
THEOREM BatchesAreIsolated == Spec => []KeyIsolation
BY InitIsolation, NextKey, KeyInvIsolates, PTL DEF Spec

-----------------------------------------------------------------------------
(* A call fails with BatcherClosed for two evicted batchers only.           *)

Closed == {"remove", "done"}

\* The first channel of a call that goes on to a second one is closed and has
\* left the map, where it cannot come back: insertions are of new channels.
RetryOf(r) ==
    /\ handler[r] = "remove" => task[Held(r)] \in Closed
    /\ handler[r] = "enqueue" /\ Len(tried[r]) = 1 =>
          task[tried[r][1]] \in Closed /\ entry[BatchKey(r)] # tried[r][1]
    /\ Len(tried[r]) = 2 =>
          task[tried[r][1]] \in Closed /\ tried[r][1] # tried[r][2]
    /\ handler[r] = "batcher_closed" =>
          Len(tried[r]) = 2 /\ task[tried[r][2]] \in Closed

RetryInv == \A r \in Requests : RetryOf(r)

ClosedInv == MapInv /\ RetryInv

\* The channels a call has tried exist, and are two at most.
LEMMA TriedType ==
    ASSUME MapInv, NEW r \in Requests
    PROVE  /\ Len(tried[r]) \in 0 .. 2
           /\ \A i \in 1 .. Len(tried[r]) :
                 tried[r][i] \in Chans /\ task[tried[r][i]] # "unborn"
<1>1. tried[r] \in Seq(Chans)
  BY DEF MapInv, TypeInv, TypeOK
<1>2. PICK n \in Nat : n = Len(tried[r])
  BY <1>1, LenProperties
<1>3. n <= 2
  BY <1>2 DEF MapInv, TypeInv, LoopInv
<1>4. n \in 0 .. 2
  BY <1>3
<1>5. \A i \in 1 .. n : tried[r][i] \in Chans
  BY <1>1, <1>2, ElementOfSeq
<1>6. \A i \in 1 .. n : task[tried[r][i]] # "unborn"
  BY <1>2 DEF MapInv, BornInv
<1> QED
  BY <1>2, <1>4, <1>5, <1>6

\* One request's part of RetryInv depends on its call, on the state of the
\* channels it tried and on its key's entry only.
LEMMA RetryKept ==
    ASSUME ClosedInv, NEW r \in Requests,
           handler'[r] = handler[r], tried'[r] = tried[r],
           \A c \in Chans : task[c] \in Closed => task'[c] \in Closed,
           \/ entry'[BatchKey(r)] = entry[BatchKey(r)]
           \/ entry'[BatchKey(r)] = NoChan
           \/ task[entry'[BatchKey(r)]] = "unborn"
    PROVE  RetryOf(r)'
<1> DEFINE n == Len(tried[r])
<1>0. MapInv /\ RetryOf(r)
  BY DEF ClosedInv, RetryInv
<1>1. /\ n \in 0 .. 2
      /\ \A i \in 1 .. n : tried[r][i] \in Chans /\ task[tried[r][i]] # "unborn"
  BY <1>0, TriedType
<1>2. handler'[r] = "remove" => task'[Held(r)'] \in Closed
  <2>1. handler[r] = "remove" => Held(r) \in Chans
    BY <1>0, HeldType DEF MapInv
  <2> QED
    BY <1>0, <2>1 DEF RetryOf, Held
<1>3. handler'[r] = "enqueue" /\ Len(tried'[r]) = 1 =>
          task'[tried'[r][1]] \in Closed /\ entry'[BatchKey(r)] # tried'[r][1]
  <2> SUFFICES ASSUME handler[r] = "enqueue", n = 1
               PROVE  task'[tried[r][1]] \in Closed /\ entry'[BatchKey(r)] # tried[r][1]
    OBVIOUS
  <2>1. tried[r][1] \in Chans /\ task[tried[r][1]] # "unborn"
    BY <1>1
  <2> QED
    BY <1>0, <2>1, NoChanAssumption DEF RetryOf
<1>4. Len(tried'[r]) = 2 => task'[tried'[r][1]] \in Closed /\ tried'[r][1] # tried'[r][2]
  BY <1>0, <1>1 DEF RetryOf
<1>5. handler'[r] = "batcher_closed" => Len(tried'[r]) = 2 /\ task'[tried'[r][2]] \in Closed
  BY <1>0, <1>1 DEF RetryOf
<1> QED
  BY <1>2, <1>3, <1>4, <1>5 DEF RetryOf

LEMMA EnqueueRetry ==
    ASSUME ClosedInv, NEW r \in Requests, Enqueue(r)
    PROVE  RetryInv'
<1> USE DEF ClosedInv
<1>0. /\ MapInv /\ RetryOf(r) /\ TypeInv
      /\ tried \in [Requests -> Seq(Chans)]
      /\ handler \in [Requests -> HandlerStates]
      /\ task \in [Chans -> TaskStates]
      /\ entry \in [BatchKeys -> Chans \cup {NoChan}]
      /\ BatchKey(r) \in BatchKeys
  BY KeyTypes DEF RetryInv, MapInv, TypeInv, TypeOK
<1>1. ASSUME NEW q \in Requests, q # r
      PROVE  RetryOf(q)'
  <2>1. handler'[q] = handler[q] /\ tried'[q] = tried[q]
    BY <1>0, <1>1 DEF Enqueue, LookupOccupied, LookupVacant, TrySend, TrySendFull,
                      TrySendClosed, RemoveClosed
  <2>2. CASE LookupVacant(r)
    <3>1. PICK n \in 1 .. 2 : n = Len(tried[r]) + 1
      BY <1>0, <2>2, LenProperties DEF LookupVacant, TypeInv, LoopInv
    <3>2. PICK c \in Chans : c = <<r, n>> /\ c[1] = r /\ c[2] = n
      BY KeyTypes DEF Chans
    <3>3. entry' = [entry EXCEPT ![BatchKey(r)] = c] /\ task' = [task EXCEPT ![c] = "recv"]
      BY <2>2, <3>1, <3>2 DEF LookupVacant
    <3>4. task[c] = "unborn"
      <4>1. PICK m \in Nat : m = Len(tried[r]) /\ n = m + 1
        BY <1>0, <3>1, LenProperties
      <4> QED
        BY <1>0, <3>2, <4>1 DEF MapInv, BornInv
    <3>5. \A d \in Chans : task[d] \in Closed => task'[d] \in Closed
      BY <1>0, <3>3, <3>4 DEF Closed
    <3>6. entry'[BatchKey(q)] = entry[BatchKey(q)] \/ task[entry'[BatchKey(q)]] = "unborn"
      BY <1>0, <3>3, <3>4, KeyTypes
    <3> QED
      BY <2>1, <3>5, <3>6, RetryKept
  <2>3. CASE RemoveClosed(r)
    <3>1. task' = task
      BY <2>3 DEF RemoveClosed
    <3>2. entry'[BatchKey(q)] = entry[BatchKey(q)] \/ entry'[BatchKey(q)] = NoChan
      BY <1>0, <2>3, KeyTypes DEF RemoveClosed
    <3> QED
      BY <2>1, <3>1, <3>2, RetryKept
  <2>4. CASE UNCHANGED <<task, entry>>
    BY <2>1, <2>4, RetryKept
  <2> QED
    BY <2>2, <2>3, <2>4
       DEF Enqueue, LookupOccupied, TrySend, TrySendFull, TrySendClosed
<1>2. RetryOf(r)'
  <2>1. CASE TrySend(r) \/ TrySendFull(r)
    BY <1>0, <2>1 DEF TrySend, TrySendFull, RetryOf, HandlerStates
  <2>2. CASE TrySendClosed(r)
    <3>1. Held(r) \in Chans /\ task[Held(r)] # "unborn"
      <4>1. PICK n \in 1 .. 2 : n = Len(tried[r]) /\ Held(r) \in Chans
        BY <1>0, <2>2, HeldType DEF TrySendClosed
      <4>2. n \in 1 .. Len(tried[r])
        BY <4>1
      <4> QED
        BY <1>0, <4>1, <4>2, TriedType DEF Held
    <3>2. task[Held(r)] \in Closed
      BY <1>0, <2>2, <3>1 DEF TrySendClosed, IsOpen, Closed, TaskStates
    <3> QED
      BY <1>0, <2>2, <3>2 DEF TrySendClosed, RetryOf, Held
  <2>3. CASE RemoveClosed(r)
    <3>1. Len(tried[r]) \in 1 .. 2 /\ Held(r) \in Chans /\ task[Held(r)] \in Closed
      BY <1>0, <2>3, HeldType DEF RemoveClosed, RetryOf
    <3>2. entry'[BatchKey(r)] = NoChan /\ task' = task /\ tried' = tried
      BY <1>0, <2>3 DEF RemoveClosed
    <3>3. handler'[r] = IF Len(tried[r]) < 2 THEN "enqueue" ELSE "batcher_closed"
      BY <1>0, <2>3 DEF RemoveClosed
    <3>4. CASE Len(tried[r]) = 1
      BY <1>0, <3>1, <3>2, <3>3, <3>4, NoChanAssumption DEF RetryOf, Held
    <3>5. CASE Len(tried[r]) = 2
      BY <1>0, <3>1, <3>2, <3>3, <3>5 DEF RetryOf, Held
    <3> QED
      BY <3>1, <3>4, <3>5
  <2>4. CASE LookupOccupied(r) \/ LookupVacant(r)
    <3>1. PICK m \in 0 .. 1 : m = Len(tried[r])
      <4>1. PICK k \in Nat : k = Len(tried[r])
        BY <1>0, LenProperties
      <4>2. k <= 1
        BY <1>0, <2>4, <4>1 DEF TypeInv, LoopInv, LookupOccupied, LookupVacant
      <4>3. k \in 0 .. 1
        BY <4>2
      <4> QED
        BY <4>1, <4>3
    <3>2. PICK c \in Chans :
             /\ tried' = [tried EXCEPT ![r] = Append(@, c)]
             /\ handler' = [handler EXCEPT ![r] = "send"]
             /\ m = 1 => c # tried[r][1]
             /\ \A d \in Chans : task[d] \in Closed => task'[d] \in Closed
      <4>1. CASE LookupOccupied(r)
        BY <1>0, <3>1, <4>1 DEF LookupOccupied, RetryOf
      <4>2. CASE LookupVacant(r)
        <5>1. PICK c \in Chans : c = <<r, m + 1>> /\ c[1] = r /\ c[2] = m + 1
          <6>1. m + 1 \in 1 .. 2
            OBVIOUS
          <6> QED
            BY <6>1, KeyTypes DEF Chans
        <5>2. task[c] = "unborn"
          BY <1>0, <3>1, <5>1 DEF MapInv, BornInv
        <5>3. m = 1 => c # tried[r][1]
          <6> SUFFICES ASSUME m = 1 PROVE c # tried[r][1]
            OBVIOUS
          <6>1. Len(tried[r]) = 1 /\ 1 \in 1 .. Len(tried[r])
            BY <3>1
          <6> QED
            BY <1>0, <5>2, <6>1, TriedType
        <5> QED
          BY <1>0, <3>1, <4>2, <5>1, <5>2, <5>3 DEF LookupVacant, Closed
      <4> QED
        BY <2>4, <4>1, <4>2
    <3>3. /\ Len(tried'[r]) = m + 1
          /\ tried'[r][m + 1] = c
          /\ m = 1 => tried'[r][1] = tried[r][1]
      BY <1>0, <3>1, <3>2, AppendElems
    <3>4. m = 1 => tried[r][1] \in Chans /\ task[tried[r][1]] \in Closed
      <4> SUFFICES ASSUME m = 1
                   PROVE  tried[r][1] \in Chans /\ task[tried[r][1]] \in Closed
        OBVIOUS
      <4>1. 1 \in 1 .. Len(tried[r]) /\ Len(tried[r]) = 1
        BY <3>1
      <4>2. handler[r] = "enqueue"
        BY <2>4 DEF LookupOccupied, LookupVacant
      <4> QED
        BY <1>0, <4>1, <4>2, TriedType DEF RetryOf
    <3>5. handler'[r] = "send"
      BY <1>0, <3>2
    <3> QED
      BY <3>1, <3>2, <3>3, <3>4, <3>5 DEF RetryOf
  <2> QED
    BY <2>1, <2>2, <2>3, <2>4 DEF Enqueue
<1> QED
  BY <1>1, <1>2 DEF RetryInv

LEMMA BatcherRetry ==
    ASSUME ClosedInv, NEW c \in Chans, Batcher(c)
    PROVE  RetryInv'
<1>1. TypeInv
  BY DEF ClosedInv, MapInv
<1>2. \A d \in Chans : task[d] \in Closed => task'[d] \in Closed
  BY <1>1, BatcherMoveKeeps DEF Closed
<1>3. ASSUME NEW r \in Requests
      PROVE  entry'[BatchKey(r)] = entry[BatchKey(r)] \/ entry'[BatchKey(r)] = NoChan
  BY <1>1, BatcherMoveKeeps, KeyTypes DEF RemoveSelf, TypeInv, TypeOK
<1> QED
  BY <1>1, <1>2, <1>3, BatcherMoveKeeps, RetryKept DEF RetryInv

LEMMA NextRetry == ClosedInv /\ [Next]_vars => ClosedInv'
<1> SUFFICES ASSUME ClosedInv, [Next]_vars PROVE ClosedInv'
  OBVIOUS
<1>1. MapInv'
  BY NextMap DEF ClosedInv
<1>2. CASE UNCHANGED vars
  BY <1>1, <1>2 DEF vars, ClosedInv, RetryInv, RetryOf, Held
<1>3. CASE Quiescent
  BY <1>2, <1>3 DEF Quiescent
<1> QED
  BY <1>1, <1>2, <1>3, EnqueueRetry, BatcherRetry DEF Next, ClosedInv

(***************************************************************************)
(* EnqueueError::BatcherClosed (a 429) is the answer of a call that met two *)
(* different batchers of its key after each had dropped its receiver.       *)
(***************************************************************************)
THEOREM ClosedAfterTwoEvictions == Spec => []ClosedMeansTwoEvictions
<1>1. Init => ClosedInv
  BY InitMap DEF Init, ClosedInv, RetryInv, RetryOf
<1>2. ClosedInv => ClosedMeansTwoEvictions
  <2> SUFFICES ASSUME ClosedInv, NEW r \in Requests, handler[r] = "batcher_closed"
               PROVE  /\ Len(tried[r]) = 2
                      /\ tried[r][1] # tried[r][2]
                      /\ \A i \in 1 .. 2 : task[tried[r][i]] \in {"remove", "done"}
    BY DEF ClosedMeansTwoEvictions
  <2>1. /\ Len(tried[r]) = 2
        /\ tried[r][1] # tried[r][2]
        /\ task[tried[r][1]] \in Closed
        /\ task[tried[r][2]] \in Closed
    BY DEF ClosedInv, RetryInv, RetryOf
  <2> QED
    BY <2>1 DEF Closed
<1> QED
  BY <1>1, <1>2, NextRetry, PTL DEF Spec

-----------------------------------------------------------------------------
(* Where requests are.                                                      *)

CustodyInv == TypeInv /\ Custody

\* Cutting the first n off a sequence cuts its elements in two.
LEMMA CutElems ==
    ASSUME NEW S, NEW s \in Seq(S), NEW n \in 1 .. Len(s)
    PROVE  LET rest == SubSeq(s, n + 1, Len(s))
               part == {s[i] : i \in 1 .. n}
           IN /\ rest \in Seq(S) /\ Len(rest) = Len(s) - n
              /\ Range(s) = part \cup Range(rest)
              /\ IsInjective(s) => IsInjective(rest) /\ part \cap Range(rest) = {}
<1> DEFINE rest == SubSeq(s, n + 1, Len(s))
           part == {s[i] : i \in 1 .. n}
<1>1. PICK m \in Nat : m = Len(s) /\ DOMAIN s = 1 .. m
  BY LenProperties
<1>2. /\ rest \in Seq(S) /\ Len(rest) = m - n
      /\ \A i \in 1 .. m - n : rest[i] = s[n + i]
  BY <1>1, RestIsSeq
<1>3. DOMAIN rest = 1 .. m - n
  BY <1>2, LenProperties
<1>4. /\ \A i \in 1 .. n : i \in 1 .. m
      /\ \A i \in 1 .. m - n : n + i \in 1 .. m
      /\ \A i \in 1 .. m : i \in 1 .. n \/ (i - n \in 1 .. m - n /\ n + (i - n) = i)
      /\ \A i \in 1 .. n : \A k \in 1 .. m - n : i # n + k
      /\ \A i, k \in 1 .. m - n : n + i = n + k => i = k
  BY <1>1
<1>5. Range(s) = part \cup Range(rest)
  <2>1. \A i \in 1 .. m : s[i] \in part \cup Range(rest)
    <3> SUFFICES ASSUME NEW i \in 1 .. m, i \notin 1 .. n PROVE s[i] \in Range(rest)
      OBVIOUS
    <3>1. i - n \in 1 .. m - n /\ rest[i - n] = s[i]
      BY <1>2, <1>4
    <3> QED
      BY <1>3, <3>1 DEF Range
  <2>2. part \subseteq Range(s)
    BY <1>1, <1>4 DEF Range
  <2>3. Range(rest) \subseteq Range(s)
    BY <1>1, <1>2, <1>3, <1>4 DEF Range
  <2>4. Range(s) \subseteq part \cup Range(rest)
    BY <1>1, <2>1 DEF Range
  <2> QED
    BY <2>2, <2>3, <2>4
<1>6. ASSUME IsInjective(s)
      PROVE  IsInjective(rest) /\ part \cap Range(rest) = {}
  <2>1. \A i, k \in 1 .. m : s[i] = s[k] => i = k
    BY <1>1, <1>6 DEF IsInjective
  <2>2. ASSUME NEW i \in 1 .. m - n, NEW k \in 1 .. m - n, rest[i] = rest[k]
        PROVE  i = k
    <3>1. s[n + i] = s[n + k] /\ n + i \in 1 .. m /\ n + k \in 1 .. m
      BY <1>2, <1>4, <2>2
    <3>2. n + i = n + k
      BY <2>1, <3>1
    <3> QED
      BY <1>4, <3>2
  <2>3. ASSUME NEW i \in 1 .. n, NEW k \in 1 .. m - n
        PROVE  s[i] # rest[k]
    <3>1. i \in 1 .. m /\ n + k \in 1 .. m /\ i # n + k /\ rest[k] = s[n + k]
      BY <1>2, <1>4
    <3> QED
      BY <2>1, <3>1
  <2>4. IsInjective(rest)
    BY <1>3, <2>2 DEF IsInjective
  <2>5. part \cap Range(rest) = {}
    BY <1>3, <2>3 DEF Range
  <2> QED
    BY <2>4, <2>5
<1> QED
  BY <1>1, <1>2, <1>5, <1>6

\* Steps that move no request keep them where they are.
LEMMA NothingMoves ==
    ASSUME CustodyInv, UNCHANGED <<queue, batch, handed, lost>>,
           \A r \in Requests : handler'[r] = "accepted" <=> handler[r] = "accepted"
    PROVE  Custody'
BY DEF CustodyInv, Custody, Waiting

LEMMA EnqueueCustody ==
    ASSUME CustodyInv, NEW r \in Requests, Enqueue(r)
    PROVE  Custody'
<1> USE DEF CustodyInv, TypeInv, TypeOK
<1>1. CASE TrySend(r)
  <2> DEFINE h == Held(r)
  <2>1. h \in Chans
    BY <1>1, HeldType DEF TrySend
  <2>2. /\ ~Waiting(r) /\ r \notin handed \cup lost
        /\ UNCHANGED <<batch, handed, lost>>
        /\ handler' = [handler EXCEPT ![r] = "accepted"]
    BY <1>1 DEF TrySend, Custody
  <2>3. /\ queue'[h] = Append(queue[h], r)
        /\ \A c \in Chans : c # h => queue'[c] = queue[c]
    BY <1>1, <2>1 DEF TrySend
  <2>4. r \notin Range(queue[h]) /\ \A c \in Chans : r \notin Range(queue[c]) \cup Range(batch[c])
    BY <2>1, <2>2 DEF Waiting
  <2>5. Range(queue'[h]) = Range(queue[h]) \cup {r} /\ IsInjective(queue'[h])
    BY <2>1, <2>3, <2>4, RangeOfAppend, AppendInjects DEF Custody
  <2>6. \A q \in Requests : Waiting(q)' <=> q = r \/ Waiting(q)
    BY <2>1, <2>2, <2>3, <2>5 DEF Waiting
  <2>7. /\ \A q \in Requests : handler'[q] = "accepted" <=> Waiting(q)' \/ q \in handed' \cup lost'
        /\ \A q \in Requests : Waiting(q)' => q \notin handed' \cup lost'
        /\ handed' \cap lost' = {}
    BY <2>2, <2>6 DEF Custody
  <2>8. \A c, d \in Chans : c # d =>
            (Range(queue'[c]) \cup Range(batch'[c])) \cap (Range(queue'[d]) \cup Range(batch'[d])) = {}
    <3> DEFINE Stock(d) == Range(queue[d]) \cup Range(batch[d])
               After(d) == Range(queue'[d]) \cup Range(batch'[d])
    <3>1. /\ After(h) = Stock(h) \cup {r}
          /\ \A d \in Chans : d # h => After(d) = Stock(d)
          /\ \A d \in Chans : r \notin Stock(d)
      BY <2>1, <2>2, <2>3, <2>4, <2>5
    <3>2. \A c, d \in Chans : c # d => Stock(c) \cap Stock(d) = {}
      BY DEF Custody
    <3> HIDE DEF Stock, After, h, CustodyInv
    <3>3. \A c, d \in Chans : c # d => After(c) \cap After(d) = {}
      BY ONLY <2>1, <3>1, <3>2
    <3> QED
      BY ONLY <3>3 DEF After
  <2>9. ASSUME NEW c \in Chans
        PROVE  /\ Range(queue'[c]) \cap Range(batch'[c]) = {}
               /\ IsInjective(queue'[c]) /\ IsInjective(batch'[c])
    <3>1. /\ Range(queue[c]) \cap Range(batch[c]) = {} /\ batch'[c] = batch[c]
          /\ IsInjective(queue[c]) /\ IsInjective(batch[c])
      BY <2>2 DEF Custody
    <3>2. r \notin Range(batch[c])
      BY <2>4
    <3> HIDE DEF h, CustodyInv
    <3>3. CASE c = h
      BY ONLY <2>5, <3>1, <3>2, <3>3
    <3>4. CASE c # h
      BY ONLY <2>3, <3>1, <3>4, c \in Chans
    <3> QED
      BY ONLY <3>3, <3>4
  <2> QED
    BY <2>7, <2>8, <2>9 DEF Custody
<1>2. CASE LookupOccupied(r)
  BY <1>2, NothingMoves DEF LookupOccupied
<1>3. CASE LookupVacant(r)
  BY <1>3, NothingMoves DEF LookupVacant
<1>4. CASE TrySendFull(r)
  BY <1>4, NothingMoves DEF TrySendFull
<1>5. CASE TrySendClosed(r)
  BY <1>5, NothingMoves DEF TrySendClosed
<1>6. CASE RemoveClosed(r)
  BY <1>6, NothingMoves DEF RemoveClosed
<1> QED
  BY <1>1, <1>2, <1>3, <1>4, <1>5, <1>6 DEF Enqueue

(***************************************************************************)
(* A batcher task moves requests of its own within it, or out of it.        *)
(***************************************************************************)
LEMMA OwnMoves ==
    ASSUME CustodyInv, NEW c \in Chans, NEW out, NEW h, NEW l,
           UNCHANGED handler,
           \A d \in Chans : d # c => queue'[d] = queue[d] /\ batch'[d] = batch[d],
           Range(queue'[c]) \cup Range(batch'[c]) \cup out = Range(queue[c]) \cup Range(batch[c]),
           out \cap (Range(queue'[c]) \cup Range(batch'[c])) = {},
           Range(queue'[c]) \cap Range(batch'[c]) = {},
           IsInjective(queue'[c]), IsInjective(batch'[c]),
           handed' = handed \cup h, lost' = lost \cup l, h \cup l = out, h \cap l = {}
    PROVE  Custody'
<1> USE DEF CustodyInv
<1> DEFINE Stock(d) == Range(queue[d]) \cup Range(batch[d])
           After(d) == Range(queue'[d]) \cup Range(batch'[d])
<1>1. /\ \A d \in Chans : d # c => After(d) = Stock(d)
      /\ After(c) \cup out = Stock(c) /\ out \cap After(c) = {}
  OBVIOUS
<1>2. /\ \A r \in Requests : Waiting(r) <=> \E d \in Chans : r \in Stock(d)
      /\ \A r \in Requests : Waiting(r)' <=> \E d \in Chans : r \in After(d)
  BY DEF Waiting
<1>3. \A d, e \in Chans : d # e => Stock(d) \cap Stock(e) = {}
  BY DEF Custody
<1>4. \A d, e \in Chans : d # e => After(d) \cap After(e) = {}
  BY <1>1, <1>3
<1>5. \A r \in Requests : Waiting(r) <=> Waiting(r)' \/ r \in out
  BY <1>1, <1>2
<1>6. \A r \in Requests : Waiting(r)' => r \notin out
  BY <1>1, <1>2, <1>3
<1>7. \A r \in out : r \in Range(queue[c]) \cup Range(batch[c])
  OBVIOUS
<1>8. /\ \A r \in Requests : handler'[r] = "accepted" <=> Waiting(r)' \/ r \in handed' \cup lost'
      /\ \A r \in Requests : Waiting(r)' => r \notin handed' \cup lost'
  BY <1>5, <1>6 DEF Custody
<1>9. handed' \cap lost' = {}
  <2>1. \A r \in out : r \in Requests
    <3>1. queue[c] \in Seq(Requests) /\ batch[c] \in Seq(Requests)
      BY DEF TypeInv, TypeOK
    <3>2. Range(queue[c]) \subseteq Requests /\ Range(batch[c]) \subseteq Requests
      BY <3>1 DEF Range
    <3> QED
      BY <1>7, <3>2
  <2>2. \A r \in out : Waiting(r)
    BY <1>1, <1>2, <2>1
  <2>3. \A r \in out : r \notin handed \cup lost
    BY <2>1, <2>2 DEF Custody
  <2> QED
    BY <2>3 DEF Custody
<1>10. \A d \in Chans : /\ Range(queue'[d]) \cap Range(batch'[d]) = {}
                        /\ IsInjective(queue'[d])
                        /\ IsInjective(batch'[d])
  BY DEF Custody
<1> QED
  BY <1>4, <1>8, <1>9, <1>10 DEF Custody

LEMMA BatcherCustody ==
    ASSUME CustodyInv, NEW c \in Chans, Batcher(c)
    PROVE  Custody'
<1> USE DEF CustodyInv, TypeInv, TypeOK
<1>1. /\ Range(queue[c]) \cap Range(batch[c]) = {}
      /\ IsInjective(queue[c]) /\ IsInjective(batch[c])
      /\ queue[c] \in Seq(Requests) /\ batch[c] \in Seq(Requests)
  BY DEF Custody
<1>2. CASE queue[c] # <<>> /\ Receive(c)
  <2> DEFINE first == Head(queue[c])
  <2>1. /\ queue'[c] = Tail(queue[c]) /\ batch'[c] = Append(batch[c], first)
        /\ \A d \in Chans : d # c => queue'[d] = queue[d] /\ batch'[d] = batch[d]
        /\ UNCHANGED <<handler, handed, lost>>
    BY <1>2 DEF Receive
  <2>2. /\ Range(queue[c]) = Range(Tail(queue[c])) \cup {first} /\ first \in Requests
        /\ IsInjective(Tail(queue[c])) /\ first \notin Range(Tail(queue[c]))
    BY <1>1, <1>2, RangeOfTail, TailElems
  <2>3. first \notin Range(batch[c])
    BY <1>1, <2>2
  <2>4. Range(batch'[c]) = Range(batch[c]) \cup {first} /\ IsInjective(batch'[c])
    BY <1>1, <2>1, <2>2, <2>3, RangeOfAppend, AppendInjects
  <2> DEFINE none == {}
  <2>5. /\ Range(queue'[c]) \cup Range(batch'[c]) \cup none = Range(queue[c]) \cup Range(batch[c])
        /\ Range(queue'[c]) \cap Range(batch'[c]) = {}
        /\ handed' = handed \cup none /\ lost' = lost \cup none
        /\ none \cap (Range(queue'[c]) \cup Range(batch'[c])) = {}
        /\ none \cup none = none /\ none \cap none = {}
        /\ IsInjective(queue'[c]) /\ IsInjective(batch'[c])
    BY <1>1, <2>1, <2>2, <2>3, <2>4
  <2>6. /\ \A d \in Chans : d # c => queue'[d] = queue[d] /\ batch'[d] = batch[d]
        /\ UNCHANGED handler
    BY <2>1
  <2> HIDE DEF none
  <2> QED
    BY <2>5, <2>6, OwnMoves
<1>3. CASE \E state \in TaskStates : Goto(c, state)
  BY <1>3, NothingMoves DEF Goto
<1>4. ASSUME NEW n \in 1 .. Len(batch[c]), FlushPart(c, n) PROVE Custody'
  <2> DEFINE rest == SubSeq(batch[c], n + 1, Len(batch[c]))
             part == {batch[c][i] : i \in 1 .. n}
  <2>1. /\ Range(batch[c]) = part \cup Range(rest)
        /\ IsInjective(rest) /\ part \cap Range(rest) = {}
    BY <1>1, CutElems
  <2>2. /\ queue' = queue /\ batch'[c] = rest
        /\ \A d \in Chans : d # c => batch'[d] = batch[d]
        /\ UNCHANGED <<handler, lost>> /\ handed' = handed \cup part
    BY <1>4 DEF FlushPart
  <2> DEFINE none == {}
  <2>3. /\ Range(queue'[c]) \cup Range(batch'[c]) \cup part = Range(queue[c]) \cup Range(batch[c])
        /\ part \cap (Range(queue'[c]) \cup Range(batch'[c])) = {}
        /\ Range(queue'[c]) \cap Range(batch'[c]) = {}
        /\ IsInjective(queue'[c]) /\ IsInjective(batch'[c])
        /\ lost' = lost \cup none /\ part \cup none = part /\ part \cap none = {}
    BY <1>1, <2>1, <2>2
  <2>4. \A d \in Chans : d # c => queue'[d] = queue[d] /\ batch'[d] = batch[d]
    BY <2>2
  <2> HIDE DEF part, rest, none
  <2> QED
    BY <2>2, <2>3, <2>4, OwnMoves
<1>5. CASE DropReceiver(c)
  <2>1. /\ batch' = batch /\ queue'[c] = <<>>
        /\ \A d \in Chans : d # c => queue'[d] = queue[d] /\ batch'[d] = batch[d]
        /\ UNCHANGED <<handler, handed>> /\ lost' = lost \cup Range(queue[c])
    BY <1>5 DEF DropReceiver
  <2>2. Range(<<>>) = {} /\ IsInjective(<<>>)
    BY DEF Range, IsInjective
  <2> DEFINE none == {}
             out == Range(queue[c])
  <2>3. /\ Range(queue'[c]) \cup Range(batch'[c]) \cup out = Range(queue[c]) \cup Range(batch[c])
        /\ out \cap (Range(queue'[c]) \cup Range(batch'[c])) = {}
        /\ Range(queue'[c]) \cap Range(batch'[c]) = {}
        /\ IsInjective(queue'[c]) /\ IsInjective(batch'[c])
        /\ handed' = handed \cup none /\ lost' = lost \cup out
        /\ none \cup out = out /\ none \cap out = {}
    BY <1>1, <2>1, <2>2
  <2> HIDE DEF none, out
  <2> QED
    BY <2>1, <2>3, OwnMoves
<1>6. CASE RemoveSelf(c)
  BY <1>6, NothingMoves DEF RemoveSelf
<1> QED
  BY <1>2, <1>3, <1>4, <1>5, <1>6
     DEF Batcher, ReceiveFirst, ReceiveMore, IdleExpires, RecvDisconnected,
         WindowExpires, CollectDisconnected, TaskStates

LEMMA InitCustody == Init => CustodyInv
<1> SUFFICES ASSUME Init PROVE Custody
  BY InitType DEF CustodyInv
<1>1. \A c \in Chans : queue[c] = <<>> /\ batch[c] = <<>>
  BY DEF Init
<1>2. Range(<<>>) = {} /\ IsInjective(<<>>)
  BY DEF Range, IsInjective
<1>3. \A r \in Requests : ~Waiting(r)
  BY <1>1, <1>2 DEF Waiting
<1> QED
  BY <1>1, <1>2, <1>3 DEF Init, Custody

LEMMA NextCustody == CustodyInv /\ [Next]_vars => CustodyInv'
<1> SUFFICES ASSUME CustodyInv, [Next]_vars PROVE CustodyInv'
  OBVIOUS
<1>1. TypeInv'
  BY NextType DEF CustodyInv
<1>2. CASE UNCHANGED vars
  BY <1>1, <1>2, NothingMoves DEF vars, CustodyInv
<1>3. CASE Quiescent
  BY <1>2, <1>3 DEF Quiescent
<1> QED
  BY <1>1, <1>2, <1>3, EnqueueCustody, BatcherCustody DEF Next, CustodyInv

(***************************************************************************)
(* A request that enqueue accepted is in one place, once, until its batch   *)
(* is handed over or its channel is dropped, and one that it refused is in  *)
(* none.                                                                    *)
(***************************************************************************)
THEOREM RequestsAreInOnePlace == Spec => []Custody
<1>1. CustodyInv => Custody
  BY DEF CustodyInv
<1> QED
  BY <1>1, InitCustody, NextCustody, PTL DEF Spec

-----------------------------------------------------------------------------
(* Queues and batches at their limits.                                      *)

\* Beyond Bounds: a task that collects has room for one more request, and a
\* channel that is yet to be inserted has no batch either.
RoomOf(c) ==
    /\ Len(queue[c]) <= QueueDepth
    /\ Len(batch[c]) <= BatchLimit(c)
    /\ task[c] = "collect" => Len(batch[c]) < BatchLimit(c)
    /\ task[c] \in {"unborn", "recv", "evict", "remove", "done"} => batch[c] = <<>>
    /\ task[c] \in {"unborn", "remove", "done"} => queue[c] = <<>>

RoomInv == MapInv /\ \A c \in Chans : RoomOf(c)

LEMMA LimitType == \A c \in Chans : BatchLimit(c) \in Nat /\ BatchLimit(c) >= 1
<1> SUFFICES ASSUME NEW c \in Chans PROVE BatchLimit(c) \in Nat \ {0}
  OBVIOUS
<1>1. KeyOf(c).op \in Ops
  BY KeyTypes DEF BatchKeys
<1> QED
  BY <1>1, SizeAssumption DEF BatchLimit

\* A channel that a step leaves alone stays within its limits.
LEMMA RoomKept ==
    ASSUME NEW c \in Chans, RoomOf(c),
           queue'[c] = queue[c], batch'[c] = batch[c], task'[c] = task[c]
    PROVE  RoomOf(c)'
BY DEF RoomOf, BatchLimit, KeyOf, BatchKey, SeenKey

LEMMA EnqueueRoom ==
    ASSUME RoomInv, NEW r \in Requests, Enqueue(r), NEW c \in Chans
    PROVE  RoomOf(c)'
<1>1. /\ TypeInv /\ RoomOf(c)
      /\ queue \in [Chans -> Seq(Requests)] /\ task \in [Chans -> TaskStates]
      /\ queue[c] \in Seq(Requests)
  BY DEF RoomInv, MapInv, TypeInv, TypeOK
<1>2. CASE UNCHANGED <<queue, batch, task>>
  BY <1>1, <1>2, RoomKept
<1>3. CASE LookupVacant(r)
  <2>1. PICK n \in 1 .. 2 : n = Len(tried[r]) + 1
    BY <1>1, <1>3, LenProperties DEF LookupVacant, TypeInv, TypeOK, LoopInv
  <2>2. PICK d \in Chans : d = <<r, n>> /\ d[1] = r /\ d[2] = n
    BY KeyTypes DEF Chans
  <2>3. task[d] = "unborn"
    <3>1. tried[r] \in Seq(Chans)
      BY <1>1 DEF TypeInv, TypeOK
    <3>2. ~(Len(tried[r]) >= n)
      BY <2>1, <3>1, LenProperties
    <3> QED
      BY <2>2, <3>2 DEF RoomInv, MapInv, BornInv
  <2>4. /\ task' = [task EXCEPT ![d] = "recv"]
        /\ UNCHANGED <<queue, batch>>
    BY <1>3, <2>1, <2>2 DEF LookupVacant
  <2>5. CASE c = d
    <3>1. task'[c] = "recv" /\ queue'[c] = <<>> /\ batch'[c] = <<>>
      BY <1>1, <2>3, <2>4, <2>5 DEF RoomOf
    <3>2. Len(<<>>) = 0 /\ BatchLimit(c) >= 0 /\ QueueDepth >= 0
      BY LimitType, SizeAssumption
    <3> QED
      BY <3>1, <3>2 DEF RoomOf, BatchLimit, KeyOf, BatchKey, SeenKey
  <2>6. CASE c # d
    BY <1>1, <2>4, <2>6, RoomKept
  <2> QED
    BY <2>5, <2>6
<1>4. CASE TrySend(r)
  <2>1. Held(r) \in Chans
    BY <1>1, <1>4, HeldType DEF TrySend
  <2>2. CASE c = Held(r)
    <3>1. /\ queue'[c] = Append(queue[c], r) /\ UNCHANGED <<batch, task>>
          /\ Len(queue[c]) < QueueDepth
          /\ task[c] \notin {"unborn", "remove", "done"}
      BY <1>1, <1>4, <2>1, <2>2 DEF TrySend, IsOpen
    <3>2. Len(Append(queue[c], r)) = Len(queue[c]) + 1
      BY <1>1, AppendElems
    <3>3. Len(queue'[c]) <= QueueDepth
      BY <1>1, <3>1, <3>2, SizeAssumption, LenProperties
    <3> QED
      BY <1>1, <3>1, <3>3 DEF RoomOf, BatchLimit, KeyOf, BatchKey, SeenKey
  <2>3. CASE c # Held(r)
    <3>1. queue'[c] = queue[c] /\ UNCHANGED <<batch, task>>
      BY <1>1, <1>4, <2>1, <2>3 DEF TrySend
    <3> QED
      BY <1>1, <3>1, RoomKept
  <2> QED
    BY <2>2, <2>3
<1> QED
  BY <1>2, <1>3, <1>4
     DEF Enqueue, LookupOccupied, TrySendFull, TrySendClosed, RemoveClosed

\* A task that takes a request into its batch had room for it.
LEMMA ReceiveRoom ==
    ASSUME TypeInv, NEW c \in Chans, RoomOf(c), Receive(c), queue[c] # <<>>,
           task[c] \in {"recv", "collect"}
    PROVE  RoomOf(c)'
<1>1. /\ queue[c] \in Seq(Requests) /\ batch[c] \in Seq(Requests)
      /\ queue'[c] = Tail(queue[c]) /\ batch'[c] = Append(batch[c], Head(queue[c]))
      /\ task'[c] = AfterPush(c, Len(batch[c]) + 1)
  BY DEF Receive, TypeInv, TypeOK
<1>2. PICK m \in Nat : m = Len(batch[c])
  BY <1>1, LenProperties
<1>3. PICK k \in Nat : k = BatchLimit(c) /\ k >= 1
  BY LimitType
<1>4. m + 1 <= k
  <2>1. CASE task[c] = "recv"
    BY <1>2, <1>3, <2>1 DEF RoomOf
  <2>2. CASE task[c] = "collect"
    BY <1>2, <1>3, <2>2 DEF RoomOf
  <2> QED
    BY <2>1, <2>2
<1>5. Len(batch'[c]) = m + 1
  BY <1>1, <1>2, AppendElems, TailElems
<1>6. Len(queue'[c]) <= QueueDepth
  <2>1. PICK n \in Nat : n = Len(queue[c]) /\ Len(Tail(queue[c])) = n - 1
    BY <1>1, LenProperties, TailElems
  <2> QED
    BY <1>1, <2>1, SizeAssumption DEF RoomOf
<1>7. \/ task'[c] = "flush"
      \/ task'[c] = "collect" /\ m + 1 < k
  BY <1>1, <1>2, <1>3 DEF AfterPush
<1> QED
  BY <1>3, <1>4, <1>5, <1>6, <1>7 DEF RoomOf, BatchLimit, KeyOf, BatchKey, SeenKey

\* A part that is flushed leaves a shorter batch, the last part none.
LEMMA FlushRoom ==
    ASSUME TypeInv, NEW c \in Chans, RoomOf(c),
           NEW n \in 1 .. Len(batch[c]), FlushPart(c, n)
    PROVE  RoomOf(c)'
<1> DEFINE rest == SubSeq(batch[c], n + 1, Len(batch[c]))
<1>1. /\ batch[c] \in Seq(Requests)
      /\ batch'[c] = rest /\ queue'[c] = queue[c]
      /\ rest # <<>> => task'[c] = task[c]
      /\ rest = <<>> => task'[c] \in {"recv", "evict"}
      /\ task[c] \in {"flush", "flush_last"}
  BY DEF FlushPart, TypeInv, TypeOK
<1>2. PICK m \in Nat : m = Len(batch[c])
  BY <1>1, LenProperties
<1>3. Len(rest) = m - n
  BY <1>1, <1>2, RestIsSeq
<1>4. PICK k \in Nat : k = BatchLimit(c) /\ m <= k
  BY <1>2, LimitType DEF RoomOf
<1> HIDE DEF rest
<1>5. Len(batch'[c]) <= k
  BY <1>1, <1>2, <1>3, <1>4
<1> QED
  BY <1>1, <1>4, <1>5 DEF RoomOf, BatchLimit, KeyOf, BatchKey, SeenKey

LEMMA BatcherRoom ==
    ASSUME RoomInv, NEW c \in Chans, Batcher(c), NEW d \in Chans
    PROVE  RoomOf(d)'
<1>1. /\ TypeInv /\ RoomOf(c) /\ RoomOf(d)
      /\ queue \in [Chans -> Seq(Requests)] /\ batch \in [Chans -> Seq(Requests)]
      /\ task \in [Chans -> TaskStates]
  BY DEF RoomInv, MapInv, TypeInv, TypeOK
<1>2. CASE d # c
  <2>1. queue'[d] = queue[d] /\ batch'[d] = batch[d] /\ task'[d] = task[d]
    BY <1>1, <1>2
       DEF Batcher, ReceiveFirst, ReceiveMore, Receive, IdleExpires, RecvDisconnected,
           WindowExpires, CollectDisconnected, Goto, FlushPart, DropReceiver, RemoveSelf
  <2> QED
    BY <1>1, <2>1, RoomKept
<1>3. CASE d = c
  <2>1. CASE ReceiveFirst(c) \/ ReceiveMore(c)
    BY <1>1, <1>3, <2>1, ReceiveRoom DEF ReceiveFirst, ReceiveMore
  <2>2. ASSUME NEW n \in 1 .. Len(batch[c]), FlushPart(c, n) PROVE RoomOf(d)'
    BY <1>1, <1>3, <2>2, FlushRoom
  <2>3. CASE IdleExpires(c) \/ RecvDisconnected(c)
    <3>1. task[c] = "recv" /\ task'[c] = "evict" /\ UNCHANGED <<queue, batch>>
      BY <1>1, <2>3 DEF IdleExpires, RecvDisconnected, Goto
    <3> QED
      BY <1>1, <1>3, <3>1 DEF RoomOf, BatchLimit, KeyOf, BatchKey, SeenKey
  <2>4. CASE WindowExpires(c) \/ CollectDisconnected(c)
    <3>1. task'[c] \in {"flush", "flush_last"} /\ UNCHANGED <<queue, batch>>
      BY <1>1, <2>4 DEF WindowExpires, CollectDisconnected, Goto
    <3> QED
      BY <1>1, <1>3, <3>1 DEF RoomOf, BatchLimit, KeyOf, BatchKey, SeenKey
  <2>5. CASE DropReceiver(c)
    <3>1. /\ task[c] = "evict" /\ task'[c] = "remove"
          /\ queue'[c] = <<>> /\ batch'[c] = batch[c]
      BY <1>1, <2>5 DEF DropReceiver
    <3>2. Len(<<>>) = 0 /\ QueueDepth >= 0
      BY SizeAssumption
    <3> QED
      BY <1>1, <1>3, <3>1, <3>2 DEF RoomOf, BatchLimit, KeyOf, BatchKey, SeenKey
  <2>6. CASE RemoveSelf(c)
    <3>1. task[c] = "remove" /\ task'[c] = "done" /\ UNCHANGED <<queue, batch>>
      BY <1>1, <2>6 DEF RemoveSelf
    <3> QED
      BY <1>1, <1>3, <3>1 DEF RoomOf, BatchLimit, KeyOf, BatchKey, SeenKey
  <2> QED
    BY <2>1, <2>2, <2>3, <2>4, <2>5, <2>6 DEF Batcher
<1> QED
  BY <1>2, <1>3

LEMMA InitRoom == Init => RoomInv
<1> SUFFICES ASSUME Init, NEW c \in Chans PROVE RoomOf(c)
  BY InitMap DEF RoomInv
<1>1. queue[c] = <<>> /\ batch[c] = <<>> /\ task[c] = "unborn"
  BY DEF Init
<1>2. Len(<<>>) = 0 /\ BatchLimit(c) >= 0 /\ QueueDepth >= 0
  BY LimitType, SizeAssumption
<1> QED
  BY <1>1, <1>2 DEF RoomOf

LEMMA NextRoom == RoomInv /\ [Next]_vars => RoomInv'
<1> SUFFICES ASSUME RoomInv, [Next]_vars PROVE RoomInv'
  OBVIOUS
<1>1. MapInv'
  BY NextMap DEF RoomInv
<1>2. CASE UNCHANGED vars
  BY <1>1, <1>2, RoomKept DEF vars, RoomInv
<1>3. CASE Quiescent
  BY <1>2, <1>3 DEF Quiescent
<1> QED
  BY <1>1, <1>2, <1>3, EnqueueRoom, BatcherRoom DEF Next, RoomInv

(***************************************************************************)
(* No channel ever holds more than max_queue_depth_per_key requests and no  *)
(* batch more than maxBatchSize, and a task that waits for a first request, *)
(* or has returned, keeps none back.                                        *)
(***************************************************************************)
THEOREM LimitsHold == Spec => []Bounds
<1>1. RoomInv => Bounds
  BY DEF RoomInv, RoomOf, Bounds
<1> QED
  BY <1>1, InitRoom, NextRoom, PTL DEF Spec

-----------------------------------------------------------------------------
(* The order in which a batcher serves its requests.                        *)

\* What ServedInOrder allows a step to do to the line of channel c.
Joins(c) == \E r \in Requests : Line(c)' = Append(Line(c), r)
Leaves(c) == \E n \in 1 .. Len(Line(c)) : Line(c)' = SubSeq(Line(c), n + 1, Len(Line(c)))

LEMMA EnqueueOrder ==
    ASSUME TypeInv, NEW r \in Requests, Enqueue(r), NEW c \in Chans, Line(c)' # Line(c)
    PROVE  Joins(c)
<1>1. queue[c] \in Seq(Requests) /\ batch[c] \in Seq(Requests)
  BY DEF TypeInv, TypeOK
<1>2. CASE TrySend(r) /\ Held(r) = c
  <2>1. queue'[c] = Append(queue[c], r) /\ batch'[c] = batch[c]
    BY <1>2 DEF TrySend, TypeInv, TypeOK
  <2>2. Line(c)' = Append(Line(c), r)
    <3>1. batch[c] \o Append(queue[c], r) = Append(batch[c] \o queue[c], r)
      <4>1. \A s, t \in Seq(Requests), e \in Requests : s \o Append(t, e) = Append(s \o t, e)
        BY AppendToConcat
      <4> QED
        BY <1>1, <4>1
    <3> QED
      BY <2>1, <3>1 DEF Line
  <2> QED
    BY <2>2 DEF Joins
<1>3. CASE ~(TrySend(r) /\ Held(r) = c)
  <2>1. queue'[c] = queue[c] /\ batch'[c] = batch[c]
    <3>1. CASE TrySend(r)
      BY <1>1, <1>3, <3>1 DEF TrySend, TypeInv, TypeOK
    <3>2. CASE ~TrySend(r)
      BY <3>2 DEF Enqueue, LookupOccupied, LookupVacant, TrySendFull, TrySendClosed, RemoveClosed
    <3> QED
      BY <3>1, <3>2
  <2> QED
    BY <2>1 DEF Line
<1> QED
  BY <1>2, <1>3

\* Dropping the receiver takes the whole line: the task holds no batch then.
LEMMA DropOrder ==
    ASSUME RoomInv, NEW c \in Chans, DropReceiver(c), Line(c)' # Line(c)
    PROVE  Leaves(c)
<1>1. /\ queue[c] \in Seq(Requests) /\ batch[c] \in Seq(Requests)
      /\ batch[c] = <<>> /\ batch'[c] = <<>> /\ queue'[c] = <<>>
  BY DEF DropReceiver, RoomInv, RoomOf, MapInv, TypeInv, TypeOK
<1>2. Line(c) = queue[c] /\ Line(c)' = <<>>
  BY <1>1, ConcatEmptySeq, EmptySeq DEF Line
<1>3. PICK n \in Nat : n = Len(queue[c]) /\ n # 0
  BY <1>1, <1>2, EmptySeq, LenProperties
<1>4. n \in 1 .. n /\ n < n + 1
  BY <1>3
<1>5. SubSeq(queue[c], n + 1, n) = <<>>
  BY <1>4, SubSeqEmpty
<1> QED
  BY <1>2, <1>3, <1>4, <1>5 DEF Leaves

LEMMA BatcherOrder ==
    ASSUME RoomInv, NEW d \in Chans, Batcher(d), NEW c \in Chans, Line(c)' # Line(c)
    PROVE  Leaves(c)
<1>1. TypeInv /\ queue[c] \in Seq(Requests) /\ batch[c] \in Seq(Requests)
  BY DEF RoomInv, MapInv, TypeInv, TypeOK
<1>2. c = d
  <2> SUFFICES ASSUME c # d PROVE queue'[c] = queue[c] /\ batch'[c] = batch[c]
    BY DEF Line
  <2> QED
    BY <1>1 DEF Batcher, ReceiveFirst, ReceiveMore, Receive, IdleExpires, RecvDisconnected,
           WindowExpires, CollectDisconnected, Goto, FlushPart, DropReceiver, RemoveSelf,
           TypeInv, TypeOK
<1>3. CASE ReceiveFirst(c) \/ ReceiveMore(c)
  <2>1. /\ queue[c] # <<>> /\ queue'[c] = Tail(queue[c])
        /\ batch'[c] = Append(batch[c], Head(queue[c]))
    BY <1>1, <1>3 DEF ReceiveFirst, ReceiveMore, Receive, TypeInv, TypeOK
  <2>2. Line(c)' = Line(c)
    BY <1>1, <2>1, MoveHead DEF Line
  <2> QED
    BY <2>2
<1>4. ASSUME NEW n \in 1 .. Len(batch[c]), FlushPart(c, n)
      PROVE  Leaves(c)
  <2>1. queue'[c] = queue[c] /\ batch'[c] = SubSeq(batch[c], n + 1, Len(batch[c]))
    BY <1>1, <1>4 DEF FlushPart, TypeInv, TypeOK
  <2>2. /\ n \in 1 .. Len(Line(c))
        /\ Line(c)' = SubSeq(Line(c), n + 1, Len(Line(c)))
    BY <1>1, <2>1, CutConcat DEF Line
  <2> QED
    BY <2>2 DEF Leaves
<1>5. CASE DropReceiver(c)
  BY <1>5, DropOrder
<1>6. CASE \/ IdleExpires(c) \/ RecvDisconnected(c)
           \/ WindowExpires(c) \/ CollectDisconnected(c) \/ RemoveSelf(c)
  BY <1>6 DEF IdleExpires, RecvDisconnected, WindowExpires, CollectDisconnected, Goto,
              RemoveSelf, Line
<1> QED
  BY <1>2, <1>3, <1>4, <1>5, <1>6 DEF Batcher

(***************************************************************************)
(* Whatever the batches are cut into and whenever a batcher is evicted, its *)
(* requests leave from the front of the line and join it at the end.  That  *)
(* a task which drops its receiver holds no batch, part of RoomInv, is what *)
(* the drop needs: otherwise it would take the young and keep the old.      *)
(***************************************************************************)
THEOREM RequestsStayInLine == Spec => ServedInOrder
<1> DEFINE InOrder == \A c \in Chans : Line(c)' # Line(c) => Joins(c) \/ Leaves(c)
<1>1. RoomInv /\ [Next]_vars => [InOrder]_vars
  <2> SUFFICES ASSUME RoomInv, Next, NEW c \in Chans, Line(c)' # Line(c)
               PROVE  Joins(c) \/ Leaves(c)
    OBVIOUS
  <2>1. TypeInv
    BY DEF RoomInv, MapInv
  <2>2. CASE Quiescent
    BY <2>2 DEF Quiescent, vars, Line
  <2> QED
    BY <2>1, <2>2, EnqueueOrder, BatcherOrder DEF Next
<1>2. InOrder <=> \A c \in Chans : Line(c)' # Line(c) =>
         \/ \E r \in Requests : Line(c)' = Append(Line(c), r)
         \/ \E n \in 1 .. Len(Line(c)) : Line(c)' = SubSeq(Line(c), n + 1, Len(Line(c)))
  BY DEF Joins, Leaves
<1> QED
  BY <1>1, <1>2, InitRoom, NextRoom, PTL DEF Spec, ServedInOrder
=============================================================================
