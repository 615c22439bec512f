---------------------------- MODULE TryMapProofs ----------------------------
(***************************************************************************)
(* TryMap's inductive invariant and what follows from it, for every job    *)
(* count, every number of items and everything f may do with them.         *)
(***************************************************************************)
EXTENDS TryMap, TLAPS

\* The initial states of a call of try_map satisfy the invariant.
LEMMA InitInv == Init => Inv
<1> SUFFICES ASSUME Init PROVE Inv
  OBVIOUS
<1> USE MaxJobsAssumption, MaxItemsAssumption, OutcomesAssumption
<1>1. TypeOK
  <2>1. result \in Results
    BY DEF Init, Results
  <2>2. jobs \in 1 .. MaxJobs /\ len \in 0 .. MaxItems
    BY DEF Init
  <2>3. f \in [Items -> Outcomes]
    BY DEF Init, Items
  <2>4. joined \in 0 .. len /\ cursor \in Nat
    BY DEF Init
  <2>5. failed \in BOOLEAN
    BY Zenon DEF Init
  <2>6. /\ pc \in [Worker -> {"unborn", "load", "claim", "apply", "ended", "panicked"}]
        /\ index \in [Worker -> Items \union {NoIndex}]
        /\ error \in [Worker -> Items \union {NoIndex}]
        /\ produced \in [Worker -> SUBSET Items]
    BY DEF Init
  <2>7. main \in {"call", "serial", "join", "unwind", "done"}
    BY DEF Init
  <2> QED
    BY <2>1, <2>2, <2>3, <2>4, <2>5, <2>6, <2>7 DEF TypeOK
<1>2. Claims /\ ExactlyOnce /\ Verdicts /\ WindDown
  BY DEF Init, Claims, ExactlyOnce, Verdicts, WindDown, Holds, Items, Worker, NoIndex
<1>3. Threads /\ Outcome /\ NoThreadOutlivesCall
  BY DEF Init, Threads, Outcome, NoThreadOutlivesCall, Worker
<1> QED
  BY <1>1, <1>2, <1>3 DEF Inv

\* try_map's variables keep their types in every step.
LEMMA TypeStep == TypeOK /\ Verdicts /\ Threads /\ [Next]_vars => TypeOK'
<1> SUFFICES ASSUME TypeOK, Verdicts, Threads, [Next]_vars PROVE TypeOK'
  OBVIOUS
<1> USE MaxJobsAssumption, MaxItemsAssumption, OutcomesAssumption DEF TypeOK, Items, Worker, NoIndex
<1>1. CASE Call
  BY <1>1 DEF Call, inputs, shared
<1>2. CASE SerialItem
  <2>1. joined \in 0 .. MaxItems - 1
    BY <1>2 DEF SerialItem
  <2>2. result' \in Results
    BY <1>2, <2>1 DEF SerialItem, Results
  <2> QED
    BY <1>2, <2>2 DEF SerialItem, inputs, shared, worker
<1>3. CASE SerialCollect
  <2>1. 0 .. joined - 1 \in SUBSET (0 .. MaxItems - 1)
    OBVIOUS
  <2>2. result' \in Results
    BY <1>3, <2>1 DEF SerialCollect, Results
  <2> QED
    BY <1>3, <2>2 DEF SerialCollect, inputs, shared, worker
<1>4. CASE Join
  BY <1>4 DEF Join, inputs, shared, worker, workers
<1>5. CASE Unwind
  <2>1. index[joined] \in Items
    BY <1>5 DEF Unwind, Verdicts, Threads, workers
  <2> QED
    BY <1>5, <2>1 DEF Unwind, inputs, shared, worker, Results
<1>6. CASE Merge
  <2>1. Produced \in SUBSET Items /\ Errors \subseteq Items
    BY DEF Produced, Errors, Spawned, workers
  <2>2. result' \in Results
    BY <1>6, <2>1 DEF Merge, Results
  <2> QED
    BY <1>6, <2>2 DEF Merge, inputs, shared, worker
<1>7. ASSUME NEW w \in Worker, WorkerStep(w) PROVE TypeOK'
  <2>1. CASE LoadFailed(w)
    BY <2>1 DEF LoadFailed, inputs, shared
  <2>2. CASE Claim(w)
    <3>1. cursor' \in Nat /\ UNCHANGED <<jobs, len, f, main, joined, failed, produced, error, result>>
      BY <2>2 DEF Claim, inputs
    <3>2. pc' \in [Worker -> {"unborn", "load", "claim", "apply", "ended", "panicked"}]
      BY <2>2 DEF Claim
    <3>3. index' \in [Worker -> Items \union {NoIndex}]
      BY <2>2 DEF Claim
    <3> QED
      BY <3>1, <3>2, <3>3
  <2>3. CASE ApplyOk(w)
    BY <2>3 DEF ApplyOk, Verdicts, inputs, shared
  <2>4. CASE ApplyErr(w)
    BY <2>4 DEF ApplyErr, inputs
  <2>5. CASE ApplyPanic(w)
    BY <2>5 DEF ApplyPanic, inputs, shared
  <2> QED
    BY <1>7, <2>1, <2>2, <2>3, <2>4, <2>5 DEF WorkerStep
<1>8. CASE UNCHANGED vars
  BY <1>8 DEF vars, inputs, shared, worker
<1> QED
  BY <1>1, <1>2, <1>3, <1>4, <1>5, <1>6, <1>7, <1>8 DEF Next, Caller, Returned

\* The contract's predicates depend on nothing but len and f.
LEMMA ContractFrame ==
    ASSUME UNCHANGED <<len, f>>, NEW r,
           Contract!IsSerialResult(r) \/ Contract!IsItemPanic(r), result' = r
    PROVE  (Contract!IsSerialResult(result) \/ Contract!IsItemPanic(result))'
BY DEF Contract!IsSerialResult, Contract!IsItemPanic, Contract!IsFirstBad, Contract!Bad, Contract!Items

\* A worker's step leaves the caller where it is: a running worker means that
\* the call has not returned.
LEMMA WorkerFrame ==
    ASSUME Inv, TypeOK', NEW w \in Worker, pc[w] \in {"load", "claim", "apply"},
           UNCHANGED <<inputs, main, joined, result>>,
           \A v \in Worker : v # w => UNCHANGED <<pc[v], produced[v], error[v]>>,
           pc'[w] # "unborn"
    PROVE  Threads' /\ Outcome' /\ NoThreadOutlivesCall'
<1> USE DEF Inv
<1>1. main # "done" /\ main \notin {"call", "serial"} /\ w \in Spawned /\ ~ IsSerial
  BY DEF Threads, NoThreadOutlivesCall
<1>2. Spawned' = Spawned /\ IsSerial' = IsSerial /\ workers' = workers
  BY DEF Spawned, IsSerial, workers, inputs
<1>3. Threads'
  <2>1. joined \in Int /\ workers \in Int /\ jobs \in Int /\ workers <= jobs /\ jobs <= MaxJobs /\ MaxJobs \in Int
    BY MaxJobsAssumption DEF TypeOK, workers
  <2>2. main = "unwind" => joined \in Worker
    BY <2>1, MaxJobsAssumption DEF Threads, Worker, TypeOK
  <2>3. Spawned \subseteq Worker
    BY <2>1 DEF Spawned, Worker
  <2> QED
    BY <1>1, <1>2, <2>1, <2>2, <2>3 DEF Threads, inputs
<1>4. Outcome' /\ NoThreadOutlivesCall'
  BY <1>1 DEF Outcome, NoThreadOutlivesCall
<1> QED
  BY <1>3, <1>4

\* When every worker holds the same indices as before and the cursor stays,
\* every index below it is still held by exactly one worker.
LEMMA HoldsFrame ==
    ASSUME Inv, UNCHANGED <<inputs, cursor>>,
           \A v \in Worker : \A i \in Items : Holds(v, i)' = Holds(v, i),
           \A v \in Worker : pc'[v] = "apply" => index'[v] \notin produced'[v]
    PROVE  Claims' /\ ExactlyOnce'
<1>1. Items' = Items /\ Worker' = Worker /\ cursor' = cursor
  BY DEF Items, Worker, inputs
<1> QED
  BY <1>1 DEF Inv, Claims, ExactlyOnce

\* A step of worker w keeps every index below the cursor held by exactly one
\* worker, keeps what each worker says of the items it holds, and keeps the
\* reasons for which workers end.
LEMMA WorkerStepInv ==
    ASSUME Inv, TypeOK', NEW w \in Worker, WorkerStep(w)
    PROVE  Inv'
<1> USE DEF Inv
<1>1. CASE LoadFailed(w)
  <2>1. \A v \in Worker : \A i \in Items : Holds(v, i)' = Holds(v, i)
    BY <1>1 DEF LoadFailed, Holds, TypeOK
  <2>2. \A v \in Worker : pc'[v] = "apply" => index'[v] \notin produced'[v]
    BY <1>1 DEF LoadFailed, ExactlyOnce, TypeOK
  <2>3. Claims' /\ ExactlyOnce'
    BY <1>1, <2>1, <2>2, HoldsFrame DEF LoadFailed, shared
  <2>4. Verdicts'
    BY <1>1 DEF LoadFailed, Verdicts, TypeOK, Items, inputs
  <2>5. WindDown'
    <3>1. PICK seen \in {FALSE, failed} : pc' = [pc EXCEPT ![w] = IF seen THEN "ended" ELSE "claim"]
      BY <1>1 DEF LoadFailed
    <3>2. CASE seen
      BY <1>1, <3>1, <3>2 DEF LoadFailed, WindDown, TypeOK, inputs, shared
    <3>3. CASE ~ seen
      BY <1>1, <3>1, <3>3 DEF LoadFailed, WindDown, TypeOK, inputs, shared
    <3> QED
      BY <3>2, <3>3
  <2>6. Threads' /\ Outcome' /\ NoThreadOutlivesCall'
    BY <1>1, WorkerFrame DEF LoadFailed, TypeOK
  <2> QED
    BY <2>3, <2>4, <2>5, <2>6
<1>2. CASE Claim(w)
  <2> USE DEF TypeOK
  <2>1. CASE cursor < len
    <3>1. cursor \in Items /\ Items' = Items /\ Worker' = Worker
      BY <1>2, <2>1 DEF Claim, Items, Worker, inputs
    <3>2. \A i \in Items : Holds(w, i)' <=> Holds(w, i) \/ i = cursor
      BY <1>2, <2>1 DEF Claim, Holds
    <3>3. \A v \in Worker : v # w => \A i \in Items : Holds(v, i)' = Holds(v, i)
      BY <1>2, <2>1 DEF Claim, Holds
    <3>4. \A v \in Worker : ~ Holds(v, cursor)
      BY <3>1 DEF Claims, Items
    <3>5. Claims'
      <4>1. cursor' = cursor + 1 /\ cursor \in Nat /\ \A i \in Items : i \in Int
        BY <1>2 DEF Claim, Items
      <4>2. \A i \in Items : i < cursor' => i < cursor \/ i = cursor
        BY <4>1
      <4>3. \A i \in Items : i < cursor' => \E v \in Worker : Holds(v, i)'
        BY <3>2, <3>3, <4>2 DEF Claims
      <4>4. \A v \in Worker : \A i \in Items : Holds(v, i)' => i < cursor'
        BY <3>2, <3>3, <4>1 DEF Claims
      <4> QED
        BY <3>1, <4>3, <4>4 DEF Claims
    <3>6. ExactlyOnce'
      <4>1. \A u, v \in Worker : u # v => \A i \in Items : ~ (Holds(u, i)' /\ Holds(v, i)')
        BY <3>2, <3>3, <3>4 DEF ExactlyOnce
      <4>2. \A v \in Worker : pc'[v] = "apply" => index'[v] \notin produced'[v]
        BY <1>2, <2>1, <3>4 DEF Claim, ExactlyOnce, Holds
      <4> QED
        BY <3>1, <4>1, <4>2 DEF ExactlyOnce
    <3>7. Verdicts'
      BY <1>2, <2>1, <3>1 DEF Claim, Verdicts, inputs
    <3>8. WindDown'
      BY <1>2, <2>1, <3>1 DEF Claim, WindDown, inputs
    <3> QED
      BY <1>2, <2>1, <3>5, <3>6, <3>7, <3>8, WorkerFrame DEF Claim
  <2>2. CASE ~ (cursor < len)
    <3>1. \A v \in Worker : \A i \in Items : Holds(v, i)' = Holds(v, i)
      BY <1>2, <2>2 DEF Claim, Holds
    <3>2. Items' = Items /\ Worker' = Worker /\ \A i \in Items : i < cursor /\ i < cursor'
      BY <1>2, <2>2 DEF Claim, Items, Worker, inputs
    <3>3. Claims'
      BY <3>1, <3>2 DEF Claims
    <3>4. ExactlyOnce'
      BY <1>2, <2>2, <3>1, <3>2 DEF Claim, ExactlyOnce
    <3>5. Verdicts' /\ WindDown'
      BY <1>2, <2>2, <3>2 DEF Claim, Verdicts, WindDown, inputs
    <3> QED
      BY <1>2, <2>2, <3>3, <3>4, <3>5, WorkerFrame DEF Claim
  <2> QED
    BY <2>1, <2>2
<1>3. CASE ApplyOk(w)
  <2>1. index[w] \in Items
    BY <1>3 DEF ApplyOk, Verdicts
  <2>2. \A v \in Worker : \A i \in Items : Holds(v, i)' = Holds(v, i)
    BY <1>3, <2>1 DEF ApplyOk, Holds, TypeOK
  <2>3. \A v \in Worker : pc'[v] = "apply" => index'[v] \notin produced'[v]
    BY <1>3 DEF ApplyOk, ExactlyOnce, TypeOK
  <2>4. Claims' /\ ExactlyOnce'
    BY <1>3, <2>2, <2>3, HoldsFrame DEF ApplyOk, shared
  <2>5. Verdicts' /\ WindDown'
    BY <1>3 DEF ApplyOk, Verdicts, WindDown, TypeOK, Items, inputs, shared
  <2>6. Threads' /\ Outcome' /\ NoThreadOutlivesCall'
    BY <1>3, WorkerFrame DEF ApplyOk, TypeOK
  <2> QED
    BY <2>4, <2>5, <2>6
<1>4. CASE ApplyErr(w)
  <2>1. index[w] \in Items /\ error[w] = NoIndex
    BY <1>4 DEF ApplyErr, Verdicts
  <2>2. \A v \in Worker : \A i \in Items : Holds(v, i)' = Holds(v, i)
    BY <1>4, <2>1 DEF ApplyErr, Holds, TypeOK, NoIndex, Items
  <2>3. \A v \in Worker : pc'[v] = "apply" => index'[v] \notin produced'[v]
    BY <1>4 DEF ApplyErr, ExactlyOnce, TypeOK
  <2>4. Claims' /\ ExactlyOnce'
    BY <1>4, <2>2, <2>3, HoldsFrame DEF ApplyErr
  <2>5. Verdicts' /\ WindDown'
    BY <1>4, <2>1 DEF ApplyErr, Verdicts, WindDown, TypeOK, Items, NoIndex, inputs
  <2>6. Threads' /\ Outcome' /\ NoThreadOutlivesCall'
    BY <1>4, WorkerFrame DEF ApplyErr, TypeOK
  <2> QED
    BY <2>4, <2>5, <2>6
<1>5. CASE ApplyPanic(w)
  <2>1. \A v \in Worker : \A i \in Items : Holds(v, i)' = Holds(v, i)
    BY <1>5 DEF ApplyPanic, Holds, TypeOK
  <2>2. \A v \in Worker : pc'[v] = "apply" => index'[v] \notin produced'[v]
    BY <1>5 DEF ApplyPanic, ExactlyOnce, TypeOK
  <2>3. Claims' /\ ExactlyOnce'
    BY <1>5, <2>1, <2>2, HoldsFrame DEF ApplyPanic, shared
  <2>4. Verdicts' /\ WindDown'
    BY <1>5 DEF ApplyPanic, Verdicts, WindDown, TypeOK, Items, inputs, shared
  <2>5. Threads' /\ Outcome' /\ NoThreadOutlivesCall'
    BY <1>5, WorkerFrame DEF ApplyPanic, TypeOK
  <2> QED
    BY <2>3, <2>4, <2>5
<1> QED
  BY <1>1, <1>2, <1>3, <1>4, <1>5 DEF WorkerStep

\* A step of the caller that touches neither the workers nor the shared
\* atomics keeps what the invariant says of them.
LEMMA CallerFrame ==
    ASSUME Inv, UNCHANGED <<inputs, shared, worker>>
    PROVE  Claims' /\ ExactlyOnce' /\ Verdicts' /\ WindDown'
BY DEF Inv, Claims, ExactlyOnce, Verdicts, WindDown, Holds, Items, Worker,
       inputs, shared, worker

\* When every handle joined without a panic, the merge yields the serial
\* result: the lowest recorded error is the first item that is not Ok, and
\* without an error every item was produced.
LEMMA MergeIsSerial ==
    ASSUME Inv, Merge
    PROVE  Contract!IsSerialResult(result')
<1> USE DEF Inv
<1> USE MaxJobsAssumption, MaxItemsAssumption, OutcomesAssumption
<1>1. \A w \in Worker : pc[w] \in {"ended", "unborn"}
  BY DEF Merge, Threads, TypeOK, Spawned, Worker, workers
<1>2. \A i \in Items : i < cursor =>
        \E w \in Spawned : i \in produced[w] \/ i = error[w]
  <2> SUFFICES ASSUME NEW i \in Items, i < cursor
               PROVE  \E w \in Spawned : i \in produced[w] \/ i = error[w]
    OBVIOUS
  <2>1. PICK w \in Worker : Holds(w, i)
    BY DEF Claims
  <2>2. i \in produced[w] \/ i = error[w]
    BY <1>1, <2>1 DEF Holds
  <2>3. w \in Spawned
    BY <2>2 DEF Threads, TypeOK, NoIndex, Items, Worker
  <2> QED
    BY <2>2, <2>3
<1>3. Errors \subseteq Items
  BY DEF Errors, TypeOK, Spawned, Worker, workers
<1>4. \A e \in Errors : f[e] = "err" /\ e < cursor
  <2> SUFFICES ASSUME NEW e \in Errors PROVE f[e] = "err" /\ e < cursor
    OBVIOUS
  <2>1. PICK w \in Spawned : error[w] = e /\ e # NoIndex
    BY DEF Errors
  <2>2. w \in Worker
    BY DEF Spawned, Worker, workers, TypeOK
  <2> QED
    BY <1>3, <2>1, <2>2 DEF Verdicts, Claims, Holds
<1>5. ASSUME NEW i \in Errors, \A e \in Errors : i <= e, result' = ErrResult(i)
      PROVE  Contract!IsSerialResult(result')
  <2>1. i \in Items /\ f[i] = "err" /\ i < cursor
    BY <1>3, <1>4
  <2>2. ASSUME NEW j \in Items, j < i PROVE f[j] = "ok"
    <3>1. j < cursor
      BY <2>1, <2>2 DEF Items, TypeOK
    <3>2. PICK w \in Spawned : j \in produced[w] \/ j = error[w]
      BY <1>2, <3>1
    <3>3. w \in Worker
      BY DEF Spawned, Worker, workers, TypeOK
    <3>4. CASE j \in produced[w]
      BY <3>3, <3>4 DEF Verdicts
    <3>5. CASE j = error[w]
      <4>1. j \in Errors
        BY <3>5 DEF Errors, Items, NoIndex
      <4> QED
        BY <4>1, <1>5, <2>1, <2>2 DEF Items
    <3> QED
      BY <3>2, <3>4, <3>5
  <2>3. Contract!IsFirstBad(i) /\ i \in Contract!Bad
    BY <2>1, <2>2 DEF Contract!IsFirstBad, Contract!Bad, Contract!Items, Items
  <2> QED
    BY <1>5, <2>1, <2>3 DEF Contract!IsSerialResult, ErrResult, Contract!ErrResult
<1>6. ASSUME Errors = {}, result' = OkResult(Produced)
      PROVE  Contract!IsSerialResult(result')
  <2>1. \A w \in Worker : error[w] = NoIndex
    BY <1>6 DEF Errors, Threads
  <2>2. cursor >= len
    <3>1. 0 \in Worker /\ pc[0] = "ended"
      BY DEF Merge, Threads, TypeOK, Spawned, Worker, workers, IsSerial
    <3> QED
      BY <2>1, <3>1 DEF WindDown
  <2>3. Produced = Items
    <3>1. Produced \subseteq Items
      BY DEF Produced, TypeOK, Spawned, Worker, workers
    <3>2. ASSUME NEW i \in Items PROVE i \in Produced
      <4>1. i < cursor
        BY <2>2 DEF Items, TypeOK
      <4>2. PICK w \in Spawned : i \in produced[w] \/ i = error[w]
        BY <1>2, <4>1
      <4>3. w \in Worker
        BY DEF Spawned, Worker, workers, TypeOK
      <4>4. i \in produced[w]
        BY <2>1, <4>2, <4>3 DEF NoIndex, Items
      <4> QED
        BY <4>4 DEF Produced
    <3> QED
      BY <3>1, <3>2
  <2>4. \A i \in Items : f[i] = "ok"
    BY <2>3 DEF Produced, Verdicts, Spawned, Worker, workers, TypeOK
  <2>5. Contract!Bad = {}
    BY <2>4 DEF Contract!Bad, Contract!Items, Items
  <2> QED
    BY <1>6, <2>3, <2>5 DEF Contract!IsSerialResult, OkResult, Contract!OkResult, Contract!Items, Items
<1> QED
  BY <1>5, <1>6 DEF Merge

\* The serial loop's own exits are the serial result by definition of it.
LEMMA SerialIsSerial ==
    ASSUME Inv, SerialItem \/ SerialCollect, main' = "done"
    PROVE  Contract!IsSerialResult(result')
<1> USE DEF Inv, TypeOK, Items
<1>1. CASE SerialItem
  <2>1. joined \in Items /\ f[joined] # "ok"
    BY <1>1 DEF SerialItem
  <2>2. Contract!IsFirstBad(joined) /\ joined \in Contract!Bad
    BY <1>1, <2>1 DEF SerialItem, Threads, Contract!IsFirstBad, Contract!Bad, Contract!Items
  <2> QED
    BY <1>1, <2>1, <2>2 DEF SerialItem, Contract!IsSerialResult, ErrResult, PanicResult,
         Contract!ErrResult, Contract!PanicResult
<1>2. CASE SerialCollect
  <2>1. Contract!Bad = {}
    BY <1>2 DEF SerialCollect, Threads, Contract!Bad, Contract!Items
  <2> QED
    BY <1>2, <2>1 DEF SerialCollect, Contract!IsSerialResult, OkResult, Contract!OkResult, Contract!Items
<1> QED
  BY <1>1, <1>2

\* A panic that unwinds out of try_map is the panic of one of the items.
LEMMA UnwindIsItemPanic ==
    ASSUME Inv, Unwind
    PROVE  Contract!IsItemPanic(result')
<1>1. joined \in Worker /\ pc[joined] = "panicked"
  BY MaxJobsAssumption DEF Inv, Unwind, Threads, Worker, workers, TypeOK
<1>2. index[joined] \in Items /\ f[index[joined]] = "panic"
  BY <1>1 DEF Inv, Verdicts
<1> QED
  BY <1>2 DEF Unwind, Contract!IsItemPanic, Contract!Items, Items, PanicResult, Contract!PanicResult

\* A step of the calling thread preserves the invariant.
LEMMA CallerStepInv ==
    ASSUME Inv, TypeOK', Caller
    PROVE  Inv'
<1> USE DEF Inv
<1> USE MaxJobsAssumption, MaxItemsAssumption DEF TypeOK, Items, Worker
<1>1. CASE Call
  <2>1. \A v \in Worker : pc[v] = "unborn" /\ pc'[v] \in {"unborn", "load"}
    BY <1>1 DEF Call, Threads
  <2>2. \A v \in Worker : \A i \in Items : Holds(v, i)' = Holds(v, i)
    BY <1>1, <2>1 DEF Call, Holds
  <2>3. Claims' /\ ExactlyOnce'
    BY <1>1, <2>1, <2>2, HoldsFrame DEF Call, shared
  <2>4. Verdicts'
    BY <1>1, <2>1 DEF Call, Verdicts, Threads, inputs
  <2>5. WindDown' /\ Threads' /\ Outcome' /\ NoThreadOutlivesCall'
    BY <1>1 DEF Call, WindDown, Threads, Outcome, NoThreadOutlivesCall,
         IsSerial, Spawned, workers, inputs, shared, NoIndex
  <2> QED
    BY <2>3, <2>4, <2>5
<1>2. CASE SerialItem
  <2>1. Claims' /\ ExactlyOnce' /\ Verdicts' /\ WindDown'
    BY <1>2, CallerFrame DEF SerialItem
  <2>2. Threads' /\ NoThreadOutlivesCall'
    BY <1>2 DEF SerialItem, Threads, NoThreadOutlivesCall, IsSerial, Spawned, workers, inputs, shared, worker
  <2>3. Outcome'
    <3>1. CASE main' = "done"
      BY <1>2, <3>1, SerialIsSerial, ContractFrame DEF SerialItem, Outcome, inputs
    <3>2. CASE main' # "done"
      BY <1>2, <3>2 DEF SerialItem, Outcome
    <3> QED
      BY <3>1, <3>2
  <2> QED
    BY <2>1, <2>2, <2>3
<1>3. CASE SerialCollect
  <2>1. Claims' /\ ExactlyOnce' /\ Verdicts' /\ WindDown'
    BY <1>3, CallerFrame DEF SerialCollect
  <2>2. Threads' /\ NoThreadOutlivesCall'
    BY <1>3 DEF SerialCollect, Threads, NoThreadOutlivesCall, IsSerial, Spawned, workers, inputs, shared, worker
  <2>3. Outcome'
    BY <1>3, SerialIsSerial, ContractFrame DEF SerialCollect, Outcome, inputs
  <2> QED
    BY <2>1, <2>2, <2>3
<1>4. CASE Join
  <2>1. Claims' /\ ExactlyOnce' /\ Verdicts' /\ WindDown'
    BY <1>4, CallerFrame DEF Join
  <2>2. Threads' /\ NoThreadOutlivesCall' /\ Outcome'
    BY <1>4 DEF Join, Threads, NoThreadOutlivesCall, Outcome, IsSerial, Spawned, workers, inputs, shared, worker
  <2> QED
    BY <2>1, <2>2
<1>5. CASE Unwind
  <2>1. Claims' /\ ExactlyOnce' /\ Verdicts' /\ WindDown'
    BY <1>5, CallerFrame DEF Unwind
  <2>2. Threads' /\ NoThreadOutlivesCall'
    BY <1>5 DEF Unwind, Threads, NoThreadOutlivesCall, IsSerial, Spawned, workers, inputs, shared, worker
  <2>3. Outcome'
    BY <1>5, UnwindIsItemPanic, ContractFrame DEF Unwind, Outcome, inputs
  <2> QED
    BY <2>1, <2>2, <2>3
<1>6. CASE Merge
  <2>1. Claims' /\ ExactlyOnce' /\ Verdicts' /\ WindDown'
    BY <1>6, CallerFrame DEF Merge
  <2>2. Threads' /\ NoThreadOutlivesCall'
    BY <1>6 DEF Merge, Threads, NoThreadOutlivesCall, IsSerial, Spawned, workers, inputs, shared, worker
  <2>3. Outcome'
    BY <1>6, MergeIsSerial, ContractFrame DEF Merge, Outcome, inputs
  <2> QED
    BY <2>1, <2>2, <2>3
<1> QED
  BY <1>1, <1>2, <1>3, <1>4, <1>5, <1>6 DEF Caller

\* Every step of a call of try_map preserves the invariant.
LEMMA NextInv == Inv /\ [Next]_vars => Inv'
<1> SUFFICES ASSUME Inv, [Next]_vars PROVE Inv'
  OBVIOUS
<1>1. TypeOK'
  BY TypeStep DEF Inv
<1>2. CASE Caller
  BY <1>1, <1>2, CallerStepInv
<1>3. CASE \E w \in Worker : WorkerStep(w)
  BY <1>1, <1>3, WorkerStepInv
<1>4. CASE UNCHANGED vars
  <2>1. Claims' /\ ExactlyOnce' /\ Verdicts' /\ WindDown'
    BY <1>4, CallerFrame DEF vars
  <2>2. Threads' /\ NoThreadOutlivesCall'
    BY <1>4 DEF Inv, vars, Threads, NoThreadOutlivesCall, IsSerial, Spawned, workers, inputs, shared, worker, Worker, Items
  <2>3. Outcome'
    BY <1>4, ContractFrame DEF Inv, vars, Outcome, inputs
  <2> QED
    BY <1>1, <2>1, <2>2, <2>3 DEF Inv
<1> QED
  BY <1>2, <1>3, <1>4 DEF Next, Returned

\* The invariant holds in every reachable state of every call of try_map.
THEOREM Invariance == Spec => []Inv
BY InitInv, NextInv, PTL DEF Spec

\* Type correctness of try_map's state.
THEOREM TypeCorrect == Spec => []TypeOK
<1>1. Inv => TypeOK
  BY DEF Inv
<1> QED
  BY <1>1, Invariance, PTL

\* Determinism of try_map: whenever the call returns, it returns what the
\* serial loop returns, for every job count, item list and schedule.
THEOREM Determinism == Spec => []ResultIsSerial
<1>1. Inv => ResultIsSerial
  <2> SUFFICES ASSUME Inv, result.kind \in {"ok", "err"}
               PROVE  Contract!IsSerialResult(result)
    BY DEF ResultIsSerial
  <2>1. main = "done"
    BY DEF Inv, Outcome, Pending
  <2>2. ~ Contract!IsItemPanic(result)
    BY DEF Contract!IsItemPanic, Contract!PanicResult
  <2> QED
    BY <2>1, <2>2 DEF Inv, Outcome
<1> QED
  BY <1>1, Invariance, PTL

\* fetch_add hands every index to one worker, which applies f to it once.
THEOREM EachItemOnce == Spec => []ExactlyOnce
<1>1. Inv => ExactlyOnce
  BY DEF Inv
<1> QED
  BY <1>1, Invariance, PTL

\* No worker thread is left running when the call returns or unwinds.
THEOREM ScopeClosed == Spec => []NoThreadOutlivesCall
<1>1. Inv => NoThreadOutlivesCall
  BY DEF Inv
<1> QED
  BY <1>1, Invariance, PTL

\* try_map implements its contract, by the identity mapping of its items and
\* its result.
THEOREM Refinement == Spec => ImplementsContract
<1>1. Init => Contract!Init
  BY DEF Init, Contract!Init, Pending, Contract!Pending
<1>2. Inv /\ Inv' /\ [Next]_vars => [Contract!Next]_(Contract!vars)
  <2> SUFFICES ASSUME Inv, Inv', [Next]_vars PROVE [Contract!Next]_(Contract!vars)
    OBVIOUS
  <2>1. UNCHANGED <<len, f>>
    BY DEF Next, Caller, WorkerStep, Returned, Call, SerialItem, SerialCollect, Join, Unwind, Merge,
         LoadFailed, Claim, ApplyOk, ApplyErr, ApplyPanic, vars, inputs
  <2>2. UNCHANGED result \/ (result = Pending /\ main' = "done")
    BY DEF Inv, Outcome, Next, Caller, WorkerStep, Returned, Call, SerialItem, SerialCollect, Join,
         Unwind, Merge, LoadFailed, Claim, ApplyOk, ApplyErr, ApplyPanic, vars
  <2>3. CASE UNCHANGED result
    BY <2>1, <2>3 DEF Contract!vars
  <2>4. CASE result = Pending /\ main' = "done"
    <3>1. Contract!IsSerialResult(result') \/ Contract!IsItemPanic(result')
      BY <2>1, <2>4 DEF Inv, Outcome, Contract!IsSerialResult, Contract!IsItemPanic,
           Contract!IsFirstBad, Contract!Bad, Contract!Items
    <3> QED
      BY <2>1, <2>4, <3>1 DEF Contract!Next, Contract!Return, Pending, Contract!Pending
  <2> QED
    BY <2>2, <2>3, <2>4
<1> QED
  BY <1>1, <1>2, Invariance, PTL DEF Spec, ImplementsContract, Contract!Spec
=============================================================================
