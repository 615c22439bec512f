------------------------------- MODULE TryMap -------------------------------
(***************************************************************************)
(* capa-x/src/parallel.rs: try_map, the only place where capa-x starts     *)
(* threads.  Workers claim indices of the item slice from a shared atomic  *)
(* cursor, a shared flag asks them to stop after a failure, and the caller *)
(* joins them in spawn order and merges what they produced.                *)
(*                                                                         *)
(* Items are their indices.  What f does with each item (return Ok, return *)
(* Err or panic) is an input; Ok values, errors and panic payloads are     *)
(* identified by the index of the item they come from.                     *)
(***************************************************************************)
EXTENDS Integers, FiniteSets

CONSTANTS
    MaxJobs,    \* bound on the job count of a call
    MaxItems,   \* bound on the length of the item slice
    Outcomes    \* what f may do with an item, a subset of {"ok", "err", "panic"}

ASSUME MaxJobsAssumption == MaxJobs \in Nat \ {0}
ASSUME MaxItemsAssumption == MaxItems \in Nat
ASSUME OutcomesAssumption == Outcomes \subseteq {"ok", "err", "panic"}

VARIABLES
    jobs,       \* Jobs(usize): at least 1 (Jobs::new refuses 0)
    len,        \* items.len()
    f,          \* [0 .. len-1 -> Outcomes], what f(item) does
    main,       \* control point of the calling thread
    joined,     \* handles joined so far; the next index of the serial loop
    cursor,     \* AtomicUsize: the next index to hand out
    failed,     \* AtomicBool: the stop flag
    pc,         \* control point of each worker
    index,      \* the index a worker claimed last
    produced,   \* the indices a worker pushed an Ok value for
    error,      \* the index of a worker's error, NoIndex before
    result      \* what the call returned

inputs == <<jobs, len, f>>
shared == <<cursor, failed>>
worker == <<pc, index, produced, error>>
vars == <<inputs, main, joined, shared, worker, result>>

NoIndex == -1
Items == 0 .. len - 1
Worker == 0 .. MaxJobs - 1

\* The abstract specification, over the same len, f and result.
Contract == INSTANCE MapContract

Pending == [kind |-> "pending"]
OkResult(S) == [kind |-> "ok", items |-> S]
ErrResult(i) == [kind |-> "err", item |-> i]
PanicResult(i) == [kind |-> "panic", item |-> i]

\* `jobs.get().min(items.len())`: never more threads than items.
workers == IF jobs < len THEN jobs ELSE len
Spawned == 0 .. workers - 1

\* `jobs.is_serial() || items.len() < 2`: the path without threads.
IsSerial == jobs = 1 \/ len < 2

-----------------------------------------------------------------------------
Init ==
    /\ jobs \in 1 .. MaxJobs
    /\ len \in 0 .. MaxItems
    /\ f \in [0 .. len - 1 -> Outcomes]
    /\ main = "call"
    /\ joined = 0
    /\ cursor = 0
    /\ failed = FALSE
    /\ pc = [w \in Worker |-> "unborn"]
    /\ index = [w \in Worker |-> NoIndex]
    /\ produced = [w \in Worker |-> {}]
    /\ error = [w \in Worker |-> NoIndex]
    /\ result = Pending

\* Entry of try_map.  A thread that has not run yet is a thread at its first
\* instruction, so all of them are started in one step.
Call ==
    /\ main = "call"
    /\ main' = IF IsSerial THEN "serial" ELSE "join"
    /\ pc' = IF IsSerial THEN pc
             ELSE [w \in Worker |-> IF w \in Spawned THEN "load" ELSE "unborn"]
    /\ UNCHANGED <<inputs, joined, shared, index, produced, error, result>>

(* The serial path: items.iter().map(&f).collect().                        *)

SerialItem ==
    /\ main = "serial"
    /\ joined < len
    /\ IF f[joined] = "ok"
       THEN /\ joined' = joined + 1
            /\ UNCHANGED <<main, result>>
       ELSE /\ result' = IF f[joined] = "err" THEN ErrResult(joined)
                                              ELSE PanicResult(joined)
            /\ main' = "done"
            /\ UNCHANGED joined
    /\ UNCHANGED <<inputs, shared, worker>>

SerialCollect ==
    /\ main = "serial"
    /\ joined = len
    /\ result' = OkResult(0 .. joined - 1)
    /\ main' = "done"
    /\ UNCHANGED <<inputs, joined, shared, worker>>

(* A worker's loop.                                                        *)

\* Mutant: `continue` for `break`: a worker that sees the flag looks again.
LoadFailed_Continue(w) ==
    /\ pc[w] = "load"
    /\ pc' = [pc EXCEPT ![w] = IF failed THEN "load" ELSE "claim"]
    /\ UNCHANGED <<inputs, main, joined, shared, index, produced, error, result>>

\* `if failed.load(Relaxed) { break; }`.  A relaxed load may still return the
\* old FALSE after another worker stored TRUE.
LoadFailed(w) ==
    /\ pc[w] = "load"
    /\ \E seen \in {FALSE, failed} :
         pc' = [pc EXCEPT ![w] = IF seen THEN "ended" ELSE "claim"]
    /\ UNCHANGED <<inputs, main, joined, shared, index, produced, error, result>>

\* Mutant: the cursor is read and written back in two relaxed accesses, so
\* another worker's increment may be lost.
Claim_LostUpdate(w) ==
    /\ pc[w] = "claim"
    /\ cursor' \in {cursor, cursor + 1}
    /\ IF cursor < len
       THEN /\ index' = [index EXCEPT ![w] = cursor]
            /\ pc' = [pc EXCEPT ![w] = "apply"]
       ELSE /\ pc' = [pc EXCEPT ![w] = "ended"]
            /\ UNCHANGED index
    /\ UNCHANGED <<inputs, main, joined, failed, produced, error, result>>

\* `cursor.fetch_add(1)` and `items.get(index)`.
Claim(w) ==
    /\ pc[w] = "claim"
    /\ cursor' = cursor + 1
    /\ IF cursor < len
       THEN /\ index' = [index EXCEPT ![w] = cursor]
            /\ pc' = [pc EXCEPT ![w] = "apply"]
       ELSE /\ pc' = [pc EXCEPT ![w] = "ended"]
            /\ UNCHANGED index
    /\ UNCHANGED <<inputs, main, joined, failed, produced, error, result>>

\* `match f(item)`.  A panic unwinds the worker: neither the flag nor the
\* worker's error is set, and what it had produced is lost with its stack.
ApplyOk(w) ==
    /\ pc[w] = "apply"
    /\ f[index[w]] = "ok"
    /\ produced' = [produced EXCEPT ![w] = @ \union {index[w]}]
    /\ pc' = [pc EXCEPT ![w] = "load"]
    /\ UNCHANGED <<inputs, main, joined, shared, index, error, result>>

ApplyErr(w) ==
    /\ pc[w] = "apply"
    /\ f[index[w]] = "err"
    /\ failed' = TRUE
    /\ error' = [error EXCEPT ![w] = index[w]]
    /\ pc' = [pc EXCEPT ![w] = "ended"]
    /\ UNCHANGED <<inputs, main, joined, cursor, index, produced, result>>

ApplyPanic(w) ==
    /\ pc[w] = "apply"
    /\ f[index[w]] = "panic"
    /\ pc' = [pc EXCEPT ![w] = "panicked"]
    /\ UNCHANGED <<inputs, main, joined, shared, index, produced, error, result>>

WorkerStep(w) ==
    LoadFailed(w) \/ Claim(w) \/ ApplyOk(w) \/ ApplyErr(w) \/ ApplyPanic(w)

(* The caller: join in spawn order, merge, return.                         *)

\* Mutant: a panic is met only after the handle was consumed, and the next
\* handle's worker is taken for the one that panicked.
Join_NextHandle ==
    /\ main = "join"
    /\ joined < workers
    /\ pc[joined] \in {"ended", "panicked"}
    /\ main' = IF pc[joined] = "panicked" THEN "unwind" ELSE main
    /\ joined' = IF joined + 1 < workers \/ main' = "join" THEN joined + 1 ELSE joined
    /\ UNCHANGED <<inputs, shared, worker, result>>

\* `handle.join()`: the first handle in spawn order that panicked decides
\* which payload is resumed.
Join ==
    /\ main = "join"
    /\ joined < workers
    /\ \/ /\ pc[joined] = "ended"
          /\ joined' = joined + 1
          /\ UNCHANGED main
       \/ /\ pc[joined] = "panicked"
          /\ main' = "unwind"
          /\ UNCHANGED joined
    /\ UNCHANGED <<inputs, shared, worker, result>>

\* std::thread::scope waits for every thread before it lets the resumed panic
\* leave the scope.
Unwind ==
    /\ main = "unwind"
    /\ \A w \in Spawned : pc[w] \in {"ended", "panicked"}
    /\ result' = PanicResult(index[joined])
    /\ main' = "done"
    /\ UNCHANGED <<inputs, joined, shared, worker>>

Errors == {error[w] : w \in Spawned} \ {NoIndex}
Produced == UNION {produced[w] : w \in Spawned}

\* Mutant: the first error in spawn order wins.
Merge_FirstInSpawnOrder ==
    /\ main = "join"
    /\ joined = workers
    /\ \/ \E w \in Spawned :
            /\ error[w] # NoIndex
            /\ \A v \in 0 .. w - 1 : error[v] = NoIndex
            /\ result' = ErrResult(error[w])
       \/ /\ Errors = {}
          /\ result' = OkResult(Produced)
    /\ main' = "done"
    /\ UNCHANGED <<inputs, joined, shared, worker>>

\* The fold over `outcomes`: the error with the lowest index wins; without an
\* error the values are sorted by index.
Merge ==
    /\ main = "join"
    /\ joined = workers
    /\ \/ \E i \in Errors :
            /\ \A e \in Errors : i <= e
            /\ result' = ErrResult(i)
       \/ /\ Errors = {}
          /\ result' = OkResult(Produced)
    /\ main' = "done"
    /\ UNCHANGED <<inputs, joined, shared, worker>>

Caller == Call \/ SerialItem \/ SerialCollect \/ Join \/ Unwind \/ Merge

\* The call has returned or unwound: nothing is left to do.
Returned ==
    /\ main = "done"
    /\ UNCHANGED vars

Next == Caller \/ (\E w \in Worker : WorkerStep(w)) \/ Returned

\* Every thread is scheduled by the operating system; f is assumed to return.
Fairness == WF_vars(Caller) /\ \A w \in Worker : WF_vars(WorkerStep(w))

Spec == Init /\ [][Next]_vars
FairSpec == Spec /\ Fairness

-----------------------------------------------------------------------------
(* Properties.                                                             *)

Results == {Pending} \union {OkResult(S) : S \in SUBSET (0 .. MaxItems - 1)}
              \union {ErrResult(i) : i \in 0 .. MaxItems - 1}
              \union {PanicResult(i) : i \in 0 .. MaxItems - 1}

\* Every variable of try_map stays within its type.
TypeOK ==
    /\ jobs \in 1 .. MaxJobs
    /\ len \in 0 .. MaxItems
    /\ f \in [Items -> Outcomes]
    /\ main \in {"call", "serial", "join", "unwind", "done"}
    /\ joined \in 0 .. len
    /\ cursor \in Nat
    /\ failed \in BOOLEAN
    /\ pc \in [Worker -> {"unborn", "load", "claim", "apply", "ended", "panicked"}]
    /\ index \in [Worker -> Items \union {NoIndex}]
    /\ produced \in [Worker -> SUBSET Items]
    /\ error \in [Worker -> Items \union {NoIndex}]
    /\ result \in Results

\* The determinism contract of parallel.rs (`--jobs 1` is the semantic
\* baseline): unless the call unwinds, it returns exactly what the serial loop
\* returns, at every job count and under every schedule: all values, or the
\* error of the lowest failing item even when a later item failed first.
ResultIsSerial ==
    result.kind \in {"ok", "err"} => Contract!IsSerialResult(result)

\* The index worker w is responsible for, besides those it produced.
Holds(w, i) ==
    \/ i \in produced[w]
    \/ i = error[w]
    \/ pc[w] \in {"apply", "panicked"} /\ i = index[w]

\* "Every index is handed out exactly once by fetch_add": no item is applied
\* twice, by two workers or by one that comes back to it.
ExactlyOnce ==
    /\ \A v, w \in Worker : v # w => \A i \in Items : ~ (Holds(v, i) /\ Holds(w, i))
    /\ \A w \in Worker : pc[w] = "apply" => index[w] \notin produced[w]

\* A call never returns or unwinds while one of its threads still runs: the
\* items are borrowed by them.
NoThreadOutlivesCall ==
    main = "done" => \A w \in Worker : pc[w] \in {"unborn", "ended", "panicked"}

(***************************************************************************)
(* The inductive invariant behind ResultIsSerial: every index below the    *)
(* cursor is held by one worker, nothing else is, and a worker ends only   *)
(* because an error was recorded or because the cursor passed the items.   *)
(***************************************************************************)
Claims ==
    /\ \A i \in Items : i < cursor => \E w \in Worker : Holds(w, i)
    /\ \A w \in Worker : \A i \in Items : Holds(w, i) => i < cursor

Verdicts == \A w \in Worker :
    /\ \A i \in produced[w] : f[i] = "ok"
    /\ error[w] # NoIndex => f[error[w]] = "err" /\ pc[w] = "ended"
    /\ pc[w] = "apply" => index[w] \in Items
    /\ pc[w] = "panicked" => index[w] \in Items /\ f[index[w]] = "panic"

WindDown ==
    /\ \A w \in Worker : pc[w] = "ended" => failed \/ cursor >= len
    /\ failed => \E w \in Worker : error[w] # NoIndex

Threads ==
    /\ \A w \in Worker : (w \notin Spawned \/ IsSerial \/ main \in {"call", "serial"})
                            => pc[w] = "unborn"
    /\ \A w \in Worker : pc[w] = "unborn" => produced[w] = {} /\ error[w] = NoIndex
    /\ main = "call" => joined = 0
    /\ main = "serial" => \A i \in Items : i < joined => f[i] = "ok"
    /\ main = "serial" => IsSerial
    /\ main \in {"join", "unwind"} =>
         /\ ~ IsSerial
         /\ joined <= workers
         /\ \A w \in Spawned : w < joined => pc[w] = "ended"
    /\ main = "unwind" => joined < workers /\ pc[joined] = "panicked"

Outcome ==
    /\ main # "done" => result = Pending
    /\ main = "done" =>
         Contract!IsSerialResult(result) \/ Contract!IsItemPanic(result)

Inv == TypeOK /\ Claims /\ ExactlyOnce /\ Verdicts /\ WindDown
          /\ Threads /\ Outcome /\ NoThreadOutlivesCall

\* Every call returns or unwinds, at every job count.
Terminates == <>(main = "done")

\* try_map implements its contract: the result appears in one step, is never
\* revised, and is the serial one unless an item's own panic pre-empts it.
ImplementsContract == Contract!Spec

=============================================================================
