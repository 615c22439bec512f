---------------------------- MODULE MapContract ----------------------------
(***************************************************************************)
(* What capa-x/src/parallel.rs promises of a call of try_map, with no      *)
(* thread in sight: one step that returns what the plain serial loop over  *)
(* the items returns.  An item that panics may pre-empt that result with   *)
(* its own panic, which is the only freedom the threads have.              *)
(***************************************************************************)
EXTENDS Integers

VARIABLES
    len,        \* number of items
    f,          \* what f does with each item: "ok", "err" or "panic"
    result      \* what the call returned

vars == <<len, f, result>>

Items == 0 .. len - 1

Pending == [kind |-> "pending"]
OkResult(S) == [kind |-> "ok", items |-> S]
ErrResult(i) == [kind |-> "err", item |-> i]
PanicResult(i) == [kind |-> "panic", item |-> i]

\* The items on which the loop does not simply go on.
Bad == {i \in Items : f[i] # "ok"}

\* i is the first item on which the serial loop stops.
IsFirstBad(i) == i \in Bad /\ \A j \in Bad : i <= j

\* r is what items.iter().map(f).collect() yields: every value, or whatever
\* the first item that is not Ok does.
IsSerialResult(r) ==
    \/ Bad = {} /\ r = OkResult(Items)
    \/ \E i \in Bad :
         /\ IsFirstBad(i)
         /\ r = IF f[i] = "err" THEN ErrResult(i) ELSE PanicResult(i)

IsItemPanic(r) == \E i \in Items : f[i] = "panic" /\ r = PanicResult(i)

Init == result = Pending

Return ==
    /\ result = Pending
    /\ IsSerialResult(result') \/ IsItemPanic(result')
    /\ UNCHANGED <<len, f>>

Next == Return

Spec == Init /\ [][Next]_vars
=============================================================================
