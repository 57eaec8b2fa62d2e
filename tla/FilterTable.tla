----------------------------- MODULE FilterTable -----------------------------
(***************************************************************************)
(* What the injector's use of tc filters promises, without goroutines,    *)
(* handlers or watch streams: a table of filters on parent 1:0, each      *)
(* under a priority drawn from one shared allocator.                      *)
(*                                                                         *)
(* In one step, any actor may delete filters and add new ones.  A         *)
(* deletion is by priority, so it removes every filter of that priority.  *)
(* A new filter gets a priority the allocator has never handed out.  Two  *)
(* filters never share a priority, so deleting by priority takes exactly  *)
(* the filter its owner meant.                                             *)
(***************************************************************************)
EXTENDS Integers

CONSTANT Start     \* the allocator's first value; the first filter gets Start + 1

VARIABLES
    table,         \* the filters: records with at least a field prio
    next           \* the last priority handed out

ftVars == <<table, next>>

FTInit == table = {} /\ next = Start

\* A batch of tc calls: the allocator only moves forward, each added filter
\* carries a priority of its own handed out in this step, and each deleted
\* priority is gone.
Batch ==
    LET added == table' \ table
        removed == table \ table'
    IN /\ next' >= next
       /\ \A f \in added : f.prio \in next + 1..next'
       /\ \A f, g \in added : f.prio = g.prio => f = g
       /\ \A f \in removed : \A g \in table' : g.prio # f.prio

Spec == FTInit /\ [][Batch]_ftVars

\* What the table guarantees the owners of its filters.
UniquePriorities == \A f, g \in table : f.prio = g.prio => f = g

====
