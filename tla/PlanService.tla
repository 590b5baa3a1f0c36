---------------------------- MODULE PlanService ----------------------------
(***************************************************************************)
(* What a plan cache promises its callers: a call for a number of source   *)
(* symbols is answered, with a plan made for that number's extended size,  *)
(* or with None for a size whose plan cannot be made.  Whether the plan    *)
(* was cached, evicted, or made by another thread does not show.           *)
(***************************************************************************)
CONSTANTS
  Threads,
  SymbolCounts,  \* numbers of source symbols that callers ask for
  Extended,      \* extended_source_block_symbols, as a function
  Unsolvable,    \* extended sizes whose plan cannot be made
  None

VARIABLES
  phase,    \* phase[t]: "idle", "asked" or "answered"
  asked,    \* asked[t]: the number of the latest call
  answer    \* answer[t]: the extended size the answered plan is for, or None

vars == <<phase, asked, answer>>

Init ==
  /\ phase = [t \in Threads |-> "idle"]
  /\ asked \in [Threads -> SymbolCounts]
  /\ answer = [t \in Threads |-> None]

Ask(t, n) ==
  /\ phase[t] = "idle"
  /\ phase' = [phase EXCEPT ![t] = "asked"]
  /\ asked' = [asked EXCEPT ![t] = n]
  /\ UNCHANGED answer

Reply(t) ==
  /\ phase[t] = "asked"
  /\ phase' = [phase EXCEPT ![t] = "answered"]
  /\ answer' = [answer EXCEPT ![t] =
                  IF Extended[asked[t]] \in Unsolvable THEN None ELSE Extended[asked[t]]]
  /\ UNCHANGED asked

Take(t) ==
  /\ phase[t] = "answered"
  /\ phase' = [phase EXCEPT ![t] = "idle"]
  /\ answer' = [answer EXCEPT ![t] = None]
  /\ UNCHANGED asked

Next == \E t \in Threads : Reply(t) \/ Take(t) \/ \E n \in SymbolCounts : Ask(t, n)

Spec == Init /\ [][Next]_vars
=============================================================================
