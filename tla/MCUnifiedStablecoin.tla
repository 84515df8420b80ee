------------------------ MODULE MCUnifiedStablecoin ------------------------
(* allocateUnifiedBalance on every small pool, one initial state a case, and *)
(* beside the loop of the code.                                              *)
EXTENDS Allocation

\* The loop of the code: the sources in order, each giving what is still missing.
RECURSIVE Drain(_, _, _)
Drain(bal, sources, missing) ==
  IF sources = {} \/ missing <= 0 THEN bal
  ELSE LET s == CHOOSE x \in sources :
                  \A y \in sources \ {x} : Richer(avail, x, y)
           n == Min({bal[s], missing})
       IN  Drain([bal EXCEPT ![s] = @ - n, ![target] = @ + n],
                 sources \ {s}, missing - n)

\* The plan leaves the balances that the code's loop over the sorted sources
\* leaves.
PlanIsTheLoop ==
  ~allocated /\ TotalAvailable(avail, Networks) >= amount =>
    Apply(Plan(avail, Networks, target, amount), avail)
      = Drain(avail, Sources(avail, Networks, target), amount - avail[target])
============================================================================
