---------------------------- MODULE MCTaManager -----------------------------
(***************************************************************************)
(* Instances of TaManager for TLC.  The trusted applications:              *)
(*   A     single-instance, multi-session                                  *)
(*   X, Y  the same, and interchangeable: model values, for the symmetry   *)
(*   K     single-instance, one session, kept alive                        *)
(*   C     single-instance, multi-session, kept even when it has crashed   *)
(*   M     multi-instance                                                  *)
(*   P     a pseudo TA                                                     *)
(*   Q     a concurrent pseudo TA                                          *)
(*   S     the pseudo TA for statistics                                    *)
(***************************************************************************)
EXTENDS TaManager, TLC

CONSTANTS X, Y

KindOf(u) ==
    CASE u \in {"A", X, Y} -> {"SI", "MS"}
      [] u = "K" -> {"SI", "KA"}
      [] u = "C" -> {"SI", "MS", "KA", "KC"}
      [] u = "M" -> {}
      [] u = "P" -> {"SI", "MS", "KA", "PTA"}
      [] u = "Q" -> {"SI", "MS", "KA", "PTA", "CC"}
      [] u = "S" -> {"SI", "MS", "KA", "PTA", "STATS"}

\* The TAs of a set, those in the relation calls being clients of others.
Setup(tas, calls, faults) ==
    [flags |-> [u \in tas |-> KindOf(u)],
     clients |-> [u \in tas |-> {v \in tas : <<u, v>> \in calls}],
     faults |-> faults,
     requests |-> {"invoke", "close"},
     early |-> FALSE,
     maxrec |-> 2]

WithCancel(s) == [s EXCEPT !.requests = @ \cup {"cancel"}]
WithEarly(s) == [s EXCEPT !.early = TRUE]

Sessions == {Setup({"A"}, {}, {"load", "panic"}),
             WithEarly(Setup({"C"}, {}, {"panic", "params"})),
             Setup({"K", "C"}, {}, {"panic", "params"})}
Calling == {Setup({X, Y}, {<<X, Y>>, <<Y, X>>}, {"panic"}),
            Setup({"M", "A"}, {<<"M", "A">>}, {"panic"}),
            [Setup({"M", "A"}, {<<"M", "A">>}, {}) EXCEPT !.maxrec = 1]}
Statistics == {WithCancel(Setup({"A", "S"}, {}, {"panic", "spurious"})),
               Setup({"A", "Q"}, {}, {"params", "memory", "spurious"}),
               Setup({"P", "Q"}, {}, {"params", "memory"})}
Naming == {WithEarly(WithCancel(Setup({"A"}, {}, {"load", "memory"}))),
           WithEarly(Setup({"K"}, {}, {"params", "panic"}))}
CallingAndStatistics == Calling \cup Statistics \cup Naming
Plain == {Setup({"A"}, {}, {})}
StatisticsOnly == {Setup({"A", "S"}, {}, {})}

Symmetry == Permutations(Threads) \cup Permutations(Ctxs)
SymmetryOfCalls == Symmetry \cup Permutations({X, Y})
=============================================================================
