---------------------------- MODULE MCJobManager ----------------------------
(* Small instances of JobManager: jobs between two servers, and operators  *)
(* that send plans in either direction, of their job or of another.        *)
EXTENDS JobManager, TLC

CONSTANTS s1, s2, j1, j2

MCServer == {s1, s2}
OneJob == {j1}
TwoJobs == {j1, j2}

(* What an operator sends: some rows of a plan from s1 to s2.              *)
OneWay == [id : Job, src : {s1}, dst : {s2}, rows : SUBSET Res \ {{}}]

(* The same and plans that the checks refuse.                              *)
AnyPlan == [id : Job, src : Server, dst : Server, rows : SUBSET Res]

(* Two jobs are checked without faults, which the run with one job has,    *)
(* and with writes for the first of them only: the second is there for the *)
(* plan that was made for it.                                              *)
SecondOnlyPlanned ==
    /\ faulty = {}
    /\ events[j2] \subseteq {"created", "plan failed"}

Symmetry == Permutations(Client)
=============================================================================
