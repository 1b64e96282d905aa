--------------------------- MODULE MCDFGWorklist ---------------------------
(***************************************************************************)
(* Two virtual machines share the worklist.  The function of the first     *)
(* relies on a variable and on a function's entry; the plans of the second *)
(* compete for the compilation threads.                                    *)
(***************************************************************************)
EXTENDS DFGWorklist, TLC

CONSTANTS a, b,               \* virtual machines
          f, g,               \* a function of each
          t1, t2,             \* compilation threads
          var, entry          \* watchpoint sets

MCValues == 0..2
MCVMOf == f :> a @@ g :> b @@ var :> a @@ entry :> a
MCDependsOn == f :> {var, entry} @@ g :> {}
MCKind == var :> "variable" @@ entry :> "entry"
=============================================================================
