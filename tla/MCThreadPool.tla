----------------------------- MODULE MCThreadPool -----------------------------
(* Model checking of ThreadPool: workers and tasks are model values.         *)
EXTENDS ThreadPool
=============================================================================
