---------------------------- MODULE MCThreadPool ----------------------------
EXTENDS ThreadPool

(* Negative, zero, one, and as many as there are workers: as the limit of  *)
(* the list, none at all, always reached, reached by one, and out of reach. *)
GarbageValues == {-1, 0, 1, 2}
=============================================================================
