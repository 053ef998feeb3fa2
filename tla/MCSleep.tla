-------------------------------- MODULE MCSleep --------------------------------
(* The instance has two waiters and two wakers on two processors. *)
EXTENDS Sleep
================================================================================
