---- MODULE MCLifecycle ----
(* Every configuration of the five programs, two calls of connect, two     *)
(* jobs and two failures.                                                  *)
EXTENDS Lifecycle
====
