--------------------------------- MODULE Tables ---------------------------------
(***************************************************************************)
(* Tables are functions; a long one is put together from smaller ones.     *)
(***************************************************************************)

\* The entries of all the tables, none of which is in two of them.
Joined(tables) == [x \in UNION {DOMAIN t : t \in tables} |-> (CHOOSE t \in tables : x \in DOMAIN t)[x]]
=============================================================================
