--------------------------- MODULE MCDagExecutor ---------------------------
(***************************************************************************)
(* Every workflow file with N nodes and at most MaxEdges edges, parallel   *)
(* edges and self-loops included.                                          *)
(***************************************************************************)
EXTENDS DagExecutor
=============================================================================
