------------------------ MODULE MCKnowledgeDispatch -------------------------
(* A small instance of KnowledgeDispatch: three commands, each of which    *)
(* may be written, retried and reconciled.                                 *)
EXTENDS KnowledgeDispatch
=============================================================================
