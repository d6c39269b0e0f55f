---------------------------- MODULE MCCaseFiles ----------------------------
(* A small instance of CaseFiles: two requests of one editor, a table, an *)
(* image, a document, and a native answer with a text and a file.           *)
EXTENDS CaseFiles, TLC

CONSTANTS r1, r2, a1

MCProjectOf == a1 :> "p1"
MCContextOf == a1 :> 1
Symmetric == Permutations(Requests) \cup Permutations(ObjectKeys)
=============================================================================
