--------------------------- MODULE MCSharedCache ---------------------------
(***************************************************************************)
(* The relay's clients ask for exactly what the races ask for, so that     *)
(* each may find the other's answer in the cache.                          *)
(***************************************************************************)
EXTENDS SharedCache

MCQuestions == Names \X {"AAAA", "A"}
=============================================================================
