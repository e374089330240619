--------------------------- MODULE ServedTextbook ---------------------------
(***************************************************************************)
(* What the students of one board/class/subject scope see of its corpus:   *)
(* nothing until a first version is activated, and from then on exactly    *)
(* one version, which only an activation or a rollback replaces            *)
(* (LocalAdminService.activate, get_active_corpus_version).                *)
(*                                                                         *)
(* CorpusLifecycle implements this, with all the work on versions that     *)
(* nobody is served; Retrieval answers questions while it happens.         *)
(***************************************************************************)
CONSTANTS Versions, NoVersion

VARIABLE served \* the active version, or NoVersion

Init == served = NoVersion

\* Another version takes over, in one transaction.
Activate(v) ==
  /\ served' = v
  /\ v # served

Next == \E v \in Versions : Activate(v)

Spec == Init /\ [][Next]_served
=============================================================================
