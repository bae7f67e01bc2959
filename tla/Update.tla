------------------------------- MODULE Update -------------------------------
(***************************************************************************)
(* One load, from a feed to the difference with what the cache holds:      *)
(* TriggerRefresh and updateCache at the level of slices (cache.go), made  *)
(* of modules Feed, Ingest and MakeDiff.  The difference is between the    *)
(* very slice that validation and expiry leave and the cached one; what    *)
(* becomes of it is in module Cache.                                       *)
(***************************************************************************)
EXTENDS Ingest, MakeDiff

CONSTANT Cached   \* slices that the cache may hold

\* What was loaded is compared.
ASSUME CachedAssumption == Cached \subseteq Slices /\ Entries \subseteq Items

vars == <<ingestVars, diffVars>>

Init ==
  /\ IngestInit
  /\ new = <<>> /\ old = <<>> /\ which = "makeDiff"
  /\ i = 1 /\ j = 1 /\ add = <<>> /\ del = <<>>

Load == IngestNext /\ UNCHANGED diffVars

\* Start stores what it loaded; a refresh compares it.
StartDiff ==
  /\ pc = "done" /\ ~cold
  /\ pc' = "diff"
  /\ new' = list /\ old' \in Cached
  /\ which' \in {"makeDiff", "makeASPADiff"}
  /\ list' = <<>> /\ feed' = <<>> /\ src' = <<>>
  /\ UNCHANGED <<feedVars, cold, kept, next, i, j, add, del>>

Diff ==
  /\ pc = "diff"
  /\ DiffNext
  /\ UNCHANGED ingestVars

Next == Load \/ StartDiff \/ Diff

Spec == Init /\ [][Next]_vars
=============================================================================
