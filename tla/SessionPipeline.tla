--------------------------- MODULE SessionPipeline ---------------------------
(***************************************************************************)
(* From an MPC project to a merge: an import makes the session and an      *)
(* empty hardware branch from revision zero, and once it was written the   *)
(* two sides edit and merge.  The import leaves the revision it gives the  *)
(* session out of that branch, as the code does.                           *)
(***************************************************************************)
EXTENDS SessionImport, SessionMerge

CONSTANT Carried   \* bound: the projects carried on into a merge

MergeUntouched ==
  /\ plan = NoPlan /\ revision = Zero
  /\ \A side \in Sides : changes[side] = <<>> /\ head[side] = Zero

PipelineInit == ImportInit /\ MergeInit

(* Nothing in a merge reads the session, so the two are followed one after *)
(* the other and not interleaved.                                          *)
PipelineNext ==
  \/ MergeUntouched /\ ImportNext /\ UNCHANGED mergeVars
  \/ /\ project \in Carried
     /\ imported = "valid" /\ told = "imported" /\ ~lost /\ archive = None /\ report = None
     /\ MergeNext /\ UNCHANGED importVars

PipelineSpec == PipelineInit /\ [][PipelineNext]_<<importVars, mergeVars>>
=============================================================================
