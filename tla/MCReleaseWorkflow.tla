------------------------- MODULE MCReleaseWorkflow --------------------------
(***************************************************************************)
(* Two surfaces, "more" with an operation that "plain" lacks, and a patch  *)
(* version that packs to two tarballs and may be published by hand.        *)
(***************************************************************************)
EXTENDS ReleaseWorkflow, MCSurfaces

MCSurfaceNames == [plain |-> Plain, more |-> [Plain EXCEPT !.operations = @ @@ [list |-> Operation]]]

MCVersions == {<<1, 0, 0>>, <<1, 1, 0>>, <<1, 1, 1>>}
MCTarballs == [v \in MCVersions |-> IF v = <<1, 1, 1>> THEN {"a", "b"} ELSE {"a"}]
MCOutsiders == {<<1, 1, 1>>}
=============================================================================
