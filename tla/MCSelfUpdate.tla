---------------------------- MODULE MCSelfUpdate ----------------------------
(* Two updaters.  The forms of a release: complete, from before manifests, *)
(* crate only, a manifest for another release, a manifest ahead of its     *)
(* binary, a wrong checksum, and a binary that was not rebuilt.            *)
EXTENDS SelfUpdate, TLC

Form(m, b, c) == [manifest |-> m, binary |-> b, checksum |-> c]
MCOrigins == {Form("good", "good", "good"), Form("absent", "good", "good"),
              Form("absent", "absent", "absent"), Form("mismatch", "good", "good"),
              Form("good", "absent", "absent"), Form("absent", "good", "mismatch"),
              Form("good", "stale", "good")}
=============================================================================
