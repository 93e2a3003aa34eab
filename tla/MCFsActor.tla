----------------------------- MODULE MCFsActor ------------------------------
(* Module FsActor with a short channel and few handles.                    *)
EXTENDS FsActor, TLC
=============================================================================
