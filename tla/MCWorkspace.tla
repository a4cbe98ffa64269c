---------------------------- MODULE MCWorkspace -----------------------------
(***************************************************************************)
(* The open project in one run: its file operations, or its layers and     *)
(* their preview.  The two views of the document share no state, so a      *)
(* behaviour is one of the part chosen at the start while the other keeps  *)
(* its initial state: their states are added, not multiplied.              *)
(***************************************************************************)
EXTENDS FileOperations, PreviewSession, TLC

VARIABLE part

Symmetry == Permutations(Files) \cup Permutations(Ops)

WorkspaceInit == part \in {"files", "preview"} /\ FileInit /\ PreviewInit

FilePart == part = "files" /\ FileNext /\ UNCHANGED <<previewVars, part>>
PreviewPart == part = "preview" /\ PreviewNext /\ UNCHANGED <<fileVars, part>>

WorkspaceSpec ==
  WorkspaceInit /\ [][FilePart \/ PreviewPart]_<<fileVars, previewVars, part>>

WorkspaceTypeOK == FileTypeOK /\ PreviewTypeOK
=============================================================================
