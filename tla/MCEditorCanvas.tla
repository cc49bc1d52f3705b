---------------------------- MODULE MCEditorCanvas ----------------------------
(* EditorCanvas by itself.                                                 *)
EXTENDS EditorCanvas
===============================================================================
