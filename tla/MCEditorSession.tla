--------------------------- MODULE MCEditorSession ---------------------------
EXTENDS EditorSession, TLC
Widgets == Permutations(Keys)
===============================================================================
