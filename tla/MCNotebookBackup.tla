--------------------------- MODULE MCNotebookBackup ---------------------------
(* Two pages that share the store, with two backups and two restores.        *)
EXTENDS NotebookBackup

CONSTANTS t1, t2, b1, b2, o1, o2

MCTabs == {t1, t2}
MCBackups == {b1, b2}
MCRestores == {o1, o2}
=============================================================================
