--------------------------- MODULE MCTransaction ---------------------------
(* Values of Transaction's constants for TLC. *)
EXTENDS Transaction

MCContents == {"none", "base", "out1", "out2", "edit1", "edit2"}
MCBase == {"base"}
MCProduced == [t \in TxnIds |-> IF t = 1 THEN {"out1", "none"} ELSE {"out2"}]
MCEdits == {"edit1", "edit2"}

\* Nobody has to be still.
NoWindow == {}

\* The points at which a file, the index or HEAD is changed, or a baseline is
\* fixed, on the strength of a check made one statement earlier.
ReplacementWindow == {"replace", "restore"}
BaselineWindow == {"baseline"}
CommitWindow == {"recheckStaged", "commit"}
Windows == ReplacementWindow \cup BaselineWindow \cup CommitWindow

\* All of them but one.
AllButBaseline == Windows \ BaselineWindow
AllButCommit == Windows \ CommitWindow

\* All of them, and the copying of the backups.
WindowsAndBackup == Windows \cup {"backup"}
=============================================================================
