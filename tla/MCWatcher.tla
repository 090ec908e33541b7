------------------------------ MODULE MCWatcher ------------------------------
(* One session file for Watcher; WatcherProofs has any number of them.       *)
EXTENDS Watcher

CONSTANT chat
=============================================================================
