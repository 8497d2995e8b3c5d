----------------------------- MODULE MCJournal -----------------------------
(* Journal for TLC.  MCJournal.cfg has two processes, that take turns or do *)
(* not, two faults and a file that is compacted after the second record;    *)
(* MCJournalTorn.cfg has one process and a single fault.                    *)
EXTENDS Journal
=============================================================================
