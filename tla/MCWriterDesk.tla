---------------------------- MODULE MCWriterDesk ----------------------------
(* The commands for model checking WriterDesk. *)
EXTENDS WriterDesk

CONSTANTS t1, t2

\* A first draft, a change to it, a return to it, and its publication.
MCCommands ==
    {[op |-> "save", text |-> t1, version |-> 0, expected |-> None],
     [op |-> "save", text |-> t2, version |-> 0, expected |-> 1],
     [op |-> "restore", text |-> None, version |-> 1, expected |-> 2],
     [op |-> "publish", text |-> None, version |-> 1, expected |-> 1]}
=============================================================================
