----------------------------- MODULE MCLibrary ------------------------------
(***************************************************************************)
(* A main thread that uses the whole interface, and a thread like those of *)
(* thread-test.c, which asks for the size of a variable, and logs.         *)
(***************************************************************************)
EXTENDS Library

CONSTANTS main, worker

MCThread == {main, worker}

\* One program uses all entry points, one reads in two threads, one logs in
\* two threads.
Menu(m, w) == [t \in MCThread |-> IF t = main THEN m ELSE w]

MCMenus == {
    Menu(Public \cup {"pop", "clear"}, {}),
    Menu({"get", "verbose", "show"}, {"size"}),
    Menu({"log", "mark", "verbose"}, {"log"})}

MCErrno == {"ENOENT", "EIO"}
=============================================================================
