------------------------------ MODULE Startup ------------------------------
(***************************************************************************)
(* The program from its start (src/main.cpp): the main thread opens the    *)
(* database, starts the thread that runs the watcher, and only then makes  *)
(* the objects that the thread and the indexer use.  The process may stop  *)
(* at any moment, by a crash of its own or otherwise, and is started       *)
(* again, in either mode; what it had indexed it finds in the database.    *)
(***************************************************************************)
EXTENDS BlockIndexer

VARIABLES
    main,               \* the next statement of main
    watcherThread,      \* what runBlockfileWatcher does
    mempoolMonitor,     \* the global pointers: "null" or "made", and for the
    blockFileWatcher    \* watcher the monitor that it was given

mainVars == <<main, watcherThread, mempoolMonitor, blockFileWatcher>>
startupVars == <<indexerVars, mainVars>>

NoWatcher == [monitor |-> "no watcher"]
WatcherWith(monitor) == [monitor |-> monitor]

StartProgram ==
    /\ main' = "openDatabase" /\ watcherThread' = "none"
    /\ mempoolMonitor' = "null" /\ blockFileWatcher' = NoWatcher

StartupInit ==
    /\ IndexerInit
    /\ main = "openDatabase" /\ watcherThread = "none"
    /\ mempoolMonitor = "null" /\ blockFileWatcher = NoWatcher

\* A step of main from one statement to another.
Main(from, to) == main = from /\ main' = to /\ UNCHANGED indexerVars

OpenDatabase ==
    /\ Main("openDatabase", "readParams")
    /\ UNCHANGED <<watcherThread, mempoolMonitor, blockFileWatcher>>

\* The mode is chosen on the command line.
ReadParams ==
    /\ \E to \in {"dumpDoubleSpends", "startWatcher"} : Main("readParams", to)
    /\ UNCHANGED <<watcherThread, mempoolMonitor, blockFileWatcher>>

\* The report of double spends is made by a watcher without a monitor; it ends
\* the program and never indexes (see DoubleSpends).
DumpDoubleSpends ==
    /\ Main("dumpDoubleSpends", "ended")
    /\ blockFileWatcher' = WatcherWith(mempoolMonitor)
    /\ UNCHANGED <<watcherThread, mempoolMonitor>>

StartWatcherThread ==
    /\ Main("startWatcher", "makeMonitor")
    /\ watcherThread' = "started"
    /\ UNCHANGED <<mempoolMonitor, blockFileWatcher>>

\* Mutant of MakeMonitor: the pointer is set once the watcher has been made.
MakeMonitorLate ==
    /\ Main("makeMonitor", "makeWatcher")
    /\ mempoolMonitor' = IF blockFileWatcher = NoWatcher THEN "null" ELSE "made"
    /\ UNCHANGED <<watcherThread, blockFileWatcher>>

\* With the start of the monitor's thread, which has the monitor to run on.
MakeMonitor ==
    /\ Main("makeMonitor", "makeWatcher")
    /\ mempoolMonitor' = "made"
    /\ UNCHANGED <<watcherThread, blockFileWatcher>>

MakeWatcher ==
    /\ Main("makeWatcher", "serve")
    /\ blockFileWatcher' = WatcherWith(mempoolMonitor)
    /\ UNCHANGED <<watcherThread, mempoolMonitor>>

\* The thread takes the watcher that is there when it comes to run: if there
\* is none yet the program ends here (Stop).
RunWatcher ==
    /\ watcherThread = "started"
    /\ blockFileWatcher # NoWatcher
    /\ watcherThread' = "running"
    /\ UNCHANGED <<indexerVars, main, mempoolMonitor, blockFileWatcher>>

Watch ==
    /\ watcherThread = "running"
    /\ RunningNext
    /\ UNCHANGED mainVars

\* The program stops: because the thread found no watcher, at its end, or for
\* whatever reason.  It is started again.
Stop ==
    /\ RestartIndexer
    /\ StartProgram

StartupNext ==
    \/ OpenDatabase \/ ReadParams \/ DumpDoubleSpends
    \/ StartWatcherThread \/ MakeMonitor \/ MakeWatcher
    \/ RunWatcher \/ Watch \/ Stop

StartupSpec == StartupInit /\ [][StartupNext]_startupVars

-----------------------------------------------------------------------------
(* Properties.                                                             *)

\* Whenever the threads meet, the indexer reports the transactions of a batch
\* (transactionIndexed) to the monitor that the web server asks, and never to
\* a null pointer; and a program that dumps double spends indexes nothing.
ReportsToMonitor ==
    job.step # "idle" =>
        /\ blockFileWatcher = WatcherWith("made") /\ mempoolMonitor = "made"
        /\ main = "serve"
=============================================================================
