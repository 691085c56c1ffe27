------------------------------ MODULE Benchmark ------------------------------
(***************************************************************************)
(* The remote benchmark driver (cli/src/remote/benchmark.rs and            *)
(* protocol.rs): for every load of a sweep it drives the orchestrator      *)
(* through a sequence of phases on the machines of a testbed, measures the *)
(* validators it deployed, tears them down and downloads their logs. A     *)
(* phase may fail at any point, and Ctrl-C may come at any time.           *)
(*                                                                         *)
(* The orchestrator is external: cleanup stops the nodes and wipes their   *)
(* storage, and deletes the logs when it is told to; update builds the     *)
(* commit of the settings; configure runs the genesis command; run_nodes   *)
(* runs the node commands. What a driver leaves on the machines, the next  *)
(* one finds. Several drivers are run one after the other. The faults that *)
(* the session injects, with the ticks that report them, are left out.     *)
(***************************************************************************)
EXTENDS Integers, Sequences, FiniteSets

CONSTANTS
    Sweeps,         \* the lists of loads that a driver is run with
    Committee,      \* the number of nodes
    Options,        \* the flags and settings that a driver is run with
    MaxDrivers,     \* bound on the drivers
    None

Loads == UNION {{sweep[i] : i \in DOMAIN sweep} : sweep \in Sweeps}
Shares == {load \div Committee : load \in Loads}
Commits == {"outdated", "current", "unknown"}
Flags == [skipUpdate : BOOLEAN, skipConfiguration : BOOLEAN,
          monitoring : BOOLEAN, logProcessing : BOOLEAN]

\* --loads has a default and takes at least one value.
ASSUME BenchmarkAssumption ==
    /\ Sweeps \subseteq Seq(Nat) \ {<< >>} /\ Committee \in Nat \ {0}
    /\ Options \subseteq Flags
    /\ MaxDrivers \in Nat

VARIABLES
    testbed,    \* the machines: nodes, storage, logs, load per node, commit built
    driver,     \* the process: its options, loads to go, phases to go and whether
                \* it has a handler for Ctrl-C
    files,      \* the measurement files, by commit and load
    downloaded, \* the deployments whose logs were last downloaded
    deployed    \* how many deployments there were

vars == <<testbed, driver, files, downloaded, deployed>>

Phases == {"cleanup", "install", "update", "monitor", "configure", "run_nodes",
           "run_clients", "start_session", "measure", "tear_down", "download_logs"}
Nodes == [deployment : Nat, load : Shares \cup {0}, built : Commits]
Testbed == [nodes : Nodes \cup {None}, storage : {"wiped", "used"}, logs : SUBSET Nat,
            config : Shares, built : Commits]
Driver == [at : {"working", "done", "failed"}, options : Options, loads : Seq(Loads),
           phases : Seq(Phases), handler : BOOLEAN, number : 0..MaxDrivers]
-----------------------------------------------------------------------------
When(condition, phase) == IF condition THEN <<phase>> ELSE << >>

\* Seeded slip: the machines are cleaned up before the first load only.
RunPhasesCleanedOnce(options, first) ==
    (IF first THEN <<"cleanup">> \o (IF options.skipUpdate THEN << >>
                                     ELSE <<"install", "update">>)
     ELSE << >>)
    \o When(options.monitoring, "monitor")
    \o When(~options.skipConfiguration, "configure")
    \o <<"run_nodes", "run_clients", "start_session", "measure", "tear_down">>
    \o When(options.logProcessing, "download_logs")

\* Seeded slip: the validators run until the next load cleans up.
RunPhasesLeaking(options, first) ==
    (IF first THEN <<"cleanup">> \o (IF options.skipUpdate THEN << >>
                                     ELSE <<"install", "update">>)
     ELSE << >>)
    \o <<"cleanup">>
    \o When(options.monitoring, "monitor")
    \o When(~options.skipConfiguration, "configure")
    \o <<"run_nodes", "run_clients", "start_session", "measure">>
    \o When(options.logProcessing, "download_logs")

\* The loop body of benchmark, with run_one, for the first load or a later one.
RunPhases(options, first) ==
    (IF first THEN <<"cleanup">> \o (IF options.skipUpdate THEN << >>
                                     ELSE <<"install", "update">>)
     ELSE << >>)
    \o <<"cleanup">>
    \o When(options.monitoring, "monitor")
    \o When(~options.skipConfiguration, "configure")
    \o <<"run_nodes", "run_clients", "start_session", "measure", "tear_down">>
    \o When(options.logProcessing, "download_logs")

Phase == Head(driver.phases)
Load == Head(driver.loads)
Share == Load \div Committee

\* Seeded slip: the results of a skipped update go under the commit of the settings.
SettingsCommit(options) == "current"

\* set_unknown_commit when the update is skipped.
ResultsCommit(options) == IF options.skipUpdate THEN "unknown" ELSE "current"

\* cleanup(true) and cleanup(false).
CleanedUp(deleteLogs) ==
    [testbed EXCEPT !.nodes = None, !.storage = "wiped",
                    !.logs = IF deleteLogs THEN {} ELSE @]

\* Seeded slip: every node is given the whole load.
ConfiguredWithTotal == [testbed EXCEPT !.config = Load]

\* genesis_command writes the load generator's config with the node's share.
Configured == [testbed EXCEPT !.config = Share]

\* node_command passes the config only to nodes that have a load to bear.
Deployed ==
    [testbed EXCEPT !.nodes = [deployment |-> deployed + 1,
                               load       |-> IF Share > 0 THEN testbed.config ELSE 0,
                               built      |-> testbed.built],
                    !.storage = "used",
                    !.logs = @ \cup {deployed + 1}]

\* Seeded slip: the logs are deleted when the validators are torn down.
KeepsNoLogs == CleanedUp(TRUE)

TornDown == CleanedUp(FALSE)

\* What a phase does to the machines.
Effect ==
    CASE Phase = "cleanup"   -> CleanedUp(TRUE)
      [] Phase = "update"    -> [testbed EXCEPT !.built = "current"]
      [] Phase = "configure" -> Configured
      [] Phase = "run_nodes" -> Deployed
      [] Phase = "tear_down" -> TornDown
      [] OTHER               -> testbed

\* The testbed was configured before, for another sweep.
Init ==
    /\ testbed \in [nodes : {None}, storage : {"wiped"}, logs : {{}},
                    config : Shares, built : {"outdated"}]
    /\ driver \in [at : {"done"}, options : Options, loads : {<< >>}, phases : {<< >>},
                   handler : {FALSE}, number : {0}]
    /\ files = [name \in Commits \X Loads |-> None]
    /\ downloaded = {}
    /\ deployed = 0

Started(options, sweep, at, phases) ==
    /\ driver.at # "working"
    /\ driver.number < MaxDrivers
    /\ driver' = [at |-> at, options |-> options, loads |-> sweep, phases |-> phases,
                  handler |-> FALSE, number |-> driver.number + 1]
    /\ UNCHANGED <<testbed, files, downloaded, deployed>>

\* The command is run with other options and loads.
Start(options, sweep) == Started(options, sweep, "working", RunPhases(options, TRUE))

\* A file of parameters does not load, or the instances are too few: no phase begins.
Refuse(options, sweep) == Started(options, sweep, "failed", << >>)

Working(phase) == driver.at = "working" /\ driver.phases # << >> /\ Phase = phase

\* The select of the first tick registers the handler, for the life of the process.
NextPhase == [driver EXCEPT !.phases = Tail(@),
                            !.handler = @ \/ Phase = "start_session"]

Complete(phase) ==
    /\ phase # "measure"
    /\ Working(phase)
    /\ testbed' = Effect
    /\ driver' = NextPhase
    /\ deployed' = IF phase = "run_nodes" THEN deployed + 1 ELSE deployed
    /\ downloaded' = IF phase = "download_logs" THEN testbed.logs ELSE downloaded
    /\ UNCHANGED files

\* A phase fails, before or after it did its work: benchmark returns the error.
Fail(phase) ==
    /\ Working(phase)
    /\ \/ UNCHANGED <<testbed, deployed>>
       \/ /\ phase # "measure"
          /\ testbed' = Effect
          /\ deployed' = IF phase = "run_nodes" THEN deployed + 1 ELSE deployed
    /\ driver' = [driver EXCEPT !.at = "failed"]
    /\ UNCHANGED <<files, downloaded>>

\* A metrics tick rewrites the file of the run, which is named by commit and load.
Scrape ==
    /\ Working("measure")
    /\ files' = [files EXCEPT ![<<ResultsCommit(driver.options), Load>>] = testbed.nodes]
    /\ UNCHANGED <<testbed, driver, downloaded, deployed>>

\* The duration has elapsed, or Ctrl-C ends the run gracefully.
EndMeasurement ==
    /\ Working("measure")
    /\ driver' = NextPhase
    /\ UNCHANGED <<testbed, files, downloaded, deployed>>

\* Ctrl-C outside the select: without a handler the process dies, with it nothing happens.
Interrupt ==
    /\ driver.at = "working"
    /\ ~driver.handler
    /\ driver' = [driver EXCEPT !.at = "failed"]
    /\ UNCHANGED <<testbed, files, downloaded, deployed>>

\* The loop over the loads.
NextLoad ==
    /\ driver.at = "working"
    /\ driver.phases = << >>
    /\ driver' =
          IF Len(driver.loads) = 1
          THEN [driver EXCEPT !.at = "done", !.loads = << >>]
          ELSE [driver EXCEPT !.loads = Tail(@), !.phases = RunPhases(driver.options, FALSE)]
    /\ UNCHANGED <<testbed, files, downloaded, deployed>>

Next ==
    \/ \E options \in Options, sweep \in Sweeps :
           Start(options, sweep) \/ Refuse(options, sweep)
    \/ \E phase \in Phases : Complete(phase) \/ Fail(phase)
    \/ Scrape \/ EndMeasurement \/ Interrupt \/ NextLoad

Spec == Init /\ [][Next]_vars
-----------------------------------------------------------------------------
(***************************************************************************)
(* The machines, the driver and its results are well-formed: what a node   *)
(* is configured with or generates is a share of some load, or nothing.    *)
(***************************************************************************)
TypeOK ==
    /\ testbed \in Testbed
    /\ driver \in Driver
    /\ files \in [Commits \X Loads -> Nodes \cup {None}]
    /\ downloaded \subseteq 1..deployed
    /\ deployed \in Nat

(***************************************************************************)
(* Whatever an earlier driver left when it failed or was killed, nodes are *)
(* deployed on machines where none run and on storage that was wiped, so   *)
(* no deployment recovers the log of another.                              *)
(* (benchmark.rs:97-115 and run.rs:52: "The orchestrator wipes storage     *)
(* between runs and re-runs genesis".)                                     *)
(***************************************************************************)
DeploymentsStartClean ==
    [][testbed'.nodes \notin {None, testbed.nodes} =>
           testbed.nodes = None /\ testbed.storage = "wiped" /\ testbed.logs = {}]_vars

(***************************************************************************)
(* A driver that comes to the end of its sweep leaves no validator running,*)
(* a run that Ctrl-C ended included. (benchmark.rs:226-227: "so the caller *)
(* still runs cleanup and tears down the remote validators, rather than    *)
(* leaking them".)                                                         *)
(***************************************************************************)
DoneMeansTornDown == driver.at = "done" => testbed.nodes = None

(***************************************************************************)
(* The logs that are downloaded are those of the run that ended, of no     *)
(* other and of no earlier driver, although the download follows the       *)
(* teardown. (benchmark.rs:141-158.)                                       *)
(***************************************************************************)
LogsAreOfTheRun ==
    [][Complete("download_logs") => downloaded' = {deployed}]_vars

(***************************************************************************)
(* A measurement file holds what its name says: the load that each node    *)
(* generated is its share of the load of the file, unless the driver was   *)
(* told to skip the configuration, and a file of a known commit measures   *)
(* validators that were built from it. (args.rs:119: "One run per load.",  *)
(* benchmark.rs:55-58: the commit of a skipped update is unknown.)         *)
(***************************************************************************)
FilesAreTruthful ==
    [][\A commit \in Commits, load \in Loads :
           LET nodes == files'[<<commit, load>>]
           IN  nodes # files[<<commit, load>>] =>
                   /\ driver.options.skipConfiguration \/ nodes.load = load \div Committee
                   /\ commit = "current" => nodes.built = "current"]_vars
=============================================================================
