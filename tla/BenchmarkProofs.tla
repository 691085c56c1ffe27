--------------------------- MODULE BenchmarkProofs ---------------------------
(***************************************************************************)
(* Proofs about Benchmark: what a sweep measures, tears down and           *)
(* downloads, wherever earlier drivers stopped. For every set of sweeps    *)
(* and of flags, every committee and any number of drivers.                *)
(*                                                                         *)
(* The phases that a driver has to go are kept as a set, with the order of *)
(* the phases as a rank: what is true of the machines follows from which   *)
(* phases are still to come.                                               *)
(***************************************************************************)
EXTENDS Benchmark, TLAPS

ToGo(phases) == {phases[i] : i \in DOMAIN phases}

\* The place of a phase in the work on one load: what prepares the machines comes first.
Rank ==
    [phase \in Phases |->
        CASE phase \in {"cleanup", "install", "update"} -> 1
          [] phase = "monitor"       -> 2
          [] phase = "configure"     -> 3
          [] phase = "run_nodes"     -> 4
          [] phase = "run_clients"   -> 5
          [] phase = "start_session" -> 6
          [] phase = "measure"       -> 7
          [] phase = "tear_down"     -> 8
          [] phase = "download_logs" -> 9]

\* Phases of ranks lo to hi, in the order of their ranks.
Ordered(phases, lo, hi) ==
    /\ phases \in Seq(Phases)
    /\ \A i \in 1..Len(phases) : Rank[phases[i]] \in lo..hi
    /\ \A i, j \in 1..Len(phases) :
           i < j => \/ Rank[phases[i]] < Rank[phases[j]]
                    \/ Rank[phases[i]] = 1 /\ Rank[phases[j]] = 1

(***************************************************************************)
(* The ranks of the phases.                                                *)
(***************************************************************************)
LEMMA Ranks ==
    /\ Rank \in [Phases -> 1..9]
    /\ Rank["cleanup"] = 1 /\ Rank["install"] = 1 /\ Rank["update"] = 1
    /\ Rank["monitor"] = 2 /\ Rank["configure"] = 3 /\ Rank["run_nodes"] = 4
    /\ Rank["run_clients"] = 5 /\ Rank["start_session"] = 6 /\ Rank["measure"] = 7
    /\ Rank["tear_down"] = 8 /\ Rank["download_logs"] = 9
BY DEF Rank, Phases

(***************************************************************************)
(* Ranks are numbers.                                                      *)
(***************************************************************************)
LEMMA RankType == \A phase \in Phases : Rank[phase] \in 1..9 /\ Rank[phase] \in Nat
<1>1. Rank \in [Phases -> 1..9]
  BY Ranks
<1>2. ASSUME NEW phase \in Phases PROVE Rank[phase] \in 1..9
  BY <1>1
<1> QED
  BY <1>2

(***************************************************************************)
(* One list of phases after another.                                       *)
(***************************************************************************)
LEMMA Concatenation ==
    ASSUME NEW a \in Nat, NEW b \in Nat, NEW c \in Nat, NEW d \in Nat,
           NEW s, NEW t, Ordered(s, a, b), Ordered(t, c, d),
           a <= c, b <= d, b < c \/ (b = 1 /\ c = 1 /\ d = 1)
    PROVE  /\ Ordered(s \o t, a, d)
           /\ ToGo(s \o t) = ToGo(s) \cup ToGo(t)
<1> DEFINE u == s \o t
<1>1. s \in Seq(Phases) /\ t \in Seq(Phases)
  BY DEF Ordered
<1>2. /\ Len(s) \in Nat /\ Len(t) \in Nat /\ u \in Seq(Phases) /\ Len(u) = Len(s) + Len(t)
      /\ DOMAIN u = 1..Len(u) /\ DOMAIN s = 1..Len(s) /\ DOMAIN t = 1..Len(t)
  BY <1>1
<1>3. \A i \in 1..Len(s) : i \in 1..Len(u) /\ u[i] = s[i]
  BY <1>1, <1>2
<1>4. \A i \in 1..Len(t) : Len(s) + i \in 1..Len(u) /\ u[Len(s) + i] = t[i]
  BY <1>1, <1>2
<1>5. \A i \in 1..Len(u) : \/ i \in 1..Len(s) /\ u[i] = s[i]
                           \/ i - Len(s) \in 1..Len(t) /\ u[i] = t[i - Len(s)]
  BY <1>1, <1>2
<1> HIDE DEF u
<1>6. ToGo(u) = ToGo(s) \cup ToGo(t)
  <2>1. ASSUME NEW x \in ToGo(u) PROVE x \in ToGo(s) \cup ToGo(t)
    <3>1. PICK i \in 1..Len(u) : x = u[i]
      BY <1>2 DEF ToGo
    <3> QED
      BY <1>2, <1>5, <3>1 DEF ToGo
  <2>2. ASSUME NEW x \in ToGo(s) PROVE x \in ToGo(u)
    BY <1>2, <1>3 DEF ToGo
  <2>3. ASSUME NEW x \in ToGo(t) PROVE x \in ToGo(u)
    <3>1. PICK i \in 1..Len(t) : x = t[i]
      BY <1>2 DEF ToGo
    <3> QED
      BY <1>2, <1>4, <3>1 DEF ToGo
  <2> QED
    BY <2>1, <2>2, <2>3
<1>7. \A i \in 1..Len(u) : Rank[u[i]] \in a..d
  <2> TAKE i \in 1..Len(u)
  <2>1. CASE i \in 1..Len(s) /\ u[i] = s[i]
    <3>1. Rank[u[i]] \in a..b
      BY <2>1 DEF Ordered
    <3> QED
      BY <3>1, b <= d
  <2>2. CASE i - Len(s) \in 1..Len(t) /\ u[i] = t[i - Len(s)]
    <3>1. Rank[u[i]] \in c..d
      BY <2>2 DEF Ordered
    <3> QED
      BY <3>1, a <= c
  <2> QED
    BY <1>5, <2>1, <2>2
<1>8. ASSUME NEW i \in 1..Len(u), NEW j \in 1..Len(u), i < j
      PROVE  \/ Rank[u[i]] < Rank[u[j]]
             \/ Rank[u[i]] = 1 /\ Rank[u[j]] = 1
  <2>1. CASE j \in 1..Len(s) /\ u[j] = s[j]
    <3>1. i \in 1..Len(s) /\ u[i] = s[i]
      BY <1>2, <1>3, <1>8, <2>1
    <3> QED
      BY <1>8, <2>1, <3>1 DEF Ordered
  <2>2. CASE j - Len(s) \in 1..Len(t) /\ u[j] = t[j - Len(s)]
    <3>1. Rank[u[j]] \in c..d
      BY <2>2 DEF Ordered
    <3>2. CASE i \in 1..Len(s) /\ u[i] = s[i]
      <4>1. Rank[u[i]] \in a..b
        BY <3>2 DEF Ordered
      <4> QED
        BY <3>1, <4>1, a <= c, b <= d
    <3>3. CASE i - Len(s) \in 1..Len(t) /\ u[i] = t[i - Len(s)]
      <4>1. i - Len(s) < j - Len(s)
        BY <1>2, <1>8
      <4> QED
        BY <2>2, <3>3, <4>1 DEF Ordered
    <3> QED
      BY <1>5, <3>2, <3>3
  <2> QED
    BY <1>5, <2>1, <2>2
<1> QED
  BY <1>2, <1>6, <1>7, <1>8 DEF Ordered, u

(***************************************************************************)
(* Lists of no phase, of one and of two.                                   *)
(***************************************************************************)
LEMMA NoPhase ==
    ASSUME NEW a \in Nat, NEW b \in Nat
    PROVE  Ordered(<< >>, a, b) /\ ToGo(<< >>) = {}
<1>1. << >> \in Seq(Phases) /\ Len(<< >>) = 0 /\ 1..0 = {} /\ DOMAIN << >> = {}
  OBVIOUS
<1> QED
  BY <1>1 DEF Ordered, ToGo

(***************************************************************************)
(* A list of one phase is in order.                                        *)
(***************************************************************************)
LEMMA OnePhase ==
    ASSUME NEW phase \in Phases
    PROVE  /\ Ordered(<<phase>>, Rank[phase], Rank[phase])
           /\ ToGo(<<phase>>) = {phase}
<1>1. /\ <<phase>> \in Seq(Phases) /\ Len(<<phase>>) = 1 /\ DOMAIN <<phase>> = 1..1
      /\ <<phase>>[1] = phase
  OBVIOUS
<1>3. Rank[phase] \in Nat
  BY RankType
<1>2. 1..1 = {1}
  OBVIOUS
<1> QED
  BY <1>1, <1>2, <1>3 DEF Ordered, ToGo

(***************************************************************************)
(* A phase that a flag may leave out is in order either way.               *)
(***************************************************************************)
LEMMA MaybePhase ==
    ASSUME NEW phase \in Phases, NEW condition \in BOOLEAN
    PROVE  /\ Ordered(When(condition, phase), Rank[phase], Rank[phase])
           /\ ToGo(When(condition, phase)) = IF condition THEN {phase} ELSE {}
<1>1. Rank[phase] \in Nat
  BY RankType
<1> QED
  BY <1>1, NoPhase, OnePhase DEF When

(***************************************************************************)
(* The loop body: the phases of one load, in the order of their ranks      *)
(* (benchmark.rs:86-172).                                                  *)
(***************************************************************************)
LEMMA PhasesOfALoad ==
    ASSUME NEW options \in Flags, NEW first \in BOOLEAN
    PROVE  LET phases == RunPhases(options, first)
           IN  /\ Ordered(phases, 1, 9)
               /\ {"cleanup", "run_nodes", "measure", "tear_down"} \subseteq ToGo(phases)
               /\ ~options.skipConfiguration => "configure" \in ToGo(phases)
               /\ first /\ ~options.skipUpdate => "update" \in ToGo(phases)
<1> DEFINE prepare == IF first
                      THEN <<"cleanup">> \o (IF options.skipUpdate THEN << >>
                                             ELSE <<"install", "update">>)
                      ELSE << >>
           run == <<"run_nodes", "run_clients", "start_session", "measure", "tear_down">>
           s1 == prepare \o <<"cleanup">>
           s2 == s1 \o When(options.monitoring, "monitor")
           s3 == s2 \o When(~options.skipConfiguration, "configure")
           s4 == s3 \o run
           s5 == s4 \o When(options.logProcessing, "download_logs")
<1>1. /\ {"cleanup", "install", "update", "monitor", "configure", "run_nodes", "run_clients",
          "start_session", "measure", "tear_down", "download_logs"} \subseteq Phases
      /\ {options.skipUpdate, options.skipConfiguration, options.monitoring,
          options.logProcessing} \subseteq BOOLEAN
  BY DEF Phases, Flags
<1>2. /\ Ordered(prepare, 1, 1)
      /\ first /\ ~options.skipUpdate => "update" \in ToGo(prepare)
  <2>1. Ordered(<<"install", "update">>, 1, 1) /\ "update" \in ToGo(<<"install", "update">>)
    <3> DEFINE both == <<"install", "update">>
    <3>1. both \in Seq(Phases) /\ Len(both) = 2 /\ DOMAIN both = 1..2
      BY DEF Phases
    <3>2. both[1] = "install" /\ both[2] = "update"
      OBVIOUS
    <3> HIDE DEF both
    <3>3. 1..2 = {1, 2}
      OBVIOUS
    <3>4. Rank[both[1]] = 1 /\ Rank[both[2]] = 1
      BY <3>2, Ranks
    <3>5. Ordered(both, 1, 1)
      BY <3>1, <3>3, <3>4 DEF Ordered
    <3>6. 2 \in DOMAIN both
      BY <3>1
    <3> QED
      BY <3>2, <3>5, <3>6 DEF ToGo, both
  <2>2. Ordered(<<"cleanup">>, 1, 1)
    BY <1>1, OnePhase, Ranks
  <2>3. Ordered(<< >>, 1, 1)
    BY NoPhase
  <2>4. /\ Ordered(<<"cleanup">> \o <<"install", "update">>, 1, 1)
        /\ "update" \in ToGo(<<"cleanup">> \o <<"install", "update">>)
    BY <2>1, <2>2, Concatenation
  <2>5. Ordered(<<"cleanup">> \o << >>, 1, 1)
    BY <2>2, <2>3, Concatenation
  <2> QED
    BY <2>3, <2>4, <2>5
<1>3. /\ Ordered(run, 4, 8)
      /\ {"run_nodes", "measure", "tear_down"} \subseteq ToGo(run)
  <2>1. run \in Seq(Phases) /\ Len(run) = 5 /\ DOMAIN run = 1..5
    BY DEF Phases
  <2>2. /\ run[1] = "run_nodes" /\ run[2] = "run_clients" /\ run[3] = "start_session"
        /\ run[4] = "measure" /\ run[5] = "tear_down"
    OBVIOUS
  <2> HIDE DEF run
  <2>3. /\ Rank[run[1]] = 4 /\ Rank[run[2]] = 5 /\ Rank[run[3]] = 6
        /\ Rank[run[4]] = 7 /\ Rank[run[5]] = 8
    BY <2>2, Ranks
  <2>4. \A i \in 1..5 : i \in {1, 2, 3, 4, 5}
    OBVIOUS
  <2>5. \A i \in 1..5 : Rank[run[i]] = 3 + i
    BY <2>3, <2>4
  <2>6. Ordered(run, 4, 8)
    BY <2>1, <2>5 DEF Ordered
  <2>7. 1 \in DOMAIN run /\ 4 \in DOMAIN run /\ 5 \in DOMAIN run
    BY <2>1
  <2> QED
    BY <2>2, <2>6, <2>7 DEF ToGo
<1> HIDE DEF prepare, run
<1>4. /\ Ordered(s1, 1, 1) /\ "cleanup" \in ToGo(s1)
      /\ ToGo(prepare) \subseteq ToGo(s1)
  <2>1. Ordered(<<"cleanup">>, 1, 1) /\ ToGo(<<"cleanup">>) = {"cleanup"}
    BY <1>1, OnePhase, Ranks
  <2> QED
    BY <1>2, <2>1, Concatenation
<1> HIDE DEF s1
<1>5. Ordered(s2, 1, 2) /\ ToGo(s1) \subseteq ToGo(s2)
  <2>1. Ordered(When(options.monitoring, "monitor"), 2, 2)
    BY <1>1, MaybePhase, Ranks
  <2> QED
    BY <1>4, <2>1, Concatenation
<1> HIDE DEF s2
<1>6. /\ Ordered(s3, 1, 3) /\ ToGo(s2) \subseteq ToGo(s3)
      /\ ~options.skipConfiguration => "configure" \in ToGo(s3)
  <2>1. /\ Ordered(When(~options.skipConfiguration, "configure"), 3, 3)
        /\ ~options.skipConfiguration =>
               "configure" \in ToGo(When(~options.skipConfiguration, "configure"))
    <3>1. (~options.skipConfiguration) \in BOOLEAN
      BY <1>1
    <3> QED
      BY <1>1, <3>1, MaybePhase, Ranks
  <2> QED
    BY <1>5, <2>1, Concatenation
<1> HIDE DEF s3
<1>7. Ordered(s4, 1, 8) /\ ToGo(s3) \cup ToGo(run) \subseteq ToGo(s4)
  <2>1. Ordered(s3, 1, 3) /\ Ordered(run, 4, 8)
    BY <1>3, <1>6
  <2> QED
    BY <2>1, Concatenation
<1> HIDE DEF s4
<1>8. Ordered(s5, 1, 9) /\ ToGo(s4) \subseteq ToGo(s5)
  <2> DEFINE download == When(options.logProcessing, "download_logs")
  <2>1. Ordered(download, 9, 9)
    <3>1. options.logProcessing \in BOOLEAN /\ "download_logs" \in Phases
      BY <1>1
    <3>2. Rank["download_logs"] = 9
      BY Ranks
    <3>3. Ordered(download, Rank["download_logs"], Rank["download_logs"])
      BY <3>1, MaybePhase
    <3> QED
      BY <3>2, <3>3
  <2>2. Ordered(s4, 1, 8)
    BY <1>7
  <2>3. s5 = s4 \o download
    OBVIOUS
  <2> HIDE DEF download, s5
  <2>4. Ordered(s4 \o download, 1, 9) /\ ToGo(s4 \o download) = ToGo(s4) \cup ToGo(download)
    BY <2>1, <2>2, Concatenation
  <2> QED
    BY <2>3, <2>4
<1>9. RunPhases(options, first) = s5
  BY DEF RunPhases, prepare, run, s1, s2, s3, s4
<1> HIDE DEF s5
<1> QED
  BY <1>2, <1>3, <1>4, <1>5, <1>6, <1>7, <1>8, <1>9

(***************************************************************************)
(* A phase is done: what is left comes after it, and nothing else is gone. *)
(***************************************************************************)
LEMMA PhasesAfter ==
    ASSUME NEW phases, Ordered(phases, 1, 9), phases # << >>
    PROVE  /\ Head(phases) \in Phases /\ Head(phases) \in ToGo(phases)
           /\ Ordered(Tail(phases), 1, 9)
           /\ \A x \in ToGo(Tail(phases)) :
                  /\ x \in ToGo(phases)
                  /\ Rank[Head(phases)] < Rank[x] \/ (Rank[Head(phases)] = 1 /\ Rank[x] = 1)
           /\ \A x \in ToGo(phases) : x = Head(phases) \/ x \in ToGo(Tail(phases))
<1> DEFINE tail == Tail(phases)
<1>1. /\ phases \in Seq(Phases) /\ Len(phases) \in Nat /\ Len(phases) > 0
      /\ DOMAIN phases = 1..Len(phases) /\ Head(phases) = phases[1]
  BY DEF Ordered
<1>2. /\ tail \in Seq(Phases) /\ Len(tail) = Len(phases) - 1 /\ DOMAIN tail = 1..Len(tail)
      /\ \A i \in 1..Len(tail) : tail[i] = phases[i + 1]
  BY <1>1
<1> HIDE DEF tail
<1>3. 1 \in 1..Len(phases) /\ \A i \in 1..Len(tail) : i + 1 \in 1..Len(phases) /\ 1 < i + 1
  BY <1>1, <1>2
<1>4. Ordered(tail, 1, 9)
  <2>1. ASSUME NEW i \in 1..Len(tail), NEW j \in 1..Len(tail), i < j
        PROVE  \/ Rank[tail[i]] < Rank[tail[j]]
               \/ Rank[tail[i]] = 1 /\ Rank[tail[j]] = 1
    <3>1. i + 1 < j + 1
      BY <1>2, <2>1
    <3> QED
      BY <1>2, <1>3, <3>1 DEF Ordered
  <2>2. \A i \in 1..Len(tail) : Rank[tail[i]] \in 1..9
    BY <1>2, <1>3 DEF Ordered
  <2> QED
    BY <1>2, <2>1, <2>2 DEF Ordered
<1>5. ASSUME NEW x \in ToGo(tail)
      PROVE  /\ x \in ToGo(phases)
             /\ Rank[Head(phases)] < Rank[x] \/ (Rank[Head(phases)] = 1 /\ Rank[x] = 1)
  <2>1. PICK i \in 1..Len(tail) : x = tail[i]
    BY <1>2 DEF ToGo
  <2>2. i + 1 \in 1..Len(phases) /\ 1 < i + 1 /\ x = phases[i + 1]
    BY <1>2, <1>3, <2>1
  <2> QED
    BY <1>1, <1>3, <2>2 DEF Ordered, ToGo
<1>6. ASSUME NEW x \in ToGo(phases), x # Head(phases) PROVE x \in ToGo(tail)
  <2>1. PICK i \in 1..Len(phases) : x = phases[i]
    BY <1>1 DEF ToGo
  <2>2. i - 1 \in 1..Len(tail) /\ x = tail[i - 1]
    <3>1. i # 1
      BY <1>1, <1>6, <2>1
    <3>2. i - 1 \in 1..Len(tail) /\ (i - 1) + 1 = i
      BY <1>1, <1>2, <3>1
    <3> QED
      BY <1>2, <2>1, <3>2
  <2> QED
    BY <1>2, <2>2 DEF ToGo
<1>7. Head(phases) \in Phases /\ Head(phases) \in ToGo(phases)
  BY <1>1, <1>3 DEF ToGo
<1> QED
  BY <1>4, <1>5, <1>6, <1>7 DEF tail
-----------------------------------------------------------------------------
(***************************************************************************)
(* What is true of the machines and of a driver at work, after n           *)
(* deployments, by the phases that are to come: a cleanup, or clean        *)
(* machines, before the nodes; the configuration of this load and the      *)
(* update before them, unless they are skipped; after them the logs of     *)
(* this deployment alone, and its nodes until they are torn down.          *)
(***************************************************************************)
Clean(bed) == bed.nodes = None /\ bed.storage = "wiped" /\ bed.logs = {}

ShareOf(loads) == Head(loads) \div Committee

Prepared(bed, d) ==
    LET toGo == ToGo(d.phases)
    IN  /\ "cleanup" \in toGo => "run_nodes" \in toGo
        /\ "run_nodes" \in toGo => /\ "tear_down" \in toGo
                                   /\ "cleanup" \in toGo \/ Clean(bed)
                                   /\ \/ d.options.skipConfiguration \/ "configure" \in toGo
                                      \/ bed.config = ShareOf(d.loads)
        /\ d.options.skipUpdate \/ "update" \in toGo \/ bed.built = "current"

Running(bed, d, n) ==
    LET toGo == ToGo(d.phases)
    IN  /\ "run_nodes" \notin toGo => bed.logs = {n}
        /\ "measure" \in toGo => "tear_down" \in toGo
        /\ "tear_down" \notin toGo => bed.nodes = None
        /\ "tear_down" \in toGo /\ "run_nodes" \notin toGo =>
               /\ bed.nodes \in Nodes
               /\ d.options.skipConfiguration \/ bed.nodes.load = ShareOf(d.loads)
               /\ d.options.skipUpdate \/ bed.nodes.built = "current"

AtWork(bed, d, n) ==
    /\ Ordered(d.phases, 1, 9)
    /\ d.loads # << >>
    /\ Prepared(bed, d)
    /\ Running(bed, d, n)

Inv ==
    /\ TypeOK
    /\ testbed.logs \subseteq 1..deployed
    /\ driver.at = "working" => AtWork(testbed, driver, deployed)
    /\ DoneMeansTornDown

(***************************************************************************)
(* The loads of the sweeps are numbers, and so are the shares of the nodes *)
(* (protocol.rs, genesis_command).                                         *)
(***************************************************************************)
LEMMA LoadsAreNumbers ==
    /\ Loads \subseteq Nat
    /\ \A load \in Loads : load \div Committee \in Nat
    /\ Sweeps \subseteq Seq(Loads)
    /\ \A sweep \in Sweeps : sweep # << >>
<1>1. ASSUME NEW load \in Loads PROVE load \in Nat
  <2>1. PICK sweep \in Sweeps : load \in {sweep[i] : i \in DOMAIN sweep}
    BY DEF Loads
  <2>2. sweep \in Seq(Nat)
    BY BenchmarkAssumption
  <2> QED
    BY <2>1, <2>2
<1>2. \A load \in Nat : load \div Committee \in Nat
  BY BenchmarkAssumption
<1>3. ASSUME NEW sweep \in Sweeps PROVE sweep \in Seq(Loads) /\ sweep # << >>
  <2>1. sweep \in Seq(Nat) /\ sweep # << >>
    BY BenchmarkAssumption
  <2>2. \A i \in 1..Len(sweep) : sweep[i] \in Loads
    BY <2>1 DEF Loads
  <2> QED
    BY <2>1, <2>2
<1> QED
  BY <1>1, <1>2, <1>3

(***************************************************************************)
(* No driver ran yet.                                                      *)
(***************************************************************************)
LEMMA InitInv == Init => Inv
<1> SUFFICES ASSUME Init PROVE Inv
  OBVIOUS
<1>1. /\ testbed.nodes = None /\ testbed.storage = "wiped" /\ testbed.logs = {}
      /\ testbed.built = "outdated" /\ testbed.config \in Shares
      /\ testbed = [nodes |-> testbed.nodes, storage |-> testbed.storage,
                    logs |-> testbed.logs, config |-> testbed.config, built |-> testbed.built]
  BY LoadsAreNumbers DEF Init
<1>2. testbed \in Testbed
  BY <1>1 DEF Testbed, Commits
<1>3. driver \in Driver /\ driver.at = "done"
  <2>1. << >> \in Seq(Loads) /\ << >> \in Seq(Phases) /\ 0 \in 0..MaxDrivers
    BY BenchmarkAssumption
  <2> QED
    BY <2>1, BenchmarkAssumption DEF Init, Driver
<1>4. /\ files \in [Commits \X Loads -> Nodes \cup {None}]
      /\ downloaded = {} /\ deployed = 0
  BY DEF Init
<1> QED
  BY <1>1, <1>2, <1>3, <1>4 DEF Inv, TypeOK, DoneMeansTornDown

\* The count of deployments after a phase.
Deployments(phase) == IF phase = "run_nodes" THEN deployed + 1 ELSE deployed

(***************************************************************************)
(* The phases that touch the machines, one by one.                         *)
(***************************************************************************)
LEMMA EffectCases ==
    /\ Phase = "cleanup" => Effect = CleanedUp(TRUE)
    /\ Phase = "update" => Effect = [testbed EXCEPT !.built = "current"]
    /\ Phase = "configure" => Effect = Configured
    /\ Phase = "run_nodes" => Effect = Deployed
    /\ Phase = "tear_down" => Effect = TornDown
    /\ Phase \notin {"cleanup", "update", "configure", "run_nodes", "tear_down"} =>
           Effect = testbed
BY DEF Effect

(***************************************************************************)
(* What a phase does to the machines is well-formed, also when the driver  *)
(* fails right after (benchmark.rs:97-172).                                *)
(***************************************************************************)
LEMMA EffectType ==
    ASSUME Inv, NEW phase \in Phases, Working(phase)
    PROVE  /\ Deployments(phase) \in Nat
           /\ Effect \in Testbed
           /\ Effect.logs \subseteq 1..Deployments(phase)
           /\ deployed <= Deployments(phase)
<1>1. /\ testbed \in Testbed /\ deployed \in Nat /\ testbed.logs \subseteq 1..deployed
      /\ driver.loads \in Seq(Loads) /\ driver.loads # << >> /\ Phase = phase
  BY DEF Inv, TypeOK, Driver, AtWork, Working
<1>2. Share \in Shares
  <2>1. Head(driver.loads) \in Loads
    BY <1>1
  <2> QED
    BY <2>1 DEF Share, Load, Shares
<1>3. /\ testbed.nodes \in Nodes \cup {None} /\ testbed.storage \in {"wiped", "used"}
      /\ testbed.logs \in SUBSET Nat /\ testbed.config \in Shares /\ testbed.built \in Commits
  BY <1>1 DEF Testbed
<1>4. CASE phase = "cleanup"
  <2>1. Effect = [testbed EXCEPT !.nodes = None, !.storage = "wiped", !.logs = {}]
    BY <1>1, <1>4, EffectCases DEF CleanedUp
  <2>2. Effect.logs = {} /\ Effect \in Testbed
    BY <1>1, <1>3, <2>1 DEF Testbed
  <2>3. Deployments(phase) = deployed
    BY <1>4 DEF Deployments
  <2> QED
    BY <1>1, <2>2, <2>3
<1>5. CASE phase = "update"
  <2>1. Effect = [testbed EXCEPT !.built = "current"]
    BY <1>1, <1>5, EffectCases
  <2>2. Effect.logs = testbed.logs /\ Effect \in Testbed
    BY <1>1, <1>3, <2>1 DEF Testbed, Commits
  <2>3. Deployments(phase) = deployed
    BY <1>5 DEF Deployments
  <2> QED
    BY <1>1, <2>2, <2>3
<1>6. CASE phase = "configure"
  <2>1. Effect = [testbed EXCEPT !.config = Share]
    BY <1>1, <1>6, EffectCases DEF Configured
  <2>2. Effect.logs = testbed.logs /\ Effect \in Testbed
    BY <1>1, <1>2, <1>3, <2>1 DEF Testbed
  <2>3. Deployments(phase) = deployed
    BY <1>6 DEF Deployments
  <2> QED
    BY <1>1, <2>2, <2>3
<1>7. CASE phase = "run_nodes"
  <2> DEFINE nodes == [deployment |-> deployed + 1,
                       load       |-> IF Share > 0 THEN testbed.config ELSE 0,
                       built      |-> testbed.built]
             logs == testbed.logs \cup {deployed + 1}
  <2>1. nodes \in Nodes
    BY <1>1, <1>3 DEF Nodes
  <2>2. logs \subseteq 1..(deployed + 1) /\ logs \in SUBSET Nat
    BY <1>1
  <2>3. Effect = [testbed EXCEPT !.nodes = nodes, !.storage = "used", !.logs = logs]
    BY <1>1, <1>7, EffectCases DEF Deployed
  <2> HIDE DEF nodes, logs
  <2>4. Effect.logs = logs /\ Effect \in Testbed
    BY <1>1, <1>3, <2>1, <2>2, <2>3 DEF Testbed
  <2>5. Deployments(phase) = deployed + 1
    BY <1>7 DEF Deployments
  <2> QED
    BY <1>1, <2>2, <2>4, <2>5
<1>8. CASE phase = "tear_down"
  <2>1. Effect = [testbed EXCEPT !.nodes = None, !.storage = "wiped"]
    BY <1>1, <1>8, EffectCases DEF TornDown, CleanedUp
  <2>2. Effect.logs = testbed.logs /\ Effect \in Testbed
    BY <1>1, <1>3, <2>1 DEF Testbed
  <2>3. Deployments(phase) = deployed
    BY <1>8 DEF Deployments
  <2> QED
    BY <1>1, <2>2, <2>3
<1>9. CASE phase \notin {"cleanup", "update", "configure", "run_nodes", "tear_down"}
  <2>1. Effect = testbed
    BY <1>1, <1>9, EffectCases
  <2>2. Deployments(phase) = deployed
    BY <1>9 DEF Deployments
  <2> QED
    BY <1>1, <2>1, <2>2
<1> QED
  BY <1>4, <1>5, <1>6, <1>7, <1>8, <1>9

(***************************************************************************)
(* Nodes are run on clean machines, measured after them, and logs are      *)
(* downloaded when they are of the last deployment.                        *)
(***************************************************************************)
LEMMA PhasesAreInOrder ==
    ASSUME Inv, NEW phase \in Phases, Working(phase)
    PROVE  /\ phase = "run_nodes" =>
                  /\ Clean(testbed)
                  /\ \/ driver.options.skipConfiguration
                     \/ testbed.config = ShareOf(driver.loads)
                  /\ driver.options.skipUpdate \/ testbed.built = "current"
           /\ phase = "measure" =>
                  /\ testbed.nodes \in Nodes
                  /\ \/ driver.options.skipConfiguration
                     \/ testbed.nodes.load = ShareOf(driver.loads)
                  /\ driver.options.skipUpdate \/ testbed.nodes.built = "current"
           /\ phase = "download_logs" => testbed.logs = {deployed}
<1> DEFINE toGo == ToGo(driver.phases)
           rest == ToGo(Tail(driver.phases))
<1>1. /\ driver.phases # << >> /\ Head(driver.phases) = phase
      /\ Ordered(driver.phases, 1, 9)
      /\ Prepared(testbed, driver) /\ Running(testbed, driver, deployed)
  BY DEF Inv, AtWork, Working, Phase
<1>2. /\ phase \in toGo
      /\ \A x \in rest : Rank[phase] < Rank[x] \/ (Rank[phase] = 1 /\ Rank[x] = 1)
      /\ \A x \in toGo : x = phase \/ x \in rest
  BY <1>1, PhasesAfter
<1> HIDE DEF toGo, rest
<1>3. CASE phase = "run_nodes"
  <2>1. \A x \in toGo : x = "run_nodes" \/ 4 < Rank[x]
    BY <1>2, <1>3, Ranks
  <2>2. "cleanup" \notin toGo /\ "configure" \notin toGo /\ "update" \notin toGo
    BY <2>1, Ranks
  <2> QED
    BY <1>1, <1>2, <1>3, <2>2 DEF Prepared, toGo
<1>4. CASE phase = "measure"
  <2>1. \A x \in toGo : x = "measure" \/ 7 < Rank[x]
    BY <1>2, <1>4, Ranks
  <2>2. "run_nodes" \notin toGo
    BY <2>1, Ranks
  <2> QED
    BY <1>1, <1>2, <1>4, <2>2 DEF Running, toGo
<1>5. CASE phase = "download_logs"
  <2>1. \A x \in toGo : x = "download_logs" \/ 9 < Rank[x]
    BY <1>2, <1>5, Ranks
  <2>2. "run_nodes" \notin toGo
    BY <2>1, Ranks
  <2> QED
    BY <1>1, <1>5, <2>2 DEF Running, toGo
<1> QED
  BY <1>3, <1>4, <1>5

(***************************************************************************)
(* A driver that completes a phase stays sound: what the phase did is what *)
(* the phases to come rely on.                                             *)
(***************************************************************************)
LEMMA AdvanceInv ==
    ASSUME Inv, NEW phase \in Phases, Working(phase)
    PROVE  AtWork(Effect, NextPhase, Deployments(phase))
<1> DEFINE toGo == ToGo(driver.phases)
           rest == ToGo(Tail(driver.phases))
           n == Deployments(phase)
<1>1. /\ driver.phases # << >> /\ Head(driver.phases) = phase /\ Phase = phase
      /\ driver.loads # << >> /\ driver \in Driver /\ testbed \in Testbed
      /\ Ordered(driver.phases, 1, 9)
      /\ Prepared(testbed, driver) /\ Running(testbed, driver, deployed)
  BY DEF Inv, TypeOK, AtWork, Working, Phase
<1>2. /\ phase \in toGo
      /\ \A x \in rest : /\ x \in toGo
                         /\ Rank[phase] < Rank[x] \/ (Rank[phase] = 1 /\ Rank[x] = 1)
      /\ \A x \in toGo : x = phase \/ x \in rest
      /\ Ordered(Tail(driver.phases), 1, 9)
  BY <1>1, PhasesAfter
<1>3. /\ NextPhase.phases = Tail(driver.phases) /\ NextPhase.loads = driver.loads
      /\ NextPhase.options = driver.options
  BY <1>1 DEF NextPhase, Driver
<1> HIDE DEF toGo, rest, n
<1>4. /\ "cleanup" \in toGo => "run_nodes" \in toGo
      /\ "run_nodes" \in toGo =>
             /\ "tear_down" \in toGo
             /\ "cleanup" \in toGo \/ Clean(testbed)
             /\ \/ driver.options.skipConfiguration \/ "configure" \in toGo
                \/ testbed.config = ShareOf(driver.loads)
      /\ driver.options.skipUpdate \/ "update" \in toGo \/ testbed.built = "current"
      /\ "measure" \in toGo => "tear_down" \in toGo
      /\ "run_nodes" \notin toGo => testbed.logs = {deployed}
      /\ "tear_down" \notin toGo => testbed.nodes = None
      /\ "tear_down" \in toGo /\ "run_nodes" \notin toGo =>
             /\ testbed.nodes \in Nodes
             /\ \/ driver.options.skipConfiguration
                \/ testbed.nodes.load = ShareOf(driver.loads)
             /\ driver.options.skipUpdate \/ testbed.nodes.built = "current"
  BY <1>1 DEF Prepared, Running, toGo
<1>5. SUFFICES
         /\ "cleanup" \in rest => "run_nodes" \in rest
         /\ "run_nodes" \in rest =>
                /\ "tear_down" \in rest
                /\ "cleanup" \in rest \/ Clean(Effect)
                /\ \/ driver.options.skipConfiguration \/ "configure" \in rest
                   \/ Effect.config = ShareOf(driver.loads)
         /\ driver.options.skipUpdate \/ "update" \in rest \/ Effect.built = "current"
         /\ "measure" \in rest => "tear_down" \in rest
         /\ "run_nodes" \notin rest => Effect.logs = {n}
         /\ "tear_down" \notin rest => Effect.nodes = None
         /\ "tear_down" \in rest /\ "run_nodes" \notin rest =>
                /\ Effect.nodes \in Nodes
                /\ \/ driver.options.skipConfiguration
                   \/ Effect.nodes.load = ShareOf(driver.loads)
                /\ driver.options.skipUpdate \/ Effect.nodes.built = "current"
  BY <1>1, <1>2, <1>3 DEF AtWork, Prepared, Running, rest, n
<1>6. /\ \A x \in rest : x \in toGo
      /\ \A x \in toGo : x # phase => x \in rest
  BY <1>2
<1>7. CASE phase = "cleanup"
  <2>1. /\ Effect.nodes = None /\ Effect.storage = "wiped" /\ Effect.logs = {}
        /\ Effect.config = testbed.config /\ Effect.built = testbed.built /\ n = deployed
    BY <1>1, <1>7, EffectCases DEF CleanedUp, n, Deployments, Testbed
  <2>2. "run_nodes" \in rest
    BY <1>4, <1>2, <1>7
  <2> QED
    BY <1>4, <1>6, <1>7, <2>1, <2>2 DEF Clean
<1>8. CASE phase = "update"
  <2>1. /\ Effect.nodes = testbed.nodes /\ Effect.storage = testbed.storage
        /\ Effect.logs = testbed.logs
        /\ Effect.config = testbed.config /\ Effect.built = "current" /\ n = deployed
    BY <1>1, <1>8, EffectCases DEF n, Deployments, Testbed
  <2>2. "run_nodes" \in rest \/ "run_nodes" \notin toGo
    BY <1>6, <1>8
  <2> QED
    BY <1>4, <1>6, <1>8, <2>1 DEF Clean
<1>9. CASE phase = "configure"
  <2>1. /\ Effect.nodes = testbed.nodes /\ Effect.storage = testbed.storage
        /\ Effect.logs = testbed.logs
        /\ Effect.config = ShareOf(driver.loads) /\ Effect.built = testbed.built
        /\ n = deployed
    BY <1>1, <1>9, EffectCases DEF n, Deployments, Configured, Share, Load, ShareOf, Testbed
  <2> QED
    BY <1>4, <1>6, <1>9, <2>1 DEF Clean
<1>10. CASE phase = "run_nodes"
  <2>1. /\ Clean(testbed)
        /\ driver.options.skipConfiguration \/ testbed.config = ShareOf(driver.loads)
        /\ driver.options.skipUpdate \/ testbed.built = "current"
    BY <1>10, PhasesAreInOrder
  <2>2. /\ Effect.nodes = [deployment |-> deployed + 1,
                           load       |-> IF Share > 0 THEN testbed.config ELSE 0,
                           built      |-> testbed.built]
        /\ Effect.logs = {deployed + 1} /\ n = deployed + 1
        /\ Effect.built = testbed.built
    BY <1>1, <1>10, <2>1, EffectCases DEF n, Deployments, Deployed, Clean, Testbed
  <2>3. Share = ShareOf(driver.loads) /\ Share \in Nat
    <3>1. Head(driver.loads) \in Loads
      BY <1>1 DEF Driver
    <3> QED
      BY <3>1, LoadsAreNumbers DEF Share, Load, ShareOf
  <2>4. /\ Effect.nodes \in Nodes
        /\ driver.options.skipConfiguration \/ Effect.nodes.load = ShareOf(driver.loads)
        /\ driver.options.skipUpdate \/ Effect.nodes.built = "current"
    <3>1. testbed.config \in Shares /\ testbed.built \in Commits /\ deployed + 1 \in Nat
      BY <1>1 DEF Inv, TypeOK, Testbed
    <3>2. ~(Share > 0) => Share = 0
      BY <2>3
    <3> QED
      BY <2>1, <2>2, <2>3, <3>1, <3>2 DEF Nodes
  <2>5. "cleanup" \notin rest /\ "run_nodes" \notin rest /\ "update" \notin toGo
    BY <1>2, <1>10, Ranks
  <2>6. "tear_down" \in rest
    BY <1>4, <1>6, <1>2, <1>10
  <2> QED
    BY <1>6, <1>10, <2>1, <2>2, <2>4, <2>5, <2>6
<1>11. CASE phase = "tear_down"
  <2>1. /\ Effect.nodes = None /\ Effect.logs = testbed.logs
        /\ Effect.config = testbed.config /\ Effect.built = testbed.built /\ n = deployed
    BY <1>1, <1>11, EffectCases DEF TornDown, CleanedUp, n, Deployments, Testbed
  <2>2. \A x \in rest : x # "cleanup" /\ x # "run_nodes" /\ x # "measure" /\ x # "tear_down"
    BY <1>2, <1>11, Ranks
  <2>3. "run_nodes" \notin toGo
    BY <1>6, <1>11, <2>2
  <2> QED
    BY <1>4, <1>6, <1>11, <2>1, <2>2, <2>3
<1>12. CASE phase \notin {"cleanup", "update", "configure", "run_nodes", "tear_down"}
  <2>1. Effect = testbed /\ n = deployed
    BY <1>1, <1>12, EffectCases DEF n, Deployments
  <2> QED
    BY <1>4, <1>6, <1>12, <2>1
<1> QED
  BY <1>7, <1>8, <1>9, <1>10, <1>11, <1>12

(***************************************************************************)
(* A driver starts, or refuses to (benchmark.rs:42-96).                    *)
(***************************************************************************)
LEMMA StartInv ==
    ASSUME Inv, NEW options \in Options, NEW sweep \in Sweeps,
           Start(options, sweep) \/ Refuse(options, sweep)
    PROVE  Inv'
<1> DEFINE phases == RunPhases(options, TRUE)
<1>1. options \in Flags /\ sweep \in Seq(Loads) /\ sweep # << >>
  BY LoadsAreNumbers, BenchmarkAssumption
<1>2. /\ Ordered(phases, 1, 9) /\ phases \in Seq(Phases)
      /\ {"cleanup", "run_nodes", "measure", "tear_down"} \subseteq ToGo(phases)
      /\ ~options.skipConfiguration => "configure" \in ToGo(phases)
      /\ ~options.skipUpdate => "update" \in ToGo(phases)
  BY <1>1, PhasesOfALoad DEF Ordered
<1> HIDE DEF phases
<1>3. PICK at \in {"working", "failed"}, p \in {phases, << >>} :
          Started(options, sweep, at, p) /\ (at = "working" => p = phases)
  BY DEF Start, Refuse, phases
<1>4. /\ UNCHANGED <<testbed, files, downloaded, deployed>>
      /\ driver' = [at |-> at, options |-> options, loads |-> sweep, phases |-> p,
                    handler |-> FALSE, number |-> driver.number + 1]
      /\ driver.number + 1 \in 0..MaxDrivers
  BY <1>3, BenchmarkAssumption DEF Started, Inv, TypeOK, Driver
<1>5. p \in Seq(Phases)
  <2>1. << >> \in Seq(Phases)
    BY NoPhase DEF Ordered
  <2> QED
    BY <1>2, <1>3, <2>1
<1>6. driver' \in Driver /\ driver'.at # "done"
  BY <1>1, <1>3, <1>4, <1>5 DEF Driver
<1>7. driver'.at = "working" => AtWork(testbed', driver', deployed')
  BY <1>1, <1>2, <1>3, <1>4 DEF AtWork, Prepared, Running
<1> QED
  BY <1>4, <1>6, <1>7 DEF Inv, TypeOK, DoneMeansTornDown

(***************************************************************************)
(* A phase completes, or fails before or after it did its work.            *)
(***************************************************************************)
LEMMA NextPhaseType ==
    ASSUME Inv, NEW phase \in Phases, Working(phase)
    PROVE  /\ NextPhase \in Driver /\ NextPhase.at = "working"
           /\ [driver EXCEPT !.at = "failed"] \in Driver
           /\ [driver EXCEPT !.at = "failed"].at = "failed"
<1>1. driver \in Driver /\ driver.phases # << >> /\ driver.at = "working"
  BY DEF Inv, TypeOK, Working
<1>2. Tail(driver.phases) \in Seq(Phases)
  BY <1>1 DEF Driver
<1>3. (driver.handler \/ Phase = "start_session") \in BOOLEAN
  BY <1>1 DEF Driver
<1> QED
  BY <1>1, <1>2, <1>3 DEF Driver, NextPhase

(***************************************************************************)
(* A phase that succeeds keeps the invariant (benchmark.rs:94-182).        *)
(***************************************************************************)
LEMMA CompleteInv ==
    ASSUME Inv, NEW phase \in Phases, Complete(phase)
    PROVE  Inv'
<1>1. /\ Working(phase) /\ testbed' = Effect /\ driver' = NextPhase
      /\ deployed' = Deployments(phase) /\ files' = files
      /\ downloaded' = IF phase = "download_logs" THEN testbed.logs ELSE downloaded
  BY DEF Complete, Deployments
<1>2. /\ deployed' \in Nat /\ testbed' \in Testbed /\ testbed'.logs \subseteq 1..deployed'
      /\ deployed <= deployed'
  BY <1>1, EffectType
<1>3. downloaded' \subseteq 1..deployed'
  <2>1. downloaded' \subseteq 1..deployed
    BY <1>1 DEF Inv, TypeOK
  <2> QED
    BY <1>2, <2>1 DEF Inv, TypeOK
<1>4. AtWork(testbed', driver', deployed')
  BY <1>1, AdvanceInv
<1>5. driver' \in Driver /\ driver'.at = "working"
  BY <1>1, NextPhaseType
<1> QED
  BY <1>1, <1>2, <1>3, <1>4, <1>5 DEF Inv, TypeOK, DoneMeansTornDown

(***************************************************************************)
(* A phase that fails keeps the invariant, whatever part of it was done    *)
(* (benchmark.rs:94-182).                                                  *)
(***************************************************************************)
LEMMA FailInv ==
    ASSUME Inv, NEW phase \in Phases, Fail(phase)
    PROVE  Inv'
<1>1. /\ Working(phase) /\ driver' = [driver EXCEPT !.at = "failed"]
      /\ UNCHANGED <<files, downloaded>>
      /\ \/ UNCHANGED <<testbed, deployed>>
         \/ testbed' = Effect /\ deployed' = Deployments(phase)
  BY DEF Fail, Deployments
<1>2. /\ deployed' \in Nat /\ testbed' \in Testbed /\ testbed'.logs \subseteq 1..deployed'
      /\ deployed <= deployed'
  <2>1. CASE UNCHANGED <<testbed, deployed>>
    BY <2>1 DEF Inv, TypeOK
  <2>2. CASE testbed' = Effect /\ deployed' = Deployments(phase)
    BY <1>1, <2>2, EffectType
  <2> QED
    BY <1>1, <2>1, <2>2
<1>3. downloaded' \subseteq 1..deployed'
  BY <1>1, <1>2 DEF Inv, TypeOK
<1>4. driver' \in Driver /\ driver'.at = "failed"
  BY <1>1, NextPhaseType
<1> QED
  BY <1>1, <1>2, <1>3, <1>4 DEF Inv, TypeOK, DoneMeansTornDown

(***************************************************************************)
(* A run is measured (benchmark.rs:184-260).                               *)
(***************************************************************************)
LEMMA ScrapeInv == ASSUME Inv, Scrape PROVE Inv'
<1>1. /\ Working("measure") /\ UNCHANGED <<testbed, driver, downloaded, deployed>>
      /\ files' = [files EXCEPT ![<<ResultsCommit(driver.options), Load>>] = testbed.nodes]
  BY DEF Scrape
<1>2. /\ files \in [Commits \X Loads -> Nodes \cup {None}]
      /\ testbed.nodes \in Nodes \cup {None}
  BY DEF Inv, TypeOK, Testbed
<1>3. files' \in [Commits \X Loads -> Nodes \cup {None}]
  BY <1>1, <1>2
<1> QED
  BY <1>1, <1>3 DEF Inv, TypeOK, DoneMeansTornDown

(***************************************************************************)
(* The end of a measurement keeps the invariant (benchmark.rs:141-158).    *)
(***************************************************************************)
LEMMA EndMeasurementInv == ASSUME Inv, EndMeasurement PROVE Inv'
<1>1. /\ Working("measure") /\ driver' = NextPhase
      /\ UNCHANGED <<testbed, files, downloaded, deployed>>
  BY DEF EndMeasurement
<1>2. "measure" \in Phases
  BY DEF Phases
<1>3. Phase = "measure"
  BY <1>1 DEF Working
<1>4. Effect = testbed /\ Deployments("measure") = deployed
  BY <1>3, EffectCases DEF Deployments
<1>5. AtWork(testbed', driver', deployed')
  BY <1>1, <1>2, <1>4, AdvanceInv
<1>6. driver' \in Driver /\ driver'.at = "working"
  BY <1>1, <1>2, NextPhaseType
<1> QED
  BY <1>1, <1>5, <1>6 DEF Inv, TypeOK, DoneMeansTornDown

(***************************************************************************)
(* There is a next load unless one is left.                                *)
(***************************************************************************)
LEMMA LongTail ==
    ASSUME NEW S, NEW s \in Seq(S), s # << >>, Len(s) # 1
    PROVE  Tail(s) \in Seq(S) /\ Tail(s) # << >>
<1>1. Len(s) \in Nat /\ Len(s) > 0
  OBVIOUS
<1>2. Len(s) > 1
  BY <1>1
<1>3. Tail(s) \in Seq(S) /\ Len(Tail(s)) = Len(s) - 1
  BY <1>1
<1>4. Len(Tail(s)) # 0
  BY <1>1, <1>2, <1>3
<1>5. Len(<< >>) = 0
  OBVIOUS
<1> QED
  BY <1>3, <1>4, <1>5, Zenon

(***************************************************************************)
(* Ctrl-C, and the next load of the sweep or its end.                      *)
(***************************************************************************)
LEMMA InterruptInv == ASSUME Inv, Interrupt PROVE Inv'
<1>1. /\ driver' = [driver EXCEPT !.at = "failed"]
      /\ UNCHANGED <<testbed, files, downloaded, deployed>>
  BY DEF Interrupt
<1>2. driver' \in Driver /\ driver'.at = "failed"
  BY <1>1 DEF Inv, TypeOK, Driver
<1> QED
  BY <1>1, <1>2 DEF Inv, TypeOK, DoneMeansTornDown

(***************************************************************************)
(* Going on to the next load of the sweep keeps the invariant              *)
(* (benchmark.rs:94-172).                                                  *)
(***************************************************************************)
LEMMA NextLoadInv == ASSUME Inv, NextLoad PROVE Inv'
<1> DEFINE phases == RunPhases(driver.options, FALSE)
<1>1. /\ driver.at = "working" /\ driver.phases = << >> /\ driver \in Driver
      /\ UNCHANGED <<testbed, files, downloaded, deployed>>
      /\ driver' = IF Len(driver.loads) = 1
                   THEN [driver EXCEPT !.at = "done", !.loads = << >>]
                   ELSE [driver EXCEPT !.loads = Tail(@), !.phases = phases]
  BY DEF NextLoad, Inv, TypeOK
<1>2. /\ driver.loads \in Seq(Loads) /\ driver.loads # << >> /\ driver.options \in Flags
      /\ driver.options.skipUpdate \in BOOLEAN
  BY <1>1, BenchmarkAssumption DEF Inv, AtWork, Driver, Flags
<1>3. /\ testbed.nodes = None
      /\ driver.options.skipUpdate \/ testbed.built = "current"
  <2>1. ToGo(driver.phases) = {}
    BY <1>1, NoPhase
  <2> QED
    BY <1>1, <2>1 DEF Inv, AtWork, Prepared, Running
<1>4. CASE Len(driver.loads) = 1
  <2>1. << >> \in Seq(Loads)
    OBVIOUS
  <2>2. driver' = [driver EXCEPT !.at = "done", !.loads = << >>]
    BY <1>1, <1>4
  <2>3. driver' \in Driver /\ driver'.at = "done"
    BY <1>1, <2>1, <2>2 DEF Driver
  <2> QED
    BY <1>1, <1>3, <2>3 DEF Inv, TypeOK, DoneMeansTornDown
<1>5. CASE Len(driver.loads) # 1
  <2>1. Tail(driver.loads) \in Seq(Loads) /\ Tail(driver.loads) # << >>
    BY <1>2, <1>5, LongTail
  <2>2. /\ Ordered(phases, 1, 9) /\ phases \in Seq(Phases)
        /\ {"cleanup", "run_nodes", "measure", "tear_down"} \subseteq ToGo(phases)
        /\ ~driver.options.skipConfiguration => "configure" \in ToGo(phases)
    BY <1>2, PhasesOfALoad DEF Ordered
  <2> HIDE DEF phases
  <2>3. /\ driver' \in Driver /\ driver'.at = "working" /\ driver'.phases = phases
        /\ driver'.loads = Tail(driver.loads) /\ driver'.options = driver.options
    BY <1>1, <1>5, <2>1, <2>2 DEF Driver
  <2>4. AtWork(testbed', driver', deployed')
    BY <1>1, <1>2, <1>3, <2>1, <2>2, <2>3 DEF AtWork, Prepared, Running
  <2> QED
    BY <1>1, <2>3, <2>4 DEF Inv, TypeOK, DoneMeansTornDown
<1> QED
  BY <1>4, <1>5

(***************************************************************************)
(* Every step keeps the invariant.                                         *)
(***************************************************************************)
LEMMA NextInv == ASSUME Inv, [Next]_vars PROVE Inv'
<1>1. CASE \E options \in Options, sweep \in Sweeps :
               Start(options, sweep) \/ Refuse(options, sweep)
  BY <1>1, StartInv
<1>2. CASE \E phase \in Phases : Complete(phase) \/ Fail(phase)
  BY <1>2, CompleteInv, FailInv
<1>3. CASE Scrape
  BY <1>3, ScrapeInv
<1>4. CASE EndMeasurement
  BY <1>4, EndMeasurementInv
<1>5. CASE Interrupt
  BY <1>5, InterruptInv
<1>6. CASE NextLoad
  BY <1>6, NextLoadInv
<1>7. CASE UNCHANGED vars
  BY <1>7 DEF vars, Inv, TypeOK, DoneMeansTornDown
<1> QED
  BY <1>1, <1>2, <1>3, <1>4, <1>5, <1>6, <1>7 DEF Next

(***************************************************************************)
(* The invariant holds in every reachable state.                           *)
(***************************************************************************)
LEMMA SpecInv == Spec => []Inv
<1> QED
  BY InitInv, NextInv, PTL DEF Spec

(***************************************************************************)
(* The machines, the driver and its results are well-formed, for every     *)
(* set of sweeps and of flags (benchmark.rs:32-182).                       *)
(***************************************************************************)
THEOREM BenchmarkType == Spec => []TypeOK
<1>1. Inv => TypeOK
  BY DEF Inv
<1> QED
  BY <1>1, SpecInv, PTL

(***************************************************************************)
(* A driver that came to the end of its sweep left no validator running    *)
(* (benchmark.rs:226-227).                                                 *)
(***************************************************************************)
THEOREM EndsTornDown == Spec => []DoneMeansTornDown
<1>1. Inv => DoneMeansTornDown
  BY DEF Inv
<1> QED
  BY <1>1, SpecInv, PTL

(***************************************************************************)
(* Whatever earlier drivers left when they failed or were killed, nodes    *)
(* are deployed where none run, on wiped storage and without logs          *)
(* (benchmark.rs:97-115).                                                  *)
(***************************************************************************)
THEOREM NodesStartClean == Spec => DeploymentsStartClean
<1> DEFINE A == testbed'.nodes \notin {None, testbed.nodes} =>
                   testbed.nodes = None /\ testbed.storage = "wiped" /\ testbed.logs = {}
<1>1. ASSUME Inv, NEW phase \in Phases, Working(phase), testbed' = Effect
      PROVE  A
  <2>1. testbed \in Testbed /\ Phase = phase
    BY <1>1 DEF Inv, TypeOK, Working
  <2>2. CASE phase = "run_nodes"
    BY <1>1, <2>2, PhasesAreInOrder DEF Clean
  <2>3. CASE phase \in {"cleanup", "tear_down"}
    <3>1. testbed'.nodes = None
      BY <1>1, <2>1, <2>3, EffectCases DEF CleanedUp, TornDown, Testbed
    <3> QED
      BY <3>1
  <2>4. CASE phase \notin {"run_nodes", "cleanup", "tear_down"}
    <3>1. testbed'.nodes = testbed.nodes
      BY <1>1, <2>1, <2>4, EffectCases DEF Configured, Testbed
    <3> QED
      BY <3>1
  <2> QED
    BY <2>2, <2>3, <2>4
<1>2. Inv /\ [Next]_vars => [A]_vars
  <2> SUFFICES ASSUME Inv, [Next]_vars PROVE A
    OBVIOUS
  <2>1. CASE UNCHANGED testbed
    BY <2>1
  <2>2. ASSUME NEW phase \in Phases, Complete(phase) \/ Fail(phase), ~UNCHANGED testbed
        PROVE  A
    <3>1. Working(phase) /\ testbed' = Effect
      BY <2>2 DEF Complete, Fail
    <3> QED
      BY <1>1, <3>1
  <2>3. UNCHANGED testbed \/ \E phase \in Phases : Complete(phase) \/ Fail(phase)
    BY DEF Next, Start, Refuse, Started, Scrape, EndMeasurement, Interrupt, NextLoad, vars
  <2> QED
    BY <2>1, <2>2, <2>3
<1> QED
  BY <1>2, SpecInv, PTL DEF Spec, DeploymentsStartClean

(***************************************************************************)
(* The logs that are downloaded are those of the run that ended and of no  *)
(* other (benchmark.rs:141-158).                                           *)
(***************************************************************************)
THEOREM OwnLogsOnly == Spec => LogsAreOfTheRun
<1> DEFINE A == Complete("download_logs") => downloaded' = {deployed}
<1>1. Inv /\ [Next]_vars => [A]_vars
  <2> SUFFICES ASSUME Inv, Complete("download_logs") PROVE downloaded' = {deployed}
    OBVIOUS
  <2>1. "download_logs" \in Phases
    BY DEF Phases
  <2>2. Working("download_logs") /\ downloaded' = testbed.logs
    BY DEF Complete
  <2> QED
    BY <2>1, <2>2, PhasesAreInOrder
<1> QED
  BY <1>1, SpecInv, PTL DEF Spec, LogsAreOfTheRun

(***************************************************************************)
(* A measurement file holds the load that its name says, unless the        *)
(* configuration was skipped, and a file of a known commit measures        *)
(* validators built from it (args.rs:119, benchmark.rs:55-58).             *)
(***************************************************************************)
THEOREM FilesSayWhatTheyHold == Spec => FilesAreTruthful
<1> DEFINE A == \A commit \in Commits, load \in Loads :
                   LET nodes == files'[<<commit, load>>]
                   IN  nodes # files[<<commit, load>>] =>
                           /\ driver.options.skipConfiguration \/ nodes.load = load \div Committee
                           /\ commit = "current" => nodes.built = "current"
<1>1. ASSUME Inv, Scrape PROVE A
  <2>1. /\ Working("measure") /\ "measure" \in Phases
        /\ files' = [files EXCEPT ![<<ResultsCommit(driver.options), Load>>] = testbed.nodes]
    BY <1>1 DEF Scrape, Phases
  <2>2. /\ driver.options.skipConfiguration \/ testbed.nodes.load = Load \div Committee
        /\ driver.options.skipUpdate \/ testbed.nodes.built = "current"
    BY <1>1, <2>1, PhasesAreInOrder DEF ShareOf, Load
  <2>3. ASSUME NEW commit \in Commits, NEW load \in Loads,
               files'[<<commit, load>>] # files[<<commit, load>>]
        PROVE  /\ \/ driver.options.skipConfiguration
                  \/ files'[<<commit, load>>].load = load \div Committee
               /\ commit = "current" => files'[<<commit, load>>].built = "current"
    <3>1. files \in [Commits \X Loads -> Nodes \cup {None}]
      BY <1>1 DEF Inv, TypeOK
    <3>2. /\ <<commit, load>> = <<ResultsCommit(driver.options), Load>>
          /\ files'[<<commit, load>>] = testbed.nodes
      BY <2>1, <2>3, <3>1
    <3>3. commit = ResultsCommit(driver.options) /\ load = Load
      BY <3>2
    <3>4. commit = "current" => ~driver.options.skipUpdate
      BY <3>3 DEF ResultsCommit
    <3> QED
      BY <2>2, <3>2, <3>3, <3>4
  <2> QED
    BY <2>3
<1>2. Inv /\ [Next]_vars => [A]_vars
  <2> SUFFICES ASSUME Inv, [Next]_vars PROVE A
    OBVIOUS
  <2>1. CASE UNCHANGED files
    BY <2>1
  <2>2. UNCHANGED files \/ Scrape
    BY DEF Next, Start, Refuse, Started, Complete, Fail, EndMeasurement, Interrupt, NextLoad, vars
  <2> QED
    BY <1>1, <2>1, <2>2
<1> QED
  BY <1>2, SpecInv, PTL DEF Spec, FilesAreTruthful
=============================================================================
