----------------------------- MODULE MCProgress -----------------------------
(***************************************************************************)
(* What must end, in three scenes that share nothing: an application that  *)
(* starts and stops (module Lifecycle), in every mode and with the periods *)
(* in the proportions of the defaults; nise dev (module DevLoop) with its  *)
(* database and without Vite, over two edits of which the first does not   *)
(* compile; and the sweep of abandoned uploads (module Uploads), a batch   *)
(* of one against two uploads and one Finalize.                            *)
(***************************************************************************)
EXTENDS Lifecycle

CONSTANTS r1, NoObject

VARIABLES
  scene,
  options, devMain, devTold, devCancelled, failure, container, pg, streak, tries, proxy,
  src, stamp, watcher, base, previous, pending, settle, low, built, serving, devPc, next,
  current, done, devGroup, strays, spared,
  backend, scanner, now, state, claim, expires, checksum, quarantine, final, inflight, pc,
  target, found, why, answer, batch, cleared, overtaken

D == INSTANCE DevLoop WITH
       Commands <- {{"stop-db", "embedded"}}, MaxSaves <- 2, Broken <- {1}, MaxProbes <- 3,
       main <- devMain, told <- devTold, cancelled <- devCancelled, group <- devGroup,
       pc <- devPc

U == INSTANCE Uploads WITH
       Ids <- {"i1", "i2"}, Calls <- {"c1"}, Sweepers <- {"s1"},
       Bodies <- {[size |-> 1, type |-> "png", clean |-> TRUE]},
       Types <- {"png", "html"}, Accepted <- {"png"},
       Claims <- {[size |-> 2, type |-> "png"]},
       Backends <- {"local"}, Scanners <- {FALSE}, MaxUploadBytes <- 3,
       PresignedLifetime <- 0, StagingLifetime <- 1, SweepBatch <- 1, MaxTime <- 1,
       MaxInFlight <- 1

devVars == <<options, devMain, devTold, devCancelled, failure, container, pg, streak, tries,
             proxy, src, stamp, watcher, base, previous, pending, settle, low, built,
             serving, devPc, next, current, done, devGroup, strays, spared>>
sweepVars == <<backend, scanner, now, state, claim, expires, checksum, quarantine, final,
               inflight, pc, target, found, why, answer, batch, cleared, overtaken>>
all == <<scene, vars, devVars, sweepVars>>

\* A step of one scene; the others stand still in one of their initial states.
LifeStep(A) == scene = "life" /\ A /\ UNCHANGED <<scene, devVars, sweepVars>>
DevStep(A) == scene = "dev" /\ A /\ UNCHANGED <<scene, vars, sweepVars>>
SweepStep(A) == scene = "sweep" /\ A /\ UNCHANGED <<scene, vars, devVars>>

ProgressInit ==
  /\ scene \in {"life", "dev", "sweep"} /\ Init /\ D!DInit /\ U!Init
  /\ scene # "life" => items = Components /\ drainPeriod = 0
  /\ container = "absent"
  /\ target["c1"] = "i1"

ProgressNext == LifeStep(Next) \/ DevStep(D!DNext) \/ SweepStep(U!Next)

\* The fairness of each module's own specification, in its scene.
LifeFairness == WF_all(LifeStep(Runs)) /\ WF_all(LifeStep(Tick))

DevFairness ==
  /\ WF_all(DevStep(D!MainStep))
  /\ WF_all(DevStep(D!WatcherScans \/ D!WatcherTicks))
  /\ WF_all(DevStep(D!WatcherReturns))
  /\ WF_all(DevStep(D!AppStep))
  /\ WF_all(DevStep(D!SupStep("web")))
  /\ WF_all(DevStep(D!TimerFires))
  /\ \A s \in {"app", "web"} : WF_all(DevStep(D!Reaped(s)))

SweepFairness ==
  /\ WF_all(SweepStep(U!SweepLists("s1")))
  /\ \A i \in {"i1", "i2"} : /\ SF_all(SweepStep(U!SweepDeletes("s1", i)))
                             /\ SF_all(SweepStep(U!SweepMarks("s1", i)))

ProgressSpec == /\ ProgressInit /\ [][ProgressNext]_all
                /\ LifeFairness /\ DevFairness /\ SweepFairness

\* A signal or a failure ends nise dev, whatever the children do.
ShutdownEnds == D!ShutdownEnds

\* Once the edits stop, the dev server runs what was in the tree at the last edit
\* that the watcher could see, unless that does not compile.
Fresh == D!Fresh

\* An upload whose window has elapsed does not stay staged.
AbandonedIsSwept == U!AbandonedIsSwept
=============================================================================
