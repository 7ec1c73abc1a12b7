----------------------------- MODULE ProcessTree -----------------------------
(***************************************************************************)
(* The four processes of the signaling program and how they end: main      *)
(* (main.cpp 49-102 and SignalGenerator with is_main), the handler process *)
(* (CreateSignalHandler 78-86) and the two generator children.             *)
(*                                                                         *)
(* The handler is forked before the generators exist, so in its copy of    *)
(* signal_generators both entries are 0: its kill(0, SIGTERM) goes to the  *)
(* whole process group and its waitpid(0) finds no child.                  *)
(***************************************************************************)
EXTENDS Integers, FiniteSets

CONSTANTS
    Main, Handler, Gen0, Gen1,   \* the processes
    ForkMayFail                  \* may the fork of a generator fail?

ASSUME ProcessesAssumption == Cardinality({Main, Handler, Gen0, Gen1}) = 4
ASSUME ForksAssumption == ForkMayFail \in BOOLEAN

Processes == {Main, Handler, Gen0, Gen1}
Generators == {Gen0, Gen1}
Children == {Handler, Gen0, Gen1}

VARIABLES
    TIME_TRIAL,       \* main stops the program, or the handler process does
    pc,               \* the place of each process
    PROGRAM_RUNNING,  \* one copy per process
    catches,          \* processes in which SIGTERM has a handler
    term,             \* processes with SIGTERM pending
    failed,           \* generators whose fork returned -1
    reaped,           \* children main has waited for
    killed            \* processes ended by SIGTERM's default action

vars == <<TIME_TRIAL, pc, PROGRAM_RUNNING, catches, term, failed, reaped,
          killed>>

Init ==
    /\ TIME_TRIAL \in BOOLEAN
    /\ pc = [p \in Processes |-> IF p = Main THEN "install" ELSE "none"]
    /\ PROGRAM_RUNNING = [p \in Processes |-> TRUE]
    /\ catches = {} /\ term = {} /\ failed = {} /\ reaped = {} /\ killed = {}

Alive == {p \in Processes : pc[p] \notin {"none", "ended"}}

Goto(p, place) == pc' = [pc EXCEPT ![p] = place]

(* fork: the child has its parent's flag and signal actions.               *)
Forks(child, place, next) ==
    /\ pc' = [pc EXCEPT ![child] = place, ![Main] = next]
    /\ PROGRAM_RUNNING' =
          [PROGRAM_RUNNING EXCEPT ![child] = PROGRAM_RUNNING[Main]]
    /\ catches' = IF Main \in catches THEN catches \union {child} ELSE catches

(***************************************************************************)
(* kill: one process, 0 for all of the group, -1 for all that may be sent  *)
(* a signal, the program's own ones among them.                            *)
(***************************************************************************)
SendTerm(targets) == term' = term \union (targets \intersect Alive)

-----------------------------------------------------------------------------
(* main *)

(* SIGTERM keeps its default action until after the fork of the handler.   *)
InstallNothing ==
    /\ pc[Main] = "install"
    /\ Goto(Main, "fork_handler")
    /\ UNCHANGED <<TIME_TRIAL, PROGRAM_RUNNING, catches, term, failed, reaped,
                   killed>>

Install ==
    /\ pc[Main] = "install"
    /\ catches' = catches \union {Main}
    /\ Goto(Main, "fork_handler")
    /\ UNCHANGED <<TIME_TRIAL, PROGRAM_RUNNING, term, failed, reaped, killed>>

ForkHandler ==
    /\ pc[Main] = "fork_handler"
    /\ Forks(Handler, "setup", "fork0")
    /\ UNCHANGED <<TIME_TRIAL, term, failed, reaped, killed>>

(* Errors::ExitWithErrorMessage(FORK_FAILURE)                              *)
ForkHandlerFails ==
    /\ ForkMayFail
    /\ pc[Main] = "fork_handler"
    /\ Goto(Main, "ended")
    /\ UNCHANGED <<TIME_TRIAL, PROGRAM_RUNNING, catches, term, failed, reaped,
                   killed>>

ForkGenerator(g, here, next) ==
    /\ pc[Main] = here
    /\ Forks(g, "generate", next)
    /\ UNCHANGED <<TIME_TRIAL, term, failed, reaped, killed>>

(* A message is printed and main goes on with -1 for a pid.                *)
ForkGeneratorFails(g, here, next) ==
    /\ ForkMayFail
    /\ pc[Main] = here
    /\ failed' = failed \union {g}
    /\ Goto(Main, next)
    /\ UNCHANGED <<TIME_TRIAL, PROGRAM_RUNNING, catches, term, reaped, killed>>

(* The generating loop: TIME_TRIAL ends it after 30 seconds.               *)
TimeIsUp ==
    /\ TIME_TRIAL
    /\ pc[Main] = "generate"
    /\ PROGRAM_RUNNING[Main]
    /\ PROGRAM_RUNNING' = [PROGRAM_RUNNING EXCEPT ![Main] = FALSE]
    /\ UNCHANGED <<TIME_TRIAL, pc, catches, term, failed, reaped, killed>>

LeaveLoop(p, next) ==
    /\ pc[p] = "generate"
    /\ ~PROGRAM_RUNNING[p]
    /\ Goto(p, next)
    /\ UNCHANGED <<TIME_TRIAL, PROGRAM_RUNNING, catches, term, failed, reaped,
                   killed>>

(* kill(children[i], SIGTERM)                                              *)
KillGenerator(g, here, next) ==
    /\ pc[Main] = here
    /\ IF g \in failed
       THEN SendTerm(Processes \ {Main})
       ELSE SendTerm({g})
    /\ Goto(Main, next)
    /\ UNCHANGED <<TIME_TRIAL, PROGRAM_RUNNING, catches, failed, reaped,
                   killed>>

(* waitpid: returns for an ended child, or at once if there is none left.  *)
WaitFor(children, here, next) ==
    /\ pc[Main] = here
    /\ LET waited == {c \in children \ reaped : pc[c] # "none"}
       IN  \/ waited = {} /\ UNCHANGED reaped
           \/ \E c \in waited : pc[c] = "ended" /\ reaped' = reaped \union {c}
    /\ Goto(Main, next)
    /\ UNCHANGED <<TIME_TRIAL, PROGRAM_RUNNING, catches, term, failed, killed>>

(* waitpid(-1) for a generator that could not be forked.                   *)
WaitForGenerator(g, here, next) ==
    WaitFor(IF g \in failed THEN Children ELSE {g}, here, next)

KillHandler ==
    /\ pc[Main] = "kill_handler"
    /\ SendTerm({Handler})
    /\ Goto(Main, "wait_handler")
    /\ UNCHANGED <<TIME_TRIAL, PROGRAM_RUNNING, catches, failed, reaped,
                   killed>>

-----------------------------------------------------------------------------
(* The handler process *)

(* The mask is set, SIGTERM handled anew and Logger entered.               *)
StartLogger ==
    /\ pc[Handler] = "setup"
    /\ catches' = catches \union {Handler}
    /\ Goto(Handler, "logger")
    /\ UNCHANGED <<TIME_TRIAL, PROGRAM_RUNNING, term, failed, reaped, killed>>

(* A receiver's pthread_create fails: exit(PTHREAD_CREATE_FAILURE).        *)
StartLoggerFails ==
    /\ pc[Handler] = "setup"
    /\ catches' = catches \union {Handler}
    /\ Goto(Handler, "ended")
    /\ UNCHANGED <<TIME_TRIAL, PROGRAM_RUNNING, term, failed, reaped, killed>>

(* SIGUSR1 or SIGUSR2 comes while its default action is in force: before   *)
(* the mask is set, or in the windows of ReceiverSetup.                    *)
SigusrEndsHandler ==
    /\ pc[Handler] \in {"setup", "logger"}
    /\ \/ pc[Gen0] # "none"
       \/ pc[Main] \notin {"install", "fork_handler", "fork0", "fork1"}
    /\ Goto(Handler, "ended")
    /\ UNCHANGED <<TIME_TRIAL, PROGRAM_RUNNING, catches, term, failed, reaped,
                   killed>>

(* The 100,000th signal has been counted.                                  *)
LimitReached ==
    /\ ~TIME_TRIAL
    /\ pc[Handler] = "logger"
    /\ \E p \in {Main, Gen0, Gen1} : pc[p] = "generate"
    /\ PROGRAM_RUNNING[Handler]
    /\ PROGRAM_RUNNING' = [PROGRAM_RUNNING EXCEPT ![Handler] = FALSE]
    /\ UNCHANGED <<TIME_TRIAL, pc, catches, term, failed, reaped, killed>>

LoggerEnds ==
    /\ pc[Handler] = "logger"
    /\ ~PROGRAM_RUNNING[Handler]
    /\ Goto(Handler, "kill0")
    /\ UNCHANGED <<TIME_TRIAL, PROGRAM_RUNNING, catches, term, failed, reaped,
                   killed>>

(* The loop with the pids it means: main is not told.                      *)
KillOwnGenerator(here, next) ==
    /\ pc[Handler] = here
    /\ SendTerm(Generators)
    /\ Goto(Handler, next)
    /\ UNCHANGED <<TIME_TRIAL, PROGRAM_RUNNING, catches, failed, reaped,
                   killed>>

(* kill(0, SIGTERM), then waitpid(0) fails with ECHILD.                    *)
KillGroup(here, next) ==
    /\ pc[Handler] = here
    /\ SendTerm(Processes)
    /\ Goto(Handler, next)
    /\ UNCHANGED <<TIME_TRIAL, PROGRAM_RUNNING, catches, failed, reaped,
                   killed>>

-----------------------------------------------------------------------------
(* SIGTERM reaches p.  The handlers clear the process's own flag.          *)
TermArrives(p) ==
    /\ p \in term \intersect Alive
    /\ term' = term \ {p}
    /\ IF p \in catches
       THEN /\ PROGRAM_RUNNING' = [PROGRAM_RUNNING EXCEPT ![p] = FALSE]
            /\ UNCHANGED <<TIME_TRIAL, pc, killed>>
       ELSE /\ Goto(p, "ended")
            /\ killed' = killed \union {p}
            /\ UNCHANGED PROGRAM_RUNNING
    /\ UNCHANGED <<TIME_TRIAL, catches, failed, reaped>>

MainStep ==
    \/ Install \/ ForkHandler \/ ForkHandlerFails
    \/ ForkGenerator(Gen0, "fork0", "fork1")
    \/ ForkGeneratorFails(Gen0, "fork0", "fork1")
    \/ ForkGenerator(Gen1, "fork1", "generate")
    \/ ForkGeneratorFails(Gen1, "fork1", "generate")
    \/ LeaveLoop(Main, "kill0")
    \/ KillGenerator(Gen0, "kill0", "wait0")
    \/ WaitForGenerator(Gen0, "wait0", "kill1")
    \/ KillGenerator(Gen1, "kill1", "wait1")
    \/ WaitForGenerator(Gen1, "wait1", "kill_handler")
    \/ KillHandler
    \/ WaitFor({Handler}, "wait_handler", "ended")

HandlerStep ==
    \/ StartLogger \/ StartLoggerFails
    \/ KillGroup("kill0", "kill1") \/ KillGroup("kill1", "ended")

GeneratorStep(g) == LeaveLoop(g, "ended")

Next ==
    \/ MainStep \/ HandlerStep \/ SigusrEndsHandler
    \/ TimeIsUp \/ LimitReached \/ LoggerEnds
    \/ \E g \in Generators : GeneratorStep(g)
    \/ \E p \in Processes : TermArrives(p)

Spec == Init /\ [][Next]_vars

(* Processes are scheduled, signals delivered, and the time passes.  The   *)
(* limit may never be reached, the count may step over it, and the logger  *)
(* may never end (SignalLogger): neither is fair.                          *)
FairSpec ==
    /\ Spec
    /\ WF_vars(MainStep) /\ WF_vars(HandlerStep)
    /\ WF_vars(TimeIsUp)
    /\ \A g \in Generators : WF_vars(GeneratorStep(g))
    /\ \A p \in Processes : WF_vars(TermArrives(p))

-----------------------------------------------------------------------------
MainPlaces ==
    {"install", "fork_handler", "fork0", "fork1", "generate", "kill0", "wait0",
     "kill1", "wait1", "kill_handler", "wait_handler", "ended"}

(* Each process is at one of its own places, and only children are failed  *)
(* or reaped (main.cpp 34-101, initialize.cpp 78-86).                      *)
TypeOK ==
    /\ pc \in [Processes -> MainPlaces \union {"none", "setup", "logger"}]
    /\ pc[Main] \in MainPlaces
    /\ pc[Handler] \in {"none", "setup", "logger", "kill0", "kill1", "ended"}
    /\ \A g \in Generators : pc[g] \in {"none", "generate", "ended"}
    /\ PROGRAM_RUNNING \in [Processes -> BOOLEAN]
    /\ catches \in SUBSET Processes /\ term \in SUBSET Processes
    /\ failed \in SUBSET Generators /\ reaped \in SUBSET Children
    /\ killed \in SUBSET Processes
    /\ TIME_TRIAL \in BOOLEAN

(***************************************************************************)
(* "All children and their threads have been closed peacefully!" (main.cpp *)
(* 101): when main ends every child has ended, none of them by the default *)
(* action of SIGTERM.                                                      *)
(***************************************************************************)
ClosedPeacefully ==
    /\ pc[Main] = "ended" => \A c \in Children : pc[c] \in {"none", "ended"}
    /\ killed = {}

AllOver == \A p \in Processes : pc[p] \in {"none", "ended"}

(* The handler has caught SIGTERM and its logger does not notice.          *)
OnlyLoggerLeft ==
    /\ \A g \in Generators : pc[g] \in {"none", "ended"}
    /\ pc[Handler] = "logger" /\ ~PROGRAM_RUNNING[Handler]

(***************************************************************************)
(* Whichever process sees the end of the program first, the other three    *)
(* follow.  After the 30 seconds (generator.cpp 43) all have ended, up to  *)
(* a handler process whose logger misses its SIGTERM and for which main    *)
(* waits (main.cpp 98); once the handler process has come to its loop of   *)
(* kills (initialize.cpp 81-86) these reach main as well.                  *)
(***************************************************************************)
ProgramEnds ==
    /\ TIME_TRIAL => <>[](AllOver \/ OnlyLoggerLeft)
    /\ pc[Handler] = "kill0" ~> AllOver

=============================================================================
