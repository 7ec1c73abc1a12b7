-------------------------- MODULE ProcessTreeProofs --------------------------
(***************************************************************************)
(* Proofs about ProcessTree: that no process is ended by SIGTERM and that  *)
(* main's waits leave no child behind, whether or not forks fail, in both  *)
(* modes, although a failed fork makes main signal every process and wait  *)
(* for any child.                                                          *)
(***************************************************************************)
EXTENDS ProcessTree, FiniteSetTheorems, TLAPS

Over(c) == pc[c] \in {"none", "ended"}

(* A child is there only when main has got past its fork, and never when   *)
(* the fork has failed.                                                    *)
ForkInv ==
    /\ pc[Main] \in {"install", "fork_handler"} => pc[Handler] = "none"
    /\ pc[Main] \in {"install", "fork_handler", "fork0"} =>
          pc[Gen0] = "none" /\ failed = {}
    /\ pc[Main] \in {"install", "fork_handler", "fork0", "fork1"} =>
          pc[Gen1] = "none" /\ Gen1 \notin failed
    /\ \A g \in failed : pc[g] = "none"

(* Every process that can be sent SIGTERM catches it: main installs its    *)
(* handler before there is anybody to send it, and children inherit it.    *)
CatchInv ==
    /\ pc[Main] = "install" => term = {}
    /\ pc[Main] # "install" => Main \in catches
    /\ \A c \in Children : pc[c] # "none" => c \in catches
    /\ killed = {}

(* Behind each of its waits main knows that the child is over.             *)
WaitInv ==
    /\ \A c \in reaped : pc[c] = "ended"
    /\ pc[Main] \in {"kill1", "wait1", "kill_handler", "wait_handler", "ended"}
          => Over(Gen0)
    /\ pc[Main] \in {"kill_handler", "wait_handler", "ended"} => Over(Gen1)
    /\ pc[Main] = "ended" => Over(Handler)

TreeInv == TypeOK /\ ForkInv /\ CatchInv /\ WaitInv

USE DEF Processes, Generators, Children, Alive, Goto, SendTerm, MainPlaces, Over

-----------------------------------------------------------------------------
(* Four different processes.                                               *)
LEMMA Names ==
  /\ Main # Handler /\ Main # Gen0 /\ Main # Gen1
  /\ Handler # Gen0 /\ Handler # Gen1 /\ Gen0 # Gen1
<1>1. ASSUME NEW a, NEW b, NEW c
      PROVE  Cardinality({a, b, c}) # 4
  <2>1. {a, b, c} = ({c} \union {b}) \union {a}
    OBVIOUS
  <2>2. IsFiniteSet({c}) /\ Cardinality({c}) = 1
    BY FS_Singleton
  <2>3. IsFiniteSet({c} \union {b}) /\ Cardinality({c} \union {b}) \in {1, 2}
    BY <2>2, FS_AddElement
  <2>4. Cardinality(({c} \union {b}) \union {a}) \in {1, 2, 3}
    BY <2>3, FS_AddElement
  <2>. QED  BY <2>1, <2>4
<1>2. SUFFICES ASSUME ~(/\ Main # Handler /\ Main # Gen0 /\ Main # Gen1
                        /\ Handler # Gen0 /\ Handler # Gen1 /\ Gen0 # Gen1)
               PROVE  FALSE
  OBVIOUS
<1>3. \E a, b, c \in {Main, Handler, Gen0, Gen1} :
         {Main, Handler, Gen0, Gen1} = {a, b, c}
  <2>1. CASE Main \in {Handler, Gen0, Gen1}
    BY <2>1
  <2>2. CASE Handler \in {Gen0, Gen1}
    BY <2>2
  <2>3. CASE Gen0 = Gen1
    BY <2>3
  <2>. QED  BY <1>2, <2>1, <2>2, <2>3
<1>. QED  BY <1>1, <1>3, ProcessesAssumption

LEMMA InitTree == Init => TreeInv
BY Names DEF Init, TreeInv, TypeOK, ForkInv, CatchInv, WaitInv

LEMMA StutterTree ==
  ASSUME TreeInv, UNCHANGED vars
  PROVE  TreeInv'
BY DEF TreeInv, TypeOK, ForkInv, CatchInv, WaitInv, vars

-----------------------------------------------------------------------------
(* Forks *)

LEMMA InstallTree ==
  ASSUME TreeInv, Install
  PROVE  TreeInv'
<1> USE Names DEF TreeInv, Install
<1>1. TypeOK'
  BY DEF TypeOK
<1>2. ForkInv'
  BY DEF TypeOK, ForkInv
<1>3. CatchInv'
  BY DEF TypeOK, ForkInv, CatchInv
<1>4. WaitInv'
  BY DEF TypeOK, ForkInv, WaitInv
<1>. QED  BY <1>1, <1>2, <1>3, <1>4

LEMMA ForkHandlerTree ==
  ASSUME TreeInv, ForkHandler \/ ForkHandlerFails
  PROVE  TreeInv'
<1> USE Names DEF TreeInv, ForkHandler, ForkHandlerFails, Forks
<1>1. TypeOK'
  BY DEF TypeOK
<1>2. ForkInv'
  BY DEF TypeOK, ForkInv
<1>3. CatchInv'
  BY DEF TypeOK, ForkInv, CatchInv
<1>4. WaitInv'
  BY DEF TypeOK, ForkInv, WaitInv
<1>. QED  BY <1>1, <1>2, <1>3, <1>4

LEMMA ForkGen0Tree ==
  ASSUME TreeInv,
         \/ ForkGenerator(Gen0, "fork0", "fork1")
         \/ ForkGeneratorFails(Gen0, "fork0", "fork1")
  PROVE  TreeInv'
<1> USE Names DEF TreeInv, ForkGenerator, ForkGeneratorFails, Forks
<1>1. TypeOK'
  BY DEF TypeOK
<1>2. ForkInv'
  BY DEF TypeOK, ForkInv
<1>3. CatchInv'
  BY DEF TypeOK, ForkInv, CatchInv
<1>4. WaitInv'
  BY DEF TypeOK, ForkInv, WaitInv
<1>. QED  BY <1>1, <1>2, <1>3, <1>4

LEMMA ForkGen1Tree ==
  ASSUME TreeInv,
         \/ ForkGenerator(Gen1, "fork1", "generate")
         \/ ForkGeneratorFails(Gen1, "fork1", "generate")
  PROVE  TreeInv'
<1> USE Names DEF TreeInv, ForkGenerator, ForkGeneratorFails, Forks
<1>1. TypeOK'
  BY DEF TypeOK
<1>2. ForkInv'
  BY DEF TypeOK, ForkInv
<1>3. CatchInv'
  BY DEF TypeOK, ForkInv, CatchInv
<1>4. WaitInv'
  BY DEF TypeOK, ForkInv, WaitInv
<1>. QED  BY <1>1, <1>2, <1>3, <1>4

-----------------------------------------------------------------------------
(* The end of the program *)

LEMMA FlagTree ==
  ASSUME TreeInv, TimeIsUp \/ LimitReached
  PROVE  TreeInv'
<1> USE Names DEF TreeInv, TimeIsUp, LimitReached
<1>1. TypeOK'
  BY DEF TypeOK
<1>2. ForkInv'
  BY DEF TypeOK, ForkInv
<1>3. CatchInv'
  BY DEF TypeOK, ForkInv, CatchInv
<1>4. WaitInv'
  BY DEF TypeOK, ForkInv, WaitInv
<1>. QED  BY <1>1, <1>2, <1>3, <1>4

LEMMA LeaveTree ==
  ASSUME TreeInv,
         \/ LeaveLoop(Main, "kill0")
         \/ \E g \in Generators : GeneratorStep(g)
         \/ StartLogger \/ StartLoggerFails \/ SigusrEndsHandler \/ LoggerEnds
  PROVE  TreeInv'
<1> USE Names DEF TreeInv, LeaveLoop, GeneratorStep, StartLogger,
                  StartLoggerFails, SigusrEndsHandler, LoggerEnds
<1>1. TypeOK'
  BY DEF TypeOK
<1>2. ForkInv'
  BY DEF TypeOK, ForkInv
<1>3. CatchInv'
  BY DEF TypeOK, ForkInv, CatchInv
<1>4. WaitInv'
  BY DEF TypeOK, ForkInv, WaitInv
<1>. QED  BY <1>1, <1>2, <1>3, <1>4

LEMMA KillTree ==
  ASSUME TreeInv,
         \/ KillGenerator(Gen0, "kill0", "wait0")
         \/ KillGenerator(Gen1, "kill1", "wait1")
         \/ KillHandler
         \/ KillGroup("kill0", "kill1") \/ KillGroup("kill1", "ended")
  PROVE  TreeInv'
<1> USE Names DEF TreeInv, KillGenerator, KillHandler, KillGroup
<1>1. TypeOK'
  BY DEF TypeOK
<1>2. ForkInv'
  BY DEF TypeOK, ForkInv
<1>3. CatchInv'
  BY DEF TypeOK, ForkInv, CatchInv
<1>4. WaitInv'
  BY DEF TypeOK, ForkInv, WaitInv
<1>. QED  BY <1>1, <1>2, <1>3, <1>4

LEMMA WaitGen0Tree ==
  ASSUME TreeInv, WaitForGenerator(Gen0, "wait0", "kill1")
  PROVE  TreeInv'
<1> USE Names DEF TreeInv, WaitForGenerator, WaitFor
<1>1. TypeOK'
  BY DEF TypeOK
<1>2. ForkInv'
  BY DEF TypeOK, ForkInv
<1>3. CatchInv'
  BY DEF TypeOK, ForkInv, CatchInv
<1>4. WaitInv'
  BY DEF TypeOK, ForkInv, WaitInv
<1>. QED  BY <1>1, <1>2, <1>3, <1>4

LEMMA WaitGen1Tree ==
  ASSUME TreeInv, WaitForGenerator(Gen1, "wait1", "kill_handler")
  PROVE  TreeInv'
<1> USE Names DEF TreeInv, WaitForGenerator, WaitFor
<1>1. TypeOK'
  BY DEF TypeOK
<1>2. ForkInv'
  BY DEF TypeOK, ForkInv
<1>3. CatchInv'
  BY DEF TypeOK, ForkInv, CatchInv
<1>4. WaitInv'
  BY DEF TypeOK, ForkInv, WaitInv
<1>. QED  BY <1>1, <1>2, <1>3, <1>4

LEMMA WaitHandlerTree ==
  ASSUME TreeInv, WaitFor({Handler}, "wait_handler", "ended")
  PROVE  TreeInv'
<1> USE Names DEF TreeInv, WaitFor
<1>1. TypeOK'
  BY DEF TypeOK
<1>2. ForkInv'
  BY DEF TypeOK, ForkInv
<1>3. CatchInv'
  BY DEF TypeOK, ForkInv, CatchInv
<1>4. WaitInv'
  BY DEF TypeOK, ForkInv, WaitInv
<1>. QED  BY <1>1, <1>2, <1>3, <1>4

(* Whoever is reached by SIGTERM catches it and stays where it is.         *)
LEMMA TermTree ==
  ASSUME TreeInv, NEW p \in Processes, TermArrives(p)
  PROVE  TreeInv'
<1> USE Names DEF TreeInv, TermArrives
<1>1. p \in catches
  BY DEF TypeOK, CatchInv
<1>2. UNCHANGED <<pc, catches, failed, reaped, killed>> /\ term' = term \ {p}
  BY <1>1
<1>3. TypeOK'
  BY <1>1, <1>2 DEF TypeOK
<1>4. ForkInv' /\ CatchInv' /\ WaitInv'
  BY <1>2 DEF ForkInv, CatchInv, WaitInv
<1>. QED  BY <1>3, <1>4

-----------------------------------------------------------------------------
(* What main can rely on holds in every state that can be reached.         *)
THEOREM TreeInvariance == Spec => []TreeInv
<1>1. TreeInv /\ [Next]_vars => TreeInv'
  BY StutterTree, InstallTree, ForkHandlerTree, ForkGen0Tree, ForkGen1Tree,
     FlagTree, LeaveTree, KillTree, WaitGen0Tree, WaitGen1Tree,
     WaitHandlerTree, TermTree DEF Next, MainStep, HandlerStep
<1>. QED  BY InitTree, <1>1, PTL DEF Spec

(* Every variable keeps to its values.                                     *)
THEOREM TreeTypeCorrect == Spec => []TypeOK
<1>1. TreeInv => TypeOK
  BY DEF TreeInv
<1>. QED  BY TreeInvariance, <1>1, PTL

(* "All children and their threads have been closed peacefully!" (main.cpp *)
(* 101): when main ends no child is left, and SIGTERM has ended nobody.    *)
THEOREM AllClosedPeacefully == Spec => []ClosedPeacefully
<1>1. TreeInv => ClosedPeacefully
  BY DEF TreeInv, CatchInv, WaitInv, ClosedPeacefully
<1>. QED  BY TreeInvariance, <1>1, PTL
=============================================================================
