------------------------- MODULE ReceiverSetupProofs -------------------------
(***************************************************************************)
(* Proofs about ReceiverSetup.  What comes of the promise of               *)
(* initialize.cpp 56 depends on five facts that hold together: which masks *)
(* a thread can have at each place, that no receiver exists before main    *)
(* has blocked, that a receiver in its loop has installed the handler of   *)
(* the signal it has read, that nothing is handled before one has, and     *)
(* that whoever has run it had its signal unblocked.                       *)
(***************************************************************************)
EXTENDS ReceiverSetup, FiniteSetTheorems, TLAPS

(* Receivers are created one by one, and only when the mask is set.        *)
CreationInv ==
    /\ main_pc \in {"block", "unblock"} => index = 0
    /\ \A r \in Receivers : index <= r => pc[r] = "none"

(* Before a receiver has got to its loop there is nothing to run; then     *)
(* there is what it has asked for.                                         *)
HandlerInv ==
    /\ (\A r \in Receivers : pc[r] # "loop") => installed = {}
    /\ installed = {} => handled = {}
    /\ \A r \in Receivers :
          pc[r] = "loop" /\ arg[r] \in Signals => arg[r] \in installed

(* With emptied sets each thread blocks all but what it was told to take.  *)
MaskInv ==
    (clean_masks /\ main_pc # "block") =>
       /\ blocked[Main] = Signals
       /\ \A r \in Receivers :
             /\ pc[r] = "created" => blocked[r] = Signals
             /\ pc[r] \in {"unblocked", "loop"} =>
                   blocked[r] = Signals \ {Meant(arg[r])}

(* Who has run the handler had been created, and had unblocked the signal. *)
HandledInv ==
    clean_masks => \A t \in Threads, s \in Signals : <<t, s>> \in handled =>
       /\ t \in Receivers
       /\ pc[t] \in {"unblocked", "loop"}
       /\ s = Meant(arg[t])

SetupInv == TypeOK /\ CreationInv /\ HandlerInv /\ MaskInv /\ HandledInv

USE DEF setup_vars, thread_vars, Signals, Receivers, Threads

-----------------------------------------------------------------------------
(* Three different names, and a main thread that is no receiver.           *)
LEMMA Names ==
  /\ SIGUSR1 # SIGUSR2 /\ SIGUSR1 # Garbage /\ SIGUSR2 # Garbage
  /\ Main \notin Receivers
<1>1. ASSUME NEW a, NEW b
      PROVE  Cardinality({a, b, b}) # 3 /\ Cardinality({a, a, b}) # 3
             /\ Cardinality({a, b, a}) # 3
  <2>1. {a, b, b} = {b} \union {a} /\ {a, a, b} = {b} \union {a}
        /\ {a, b, a} = {b} \union {a}
    OBVIOUS
  <2>2. IsFiniteSet({b}) /\ Cardinality({b}) = 1
    BY FS_Singleton
  <2>3. Cardinality({b} \union {a}) \in {1, 2}
    BY <2>2, FS_AddElement
  <2>. QED  BY <2>1, <2>3
<1>2. SIGUSR1 # SIGUSR2
  BY <1>1, NamesAssumption
<1>3. SIGUSR1 # Garbage
  BY <1>1, NamesAssumption
<1>4. SIGUSR2 # Garbage
  BY <1>1, NamesAssumption
<1>. QED  BY <1>2, <1>3, <1>4, MainAssumption

(* Nothing is handled, created or blocked yet.                             *)
LEMMA InitSetup == Init => SetupInv
BY Names DEF Init, SetupInv, TypeOK, CreationInv, HandlerInv, MaskInv, HandledInv

-----------------------------------------------------------------------------
(* A kept state is left alone by a stutter.                                *)
LEMMA StutterSetup ==
  ASSUME SetupInv, UNCHANGED vars
  PROVE  SetupInv'
BY DEF SetupInv, TypeOK, CreationInv, HandlerInv, MaskInv, HandledInv, vars

LEMMA BlockSetup ==
  ASSUME SetupInv, Block
  PROVE  SetupInv'
<1> USE Names DEF SetupInv, Block
<1>1. TypeOK'
  BY DEF TypeOK
<1>2. CreationInv'
  BY DEF TypeOK, CreationInv
<1>3. HandlerInv'
  BY DEF TypeOK, HandlerInv
<1>4. MaskInv'
  BY DEF TypeOK, CreationInv, MaskInv
<1>5. HandledInv'
  BY DEF TypeOK, HandledInv
<1>. QED  BY <1>1, <1>2, <1>3, <1>4, <1>5

LEMMA UnblockTermSetup ==
  ASSUME SetupInv, UnblockTerm
  PROVE  SetupInv'
<1> USE Names DEF SetupInv, UnblockTerm
<1>1. TypeOK'
  BY DEF TypeOK
<1>2. CreationInv'
  BY DEF TypeOK, CreationInv
<1>3. HandlerInv'
  BY DEF TypeOK, HandlerInv
<1>4. MaskInv'
  BY DEF TypeOK, CreationInv, MaskInv
<1>5. HandledInv'
  BY DEF TypeOK, HandledInv
<1>. QED  BY <1>1, <1>2, <1>3, <1>4, <1>5

LEMMA CreateReceiverSetup ==
  ASSUME SetupInv, CreateReceiver
  PROVE  SetupInv'
<1> USE Names DEF SetupInv, CreateReceiver
<1>1. TypeOK'
  BY DEF TypeOK
<1>2. pc[index] = "none" /\ index \in Receivers
  BY DEF TypeOK, CreationInv
<1>3. CreationInv'
  BY DEF TypeOK, CreationInv
<1>4. HandlerInv'
  BY <1>2 DEF TypeOK, HandlerInv
<1>5. MaskInv'
  BY <1>2 DEF TypeOK, MaskInv
<1>6. HandledInv'
  BY <1>2 DEF TypeOK, HandledInv
<1>. QED  BY <1>1, <1>3, <1>4, <1>5, <1>6

LEMMA CreateReceiverFailsSetup ==
  ASSUME SetupInv, CreateReceiverFails
  PROVE  SetupInv'
BY Names DEF SetupInv, CreateReceiverFails, TypeOK, CreationInv, HandlerInv,
             MaskInv, HandledInv

LEMMA StartLoggerSetup ==
  ASSUME SetupInv, StartLogger
  PROVE  SetupInv'
BY Names DEF SetupInv, StartLogger, TypeOK, CreationInv, HandlerInv, MaskInv,
             HandledInv

LEMMA ReadAndUnblockSetup ==
  ASSUME SetupInv, NEW r \in Receivers, ReadAndUnblock(r)
  PROVE  SetupInv'
<1> USE Names DEF SetupInv, ReadAndUnblock
<1>1. PICK u \in Unblocks(Meant(sig)) :
         blocked' = [blocked EXCEPT ![r] = @ \ u]
  BY DEF Meant
<1>2. TypeOK'
  BY <1>1 DEF TypeOK
<1>3. CreationInv'
  BY DEF TypeOK, CreationInv
<1>4. HandlerInv'
  BY DEF TypeOK, HandlerInv
<1>5. clean_masks => u = {Meant(arg'[r])}
  BY <1>1 DEF TypeOK, Unblocks
<1>6. MaskInv'
  <2> SUFFICES ASSUME clean_masks, main_pc # "block"
               PROVE  MaskInv'
    BY DEF MaskInv
  <2>1. blocked'[r] = Signals \ {Meant(arg'[r])}
    BY <1>1, <1>5 DEF TypeOK, MaskInv
  <2>2. \A q \in Receivers \ {r} :
           blocked'[q] = blocked[q] /\ pc'[q] = pc[q] /\ arg'[q] = arg[q]
    BY <1>1 DEF TypeOK
  <2>3. blocked'[Main] = blocked[Main] /\ pc'[r] = "unblocked"
    BY <1>1 DEF TypeOK
  <2>. QED  BY <2>1, <2>2, <2>3 DEF MaskInv
<1>7. HandledInv'
  BY DEF TypeOK, HandledInv
<1>. QED  BY <1>2, <1>3, <1>4, <1>6, <1>7

LEMMA InstallHandlerSetup ==
  ASSUME SetupInv, NEW r \in Receivers, InstallHandler(r)
  PROVE  SetupInv'
<1> USE Names DEF SetupInv, InstallHandler
<1>1. TypeOK'
  BY DEF TypeOK
<1>2. CreationInv'
  BY DEF TypeOK, CreationInv
<1>3. HandlerInv'
  BY DEF TypeOK, HandlerInv
<1>4. MaskInv'
  BY DEF TypeOK, MaskInv
<1>5. HandledInv'
  BY DEF TypeOK, HandledInv
<1>. QED  BY <1>1, <1>2, <1>3, <1>4, <1>5

LEMMA SendSetup ==
  ASSUME SetupInv, NEW s \in Signals, Send(s)
  PROVE  SetupInv'
BY DEF SetupInv, Send, TypeOK, CreationInv, HandlerInv, MaskInv, HandledInv

(* The only step that runs a handler: whose it can be follows from the     *)
(* masks, once a receiver has installed it.                                *)
LEMMA DeliverSetup ==
  ASSUME SetupInv, NEW t \in Threads, NEW s \in Signals, Deliver(t, s)
  PROVE  SetupInv'
<1> USE Names DEF SetupInv, Deliver
<1>1. TypeOK'
  <2>1. handled' = {<<t, s>>} \/ handled' = handled
    OBVIOUS
  <2>2. <<t, s>> \in Threads \X Signals
    OBVIOUS
  <2>3. handled' \in SUBSET (Threads \X Signals)
    BY <2>1, <2>2, Zenon DEF TypeOK
  <2>. QED  BY <2>3 DEF TypeOK
<1>2. CreationInv' /\ MaskInv'
  BY DEF CreationInv, MaskInv
<1>3. HandlerInv'
  BY DEF HandlerInv
<1>4. HandledInv'
  <2> SUFFICES ASSUME clean_masks, s \in installed, handled' = {<<t, s>>}
               PROVE  HandledInv'
    BY DEF HandledInv
  <2>1. \E r \in Receivers : pc[r] = "loop"
    BY DEF HandlerInv
  <2>2. main_pc # "block"
    BY <2>1 DEF TypeOK, CreationInv
  <2>3. t \in Receivers /\ pc[t] # "none"
    BY <2>2 DEF MaskInv, Existing
  <2>4. pc[t] \in {"unblocked", "loop"}
    BY <2>2, <2>3 DEF TypeOK, MaskInv
  <2>5. s = Meant(arg[t])
    BY <2>2, <2>3, <2>4 DEF MaskInv
  <2>. QED  BY <2>3, <2>4, <2>5 DEF HandledInv
<1>. QED  BY <1>1, <1>2, <1>3, <1>4

-----------------------------------------------------------------------------
(* The masks and the handlers are as the code says they are at each place  *)
(* of main and of the receivers, in every state that can be reached.       *)
THEOREM SetupInvariance == Spec => []SetupInv
<1>1. SetupInv /\ [Next]_vars => SetupInv'
  BY StutterSetup, BlockSetup, UnblockTermSetup, CreateReceiverSetup,
     CreateReceiverFailsSetup, StartLoggerSetup, ReadAndUnblockSetup, InstallHandlerSetup, SendSetup,
     DeliverSetup DEF Next
<1>. QED  BY InitSetup, <1>1, PTL DEF Spec

(* Every variable keeps to its values.                                     *)
THEOREM SetupTypeCorrect == Spec => []TypeOK
<1>1. SetupInv => TypeOK
  BY DEF SetupInv
<1>. QED  BY SetupInvariance, <1>1, PTL

(* "Blocking SIGUSR1/2 before thread creation so we can unblock the        *)
(* desired SIGUSR later" (initialize.cpp 56): if the stack gave the sets   *)
(* no members, a signal only ends the process before main blocks it or     *)
(* while a receiver has unblocked it and not yet installed its handler.    *)
THEOREM EndsInTheWindows == Spec => EndedOnlyWhileUnready
<1>1. ASSUME SetupInv, Next, NEW s \in Signals,
             clean_masks, alive, ~alive', s \in pending \ pending'
      PROVE  main_pc = "block" \/ Unready(s)
  <2>1. PICK t \in Threads : Deliver(t, s) /\ s \notin installed
    BY <1>1 DEF Next, Block, UnblockTerm, CreateReceiver, CreateReceiverFails,
                StartLogger, ReadAndUnblock, InstallHandler, Send, Deliver
  <2>2. SUFFICES ASSUME main_pc # "block" PROVE Unready(s)
    OBVIOUS
  <2>3. t \in Receivers /\ pc[t] # "none" /\ s \notin blocked[t]
    BY <1>1, <2>1, <2>2 DEF SetupInv, MaskInv, Deliver, Existing
  <2>4. pc[t] \in {"unblocked", "loop"} /\ Meant(arg[t]) = s
    BY <1>1, <2>2, <2>3 DEF SetupInv, TypeOK, MaskInv
  <2>5. pc[t] = "loop" => arg[t] = Garbage
    BY <1>1, <2>1, <2>3, <2>4, Names DEF SetupInv, TypeOK, HandlerInv, Meant
  <2>. QED  BY <2>3, <2>4, <2>5 DEF Unready
<1>2. SetupInv /\ [Next]_vars =>
        [\A s \in Signals :
            (clean_masks /\ alive /\ ~alive' /\ s \in pending \ pending') =>
               main_pc = "block" \/ Unready(s)]_vars
  BY <1>1
<1>. QED  BY SetupInvariance, <1>2, PTL DEF Spec, EndedOnlyWhileUnready

(* With such sets HandleSignal runs on receivers only, each for the signal *)
(* its argument was read as, though the argument is the address of a       *)
(* variable main goes on changing (initialize.cpp 70-76).                  *)
THEOREM ReceiversHandleTheirs == Spec => []HandlersOnReceivers
<1>1. SetupInv => HandlersOnReceivers
  BY Names DEF SetupInv, TypeOK, HandledInv, HandlersOnReceivers, Meant
<1>. QED  BY SetupInvariance, <1>1, PTL
=============================================================================
