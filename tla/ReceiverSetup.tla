---------------------------- MODULE ReceiverSetup ----------------------------
(***************************************************************************)
(* How the signal-handling process gets its four receivers ready:          *)
(* CreateSignalHandler (initialize.cpp 53-79) on the main thread and the   *)
(* beginning of ReceiveSignal (receiver.cpp 66-75) on each new thread,     *)
(* while signals may already be sent to the process.                       *)
(*                                                                         *)
(* Two things are not what they look like.  Each thread gets the address   *)
(* of the loop's local variable sig and reads it when it runs.  And the    *)
(* sigset_t of both unblocking calls is never emptied: what they unblock   *)
(* depends on what the stack held and on the optimiser.                    *)
(***************************************************************************)
EXTENDS Integers, FiniteSets

CONSTANTS
    SIGUSR1, SIGUSR2,
    Garbage,          \* what the stack slot of sig holds after the loop
    Main              \* the main thread of the process

ASSUME NamesAssumption == Cardinality({SIGUSR1, SIGUSR2, Garbage}) = 3
ASSUME MainAssumption == Main \notin 0..3

Signals == {SIGUSR1, SIGUSR2}
Receivers == 0..3
Threads == Receivers \union {Main}

VARIABLES
    main_pc,
    index, sig,      \* the loop variable and the local whose address is passed
    pc, arg,         \* each receiver's place and its own copy of sig
    clean_masks,     \* do the uninitialised sets happen to be empty?
    blocked,         \* the signal mask of each thread
    installed,       \* the signals that have HandleSignal as their action
    pending,
    handled,         \* <<thread, signal>> of the handler that has run last
    alive            \* FALSE once a signal's default action or exit has ended it

setup_vars  == <<main_pc, index, sig, clean_masks>>
thread_vars == <<pc, arg>>
vars == <<setup_vars, thread_vars, blocked, installed, pending, handled, alive>>

Init ==
    /\ main_pc = "block" /\ index = 0 /\ sig = Garbage
    /\ clean_masks \in BOOLEAN
    /\ pc = [r \in Receivers |-> "none"]
    /\ arg = [r \in Receivers |-> Garbage]
    /\ blocked = [t \in Threads |-> {}]
    /\ installed = {} /\ pending = {} /\ handled = {} /\ alive = TRUE

(* The signal the comparison with SIGUSR1 takes a for (receiver.cpp 70).   *)
Meant(a) == IF a = SIGUSR1 THEN SIGUSR1 ELSE SIGUSR2

(* What is unblocked by a call meant for s, with a set nobody emptied.     *)
Unblocks(s) == IF clean_masks THEN {{s}} ELSE SUBSET Signals

-----------------------------------------------------------------------------
(* The main thread *)

(* SIGUSR1 and SIGUSR2 are left as they are.                               *)
BlockNothing ==
    /\ alive /\ main_pc = "block"
    /\ main_pc' = "unblock"
    /\ UNCHANGED <<index, sig, clean_masks, thread_vars, blocked, installed,
                   pending, handled, alive>>

Block ==
    /\ alive /\ main_pc = "block"
    /\ blocked' = [blocked EXCEPT ![Main] = Signals]
    /\ main_pc' = "unblock"
    /\ UNCHANGED <<index, sig, clean_masks, thread_vars, installed,
                   pending, handled, alive>>

(* A filled set where an empty one is meant.                               *)
UnblockEverything ==
    /\ alive /\ main_pc = "unblock"
    /\ blocked' = [blocked EXCEPT ![Main] = {}]
    /\ main_pc' = "create"
    /\ UNCHANGED <<index, sig, clean_masks, thread_vars, installed,
                   pending, handled, alive>>

(* Meant to unblock SIGTERM, which no thread of this model blocks.         *)
UnblockTerm ==
    /\ alive /\ main_pc = "unblock"
    /\ \E more \in IF clean_masks THEN {{}} ELSE SUBSET Signals :
          blocked' = [blocked EXCEPT ![Main] = @ \ more]
    /\ main_pc' = "create"
    /\ UNCHANGED <<index, sig, clean_masks, thread_vars, installed,
                   pending, handled, alive>>

(* pthread_create(..., &sig): the thread inherits the mask of main.        *)
CreateReceiver ==
    /\ alive /\ main_pc = "create"
    /\ index < 4
    /\ sig' = IF index < 3 THEN SIGUSR1 ELSE SIGUSR2
    /\ pc' = [pc EXCEPT ![index] = "created"]
    /\ blocked' = [blocked EXCEPT ![index] = blocked[Main]]
    /\ index' = index + 1
    /\ UNCHANGED <<main_pc, clean_masks, arg, installed, pending, handled, alive>>

(* pthread_create fails, for want of threads: the process exits.           *)
CreateReceiverFails ==
    /\ alive /\ main_pc = "create"
    /\ index < 4
    /\ sig' = IF index < 3 THEN SIGUSR1 ELSE SIGUSR2
    /\ alive' = FALSE
    /\ UNCHANGED <<main_pc, index, clean_masks, thread_vars, blocked, installed,
                   pending, handled>>

(* The loop is over and Logger uses the stack.                             *)
StartLogger ==
    /\ alive /\ main_pc = "create"
    /\ index = 4
    /\ main_pc' = "logger"
    /\ sig' = Garbage
    /\ UNCHANGED <<index, clean_masks, thread_vars, blocked, installed,
                   pending, handled, alive>>

-----------------------------------------------------------------------------
(* Receiver r *)

(* *arg is read, then UnblockSignal: anything but SIGUSR1 means SIGUSR2.   *)
ReadAndUnblock(r) ==
    /\ alive /\ pc[r] = "created"
    /\ arg' = [arg EXCEPT ![r] = sig]
    /\ \E u \in Unblocks(Meant(sig)) :
          blocked' = [blocked EXCEPT ![r] = @ \ u]
    /\ pc' = [pc EXCEPT ![r] = "unblocked"]
    /\ UNCHANGED <<setup_vars, installed, pending, handled, alive>>

(* signal(sig, HandleSignal) after a sleep; it fails for an unknown sig.   *)
InstallHandler(r) ==
    /\ alive /\ pc[r] = "unblocked"
    /\ installed' = installed \union ({arg[r]} \intersect Signals)
    /\ pc' = [pc EXCEPT ![r] = "loop"]
    /\ UNCHANGED <<setup_vars, arg, blocked, pending, handled, alive>>

-----------------------------------------------------------------------------
(* A generator sends s to the process.                                     *)
Send(s) ==
    /\ alive /\ s \notin pending
    /\ pending' = pending \union {s}
    /\ UNCHANGED <<setup_vars, thread_vars, blocked, installed, handled, alive>>

Existing == {Main} \union {r \in Receivers : pc[r] # "none"}

(* The kernel gives s to any thread that does not block it.                *)
Deliver(t, s) ==
    /\ alive /\ t \in Existing
    /\ s \in pending \ blocked[t]
    /\ pending' = pending \ {s}
    /\ IF s \in installed
       THEN handled' = {<<t, s>>} /\ UNCHANGED alive
       ELSE alive' = FALSE /\ UNCHANGED handled
    /\ UNCHANGED <<setup_vars, thread_vars, blocked, installed>>

Next ==
    \/ Block \/ UnblockTerm
    \/ CreateReceiver \/ CreateReceiverFails \/ StartLogger
    \/ \E r \in Receivers : ReadAndUnblock(r) \/ InstallHandler(r)
    \/ \E s \in Signals : Send(s)
    \/ \E t \in Threads, s \in Signals : Deliver(t, s)

Spec == Init /\ [][Next]_vars

-----------------------------------------------------------------------------
(* Four threads at most are created, each reads a signal or garbage        *)
(* (initialize.cpp 70-76, receiver.cpp 67).                                *)
TypeOK ==
    /\ main_pc \in {"block", "unblock", "create", "logger"}
    /\ index \in 0..4 /\ sig \in Signals \union {Garbage}
    /\ pc \in [Receivers -> {"none", "created", "unblocked", "loop"}]
    /\ arg \in [Receivers -> Signals \union {Garbage}]
    /\ blocked \in [Threads -> SUBSET Signals]
    /\ installed \in SUBSET Signals /\ pending \in SUBSET Signals
    /\ handled \in SUBSET (Threads \X Signals)
    /\ alive \in BOOLEAN /\ clean_masks \in BOOLEAN

(* A receiver has unblocked s and not, or in vain, asked for its handler.  *)
Unready(s) == \E r \in Receivers :
                 /\ Meant(arg[r]) = s
                 /\ pc[r] = "unblocked" \/ (pc[r] = "loop" /\ arg[r] = Garbage)

(***************************************************************************)
(* "Blocking SIGUSR1/2 before thread creation so we can unblock the        *)
(* desired SIGUSR later in their respective threads" (initialize.cpp 56).  *)
(* If the sets are empty, a signal ends the process by its default action  *)
(* in two windows only: before the main thread has blocked it, and while   *)
(* some receiver has unblocked it without its handler in place, which is   *)
(* the sleep of receiver.cpp 70-75, or for ever when the receiver has      *)
(* read garbage for sig.  None ends it once all receivers have read        *)
(* their signal and are in their loop.                                     *)
(***************************************************************************)
EndedOnlyWhileUnready ==
    [][\A s \in Signals :
          (clean_masks /\ alive /\ ~alive' /\ s \in pending \ pending') =>
             main_pc = "block" \/ Unready(s)]_vars

(* A receiver only ever runs the handler of the signal it was given.       *)
HandlersOnReceivers ==
    clean_masks => \A t \in Threads, s \in Signals : <<t, s>> \in handled =>
       t # Main /\ s = Meant(arg[t])
=============================================================================
