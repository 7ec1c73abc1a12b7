---------------------------- MODULE ServerStart ----------------------------
(***************************************************************************)
(* How the spell-check server starts or fails to: the arguments of main    *)
(* (server.cpp 213-308), the dictionary (310-319), the logger's file       *)
(* (164-169) and the listening socket (338-349), with the exit codes of    *)
(* errors.h.                                                               *)
(***************************************************************************)
EXTENDS Integers, Sequences, SequencesExt, FiniteSets

CONSTANTS
    Stoi,           \* the number each string of digits stands for
    MAX_INT         \* the greatest number std::stoi returns

ASSUME StoiAssumption == \A s \in DOMAIN Stoi : Stoi[s] \in Nat
ASSUME MaxIntAssumption == MAX_INT \in Nat /\ MAX_INT >= 65535

DICTIONARY_FAILURE == 1
SOCK_CREATE_FAILURE == 2
LOGFILE_CREATE_FAILURE == 3
PORT_NOT_NUMBER == 4
PORT_OUT_OF_RANGE == 5
WORKERCOUNT_NOT_NUMBER == 6
WORKERCOUNT_OUT_OF_RANGE == 7
MAX_MSG_LENGTH_NOT_NUMBER == 8
MAX_MSG_LENGTH_OUT_OF_RANGE == 9
MODE_NOT_NUMBER == 10
UNCAUGHT == 134     \* SIGABRT after an exception nobody catches
RUNNING == 0        \* it goes on accepting clients

MAX_PORT == 65535

(* An argument is its text left and right of the first =, or has none.     *)
NoDelimiter == "no ="

(* map[key] = value                                                        *)
Put(map, key, value) ==
    [k \in DOMAIN map \union {key} |-> IF k = key THEN value ELSE map[k]]

(* The value given first is kept.                                          *)
CreateHashMapKeepsFirst(map, arg) ==
    IF arg.key \in DOMAIN map \union {NoDelimiter} THEN map
    ELSE Put(map, arg.key, arg.value)

CreateHashMap(map, arg) ==
    IF arg.key = NoDelimiter THEN map ELSE Put(map, arg.key, arg.value)

Parsed(args) == FoldLeft(CreateHashMap, <<>>, args)

is_integer(s) == s \in DOMAIN Stoi

(* Not digits, too long for stoi, or outside the range: what one option    *)
(* that takes a number ends the program with, RUNNING if it does not.      *)
NumberFault(s, not_number, range, out_of_range) ==
    IF ~is_integer(s) THEN not_number
    ELSE IF Stoi[s] > MAX_INT THEN UNCAUGHT
    ELSE IF Stoi[s] \notin range THEN out_of_range
    ELSE RUNNING

(* The options in the order main looks at them.  -max_msg_length is the    *)
(* key that is counted, -msg_length the one that is read with at().        *)
Faults(map) ==
    LET given(key) == key \in DOMAIN map
    IN  <<IF ~given("-port") THEN RUNNING
          ELSE NumberFault(map["-port"], PORT_NOT_NUMBER, 1..MAX_PORT,
                           PORT_OUT_OF_RANGE),
          IF ~given("-workers") THEN RUNNING
          ELSE NumberFault(map["-workers"], WORKERCOUNT_NOT_NUMBER,
                           1..MAX_INT, WORKERCOUNT_OUT_OF_RANGE),
          IF ~given("-max_msg_length") THEN RUNNING
          ELSE IF ~given("-msg_length") THEN UNCAUGHT
          ELSE NumberFault(map["-msg_length"], MAX_MSG_LENGTH_NOT_NUMBER,
                           1..MAX_INT, MAX_MSG_LENGTH_OUT_OF_RANGE),
          IF ~given("-mode") THEN RUNNING
          ELSE NumberFault(map["-mode"], MODE_NOT_NUMBER, 0..MAX_INT, RUNNING)>>

FirstFault(map) ==
    LET faults == Faults(map)
        real == {i \in DOMAIN faults : faults[i] # RUNNING}
    IN  IF real = {} THEN RUNNING ELSE faults[Min(real)]

(* The settings after the arguments, when none of them is at fault.        *)
Settings(map) ==
    LET given(key) == key \in DOMAIN map
    IN  [PORT |-> IF given("-port") THEN Stoi[map["-port"]] ELSE 14567,
         DICTIONARY |-> IF given("-dict") THEN map["-dict"] ELSE "words",
         MAX_WORKER_THREADS |->
             IF given("-workers") THEN Stoi[map["-workers"]] ELSE 4,
         MAX_MSG_LENGTH |->
             IF given("-max_msg_length") THEN Stoi[map["-msg_length"]] ELSE 80,
         PRIORITY_MODE |-> IF given("-mode") THEN Stoi[map["-mode"]] ELSE 0,
         CAN_LINEBREAK |-> given("-linebreak") /\ map["-linebreak"] = "true"]

(* The number of words loaded: of different lines, none if it is not open. *)
LoadFile(files, name) ==
    IF name \notin DOMAIN files THEN 0 ELSE Cardinality(ToSet(files[name]))

(* socket, setsockopt, bind and listen have to succeed.                    *)
OpenListenerSocket(failing) ==
    failing \cap {"socket", "setsockopt", "bind", "listen"} = {}

(* The exit codes the program may end with.  The logger thread opens its   *)
(* file while main opens the socket: either may exit first.                *)
ExitCodes(args, files, failing) ==
    LET map == Parsed(args)
        log_fails == "log file" \in failing
        socket_fails == ~OpenListenerSocket(failing)
    IN  IF FirstFault(map) # RUNNING THEN {FirstFault(map)}
        ELSE IF LoadFile(files, Settings(map).DICTIONARY) <= 0
        THEN {DICTIONARY_FAILURE}
        ELSE IF log_fails \/ socket_fails
        THEN (IF log_fails THEN {LOGFILE_CREATE_FAILURE} ELSE {})
             \union (IF socket_fails THEN {SOCK_CREATE_FAILURE} ELSE {})
        ELSE {RUNNING}
=============================================================================
