------------------------------ MODULE Arguments ------------------------------
(***************************************************************************)
(* From the command line to the parameters of a computation: parse_args    *)
(* (utils/args-parse.c) and the checks the backends make of its result.    *)
(* An option is what was typed, as a number or a name, or NotGiven; what   *)
(* it becomes is kept in the width of the field of struct p_args.          *)
(***************************************************************************)
EXTENDS Integers, FiniteSets

CONSTANTS
  NotGiven,
  Word32,     (* 2^32, the values of a uint32_t                            *)
  MaxFiles    (* DEFAULT_QUEUE_CAP: 20                                     *)

ASSUME ArgumentsAssumption == Word32 \in Nat \ {0} /\ MaxFiles \in Nat \ {0}

Filters == {"bb", "mb", "em", "gg", "gb", "co", "sh", "mm", "bo", "mg"}

(* enum conv_compute_mode; CONV_COMPUTE_INIT is -1.                        *)
ModeNumber == [by_row |-> 0, by_column |-> 1, by_pixel |-> 2, by_grid |-> 3]

Word8(n) == n % 256
Int8(n)  == IF n % 256 < 128 THEN n % 256 ELSE (n % 256) - 256

(* initialize_args.  threadnum and writer_cnt are one byte of a union: the *)
(* default of a single thread is overwritten by that of no writers.        *)
Default ==
  [backend |-> "cpu", queue |-> FALSE, mpi |-> FALSE, filter |-> NotGiven, mode |-> -1,
   block |-> 0, byte |-> 0, readers |-> 0, workers |-> 0, capacity |-> MaxFiles,
   files |-> 0, log |-> FALSE]

threadnum(args)  == Int8(args.byte)
writer_cnt(args) == args.byte

-----------------------------------------------------------------------------
(* parse_mandatory_args.  The block size is looked at once it is a byte.   *)
MandatoryOk(asked) ==
  /\ asked.filter \in Filters \union {NotGiven}
  /\ asked.mode \in DOMAIN ModeNumber \union {NotGiven}
  /\ asked.block # NotGiven => Word8(asked.block) > 0

(* parse_queue_mode_args: an option of the other mode is an error, and so  *)
(* is a capacity that turns into 0 when it was not typed as 0.             *)
QueueOk(asked) ==
  /\ asked.threadnum = NotGiven
  /\ asked.rww # NotGiven /\ \A i \in 1 .. 3 : asked.rww[i] \in 1 .. 255
  /\ asked.capacity \in {NotGiven, 0} \/ asked.capacity % Word32 # 0
  /\ asked.files \in 1 .. MaxFiles

(* A plausible bug: the thread count is not looked at again as an int8_t.  *)
NormalTyped(asked) ==
  /\ asked.rww = NotGiven /\ asked.capacity = NotGiven
  /\ asked.threadnum # NotGiven => asked.threadnum > 0
  /\ asked.files = 1

(* parse_normal_mode_args.                                                 *)
NormalOk(asked) ==
  /\ asked.rww = NotGiven /\ asked.capacity = NotGiven
  /\ asked.threadnum # NotGiven => Int8(asked.threadnum) > 0
  /\ asked.files = 1

Accepted(asked) ==
  MandatoryOk(asked) /\ (IF asked.queue THEN QueueOk(asked) ELSE NormalOk(asked))

(* check_mode_arg compares with the names of the modes until one matches:  *)
(* no NULL follows the last of them.                                       *)
SearchesTooFar(asked) == asked.mode \notin DOMAIN ModeNumber \union {NotGiven}

Given(option, default) == IF option = NotGiven THEN default ELSE option

(* parse_args, of a command line it accepts.                               *)
Parsed(asked) ==
  [Default EXCEPT
    !.backend = asked.backend, !.queue = asked.queue, !.mpi = asked.mpi,
    !.filter = asked.filter,
    !.mode = IF asked.mode = NotGiven THEN @ ELSE ModeNumber[asked.mode],
    !.block = Word8(Given(asked.block, @)),
    !.byte = IF asked.queue THEN Word8(asked.rww[3]) ELSE Word8(Given(asked.threadnum, @)),
    !.readers = IF asked.queue THEN asked.rww[1] ELSE @,
    !.workers = IF asked.queue THEN asked.rww[2] ELSE @,
    !.capacity = Given(asked.capacity, @) % Word32,
    !.files = asked.files, !.log = asked.log]

-----------------------------------------------------------------------------
(* A plausible bug: the block size is not required.                        *)
VerifiesNoBlock(args) ==
  /\ args.filter # NotGiven
  /\ IF args.queue THEN args.backend = "cpu" /\ args.files > 2 ELSE args.files = 1

(* cpu_verify_args and gpu_verify_args.                                    *)
Verifies(args) ==
  /\ args.filter # NotGiven /\ args.block # 0
  /\ IF args.queue THEN args.backend = "cpu" /\ args.files > 2
                   ELSE args.backend = "cpu" => args.files = 1

(* Both choose a mode when none is given.                                  *)
Verified(args) == [args EXCEPT !.mode = IF @ < 1 THEN ModeNumber.by_row ELSE @]

(* A plausible bug: the byte of the union is taken as it is.               *)
ThreadsAsParsed(args, size) == IF args.mpi /\ size > 1 THEN 1 ELSE threadnum(args)

(* The threads of a computation with no queue (cpu_init, and               *)
(* cpu_process_non_queue_mode for a job of size processes).                *)
ThreadsOf(args, size) ==
  IF args.mpi /\ size > 1 THEN 1
  ELSE IF threadnum(args) > 0 THEN threadnum(args) ELSE 1

-----------------------------------------------------------------------------
(* args_get_filename_list_str: the names are counted without the directory *)
(* that is written before each of them.                                    *)
ListSize == 100
ListedBytes(files, length) ==
  LET listed == Cardinality({i \in 0 .. files - 1 : i * (length + 1) + length + 2 < ListSize})
  IN  listed * (9 + length + 1) + 1
=============================================================================
