---------------------------- MODULE UmsResources ----------------------------
(***************************************************************************)
(* What a process owns through the library (src/src/library/ums_lib.c):    *)
(* the descriptor of /dev/ums, which every call opens when it is not open, *)
(* the mutex around opening and closing it, and the stacks of the workers. *)
(* The main thread and the pthreads call the library concurrently; a call  *)
(* is split at the mutex and at its ioctl, which reads ums_dev outside it. *)
(*                                                                         *)
(* Descriptor 0 is the standard input of the process.  Addresses are       *)
(* counted in words of 8 bytes from the start of the block they lie in or  *)
(* next to, so that 0 is the one address free() takes.                     *)
(***************************************************************************)
EXTENDS Integers, Sequences, FiniteSets

CONSTANTS
  Threads,      \* the threads of the process
  Main,         \* its main thread
  MaxCalls,     \* bound: library calls of each thread
  MaxStacks,    \* bound: workers the main thread creates
  Sizes,        \* the stack sizes it asks for, in words
  MinSize,      \* UMS_MIN_STACK_SIZE, in words
  OpenFails     \* may open() fail?

Nobody == "nobody"

ASSUME ResourcesAssumption ==
  /\ Main \in Threads /\ Nobody \notin Threads
  /\ MaxCalls \in Nat /\ MaxStacks \in Nat
  /\ Sizes \subseteq Nat \ {0} /\ MinSize \in Nat
  /\ OpenFails \in BOOLEAN

VARIABLES
  ums_dev,      \* the descriptor, or -1
  ums_mutex,    \* the thread that holds it, or Nobody
  files,        \* the descriptor table of the process
  closes,       \* how often close_device has closed something
  pc,           \* where each thread's call is
  op,           \* what each thread has called
  calls,        \* how many calls each thread has still to make
  known,        \* does the library know a completion list?
  stacks        \* the stacks allocated so far, in order

vars == <<ums_dev, ums_mutex, files, closes, pc, op, calls, known, stacks>>

Fds    == 0 .. Cardinality(Threads)
Ops    == {"request", "create", "exit", "end"}

Stack == [size : Sizes,             \* what posix_memalign was asked for
          stack_size : Nat,         \* params->stack_size
          stack_addr : Int,         \* params->stack_addr
          state : {"private", "recorded", "freed", "corrupted"},
          refused : BOOLEAN]        \* the worker was never created

\* Mutant of NoDevice: a global without its initial value.
NoDeviceZero == 0

NoDevice == -1

Init ==
  /\ ums_dev = NoDevice
  /\ ums_mutex = Nobody
  /\ files = [fd \in Fds |-> IF fd = 0 THEN "stdin" ELSE "free"]
  /\ closes = 0
  /\ pc = [t \in Threads |-> "idle"]
  /\ op = [t \in Threads |-> "request"]
  /\ calls = [t \in Threads |-> MaxCalls]
  /\ known = FALSE
  /\ stacks = <<>>

-----------------------------------------------------------------------------
(* Stacks *)

Max2(a, b) == IF a < b THEN b ELSE a

\* posix_memalign, and the parameters: the size is raised to the minimum in
\* the parameters only, and stack_addr ends one word below the block's end.
NewStack(size) ==
  [size |-> size, stack_size |-> Max2(size, MinSize), stack_addr |-> size - 1,
   state |-> "private", refused |-> FALSE]

\* free(addr) of a block: its start, or an address that is not a block's.
Freed(stack, addr) ==
  [stack EXCEPT !.state = IF addr = 0 THEN "freed" ELSE "corrupted"]

\* The error paths of ums_create_worker_thread: stack_addr is a word too low.
Refused(stack) ==
  [Freed(stack, stack.stack_addr - stack.size) EXCEPT !.refused = TRUE]

\* Mutant of Released: stack_addr taken as ums_create_worker_thread left it.
ReleasedAsIs(stack) == Freed(stack, stack.stack_addr - stack.stack_size)

\* cleanup puts the word back, and goes down by the size in the parameters.
Released(stack) == Freed(stack, stack.stack_addr + 1 - stack.stack_size)

\* cleanup frees what is in the list of workers, and empties it.
Cleaned(all) ==
  [n \in DOMAIN all |->
     IF all[n].state = "recorded" THEN Released(all[n]) ELSE all[n]]

-----------------------------------------------------------------------------
(* A call *)

\* Mutant of Joined: ums_exit does not wait.
NotJoined == TRUE

\* pthread_join of every scheduler.
Joined == \A t \in Threads \ {Main} : pc[t] = "gone"

Goto(t, label) == pc' = [pc EXCEPT ![t] = label]

\* A library call up to open_device.  ums_create_worker_thread refuses a list
\* it does not know; ums_exit waits for the pthreads, and so has a program
\* before it returns from main, where end() is called.
Call(t, o) ==
  /\ pc[t] = "idle"
  /\ o # "request" => t = Main
  /\ o \in {"exit", "end"} => Joined
  /\ \/ /\ o = "end"
        /\ stacks' = Cleaned(stacks)
        /\ known' = FALSE
        /\ Goto(t, "close")
        /\ UNCHANGED calls
     \/ /\ o = "create" /\ known /\ Len(stacks) < MaxStacks
        /\ \E size \in Sizes : stacks' = Append(stacks, NewStack(size))
        /\ Goto(t, "open")
        /\ UNCHANGED <<calls, known>>
     \/ /\ o \in {"request", "exit"} /\ calls[t] > 0
        /\ calls' = [calls EXCEPT ![t] = @ - 1]
        /\ Goto(t, "open")
        /\ UNCHANGED <<known, stacks>>
  /\ op' = [op EXCEPT ![t] = o]
  /\ UNCHANGED <<ums_dev, ums_mutex, files, closes>>

\* Mutant of Free: the mutex forgotten.
FreeAlways == TRUE

Free == ums_mutex = Nobody

\* pthread_mutex_lock, in open_device and in close_device.
Lock(t) ==
  /\ pc[t] \in {"open", "close"}
  /\ Free
  /\ ums_mutex' = t
  /\ Goto(t, IF pc[t] = "open" THEN "testing" ELSE "closing")
  /\ UNCHANGED <<ums_dev, files, closes, op, calls, known, stacks>>

\* What the caller of a failed open_device or ioctl does: return, give the
\* stack back, or leave through ums_exit's out.
GiveUp(t) ==
  /\ Goto(t, IF op[t] = "exit" THEN "close" ELSE "idle")
  /\ stacks' = IF op[t] = "create"
               THEN [stacks EXCEPT ![Len(stacks)] = Refused(@)] ELSE stacks

\* open_device: another call may have opened the device before ...
FindOpen(t) ==
  /\ pc[t] = "testing"
  /\ IF ums_dev >= 0
     THEN /\ ums_mutex' = Nobody
          /\ Goto(t, "ioctl")
     ELSE /\ Goto(t, "opening")
          /\ UNCHANGED ums_mutex
  /\ UNCHANGED <<ums_dev, files, closes, op, calls, known, stacks>>

\* open() takes the lowest descriptor that is free.
Lowest(fd) == /\ files[fd] = "free"
              /\ \A n \in 0 .. fd - 1 : files[n] # "free"

\* ... and if not, it is opened here.  When open() fails, open_device returns
\* without unlocking.
OpenDevice(t) ==
  /\ pc[t] = "opening"
  /\ \/ /\ \E fd \in Fds :
             /\ Lowest(fd)
             /\ ums_dev' = fd
             /\ files' = [files EXCEPT ![fd] = "device"]
        /\ ums_mutex' = Nobody
        /\ Goto(t, "ioctl")
        /\ UNCHANGED stacks
     \/ /\ OpenFails
        /\ ums_dev' = NoDevice
        /\ GiveUp(t)
        /\ UNCHANGED <<ums_mutex, files>>
  /\ UNCHANGED <<closes, op, calls, known>>

OnDevice == ums_dev \in Fds /\ files[ums_dev] = "device"

\* The ioctl of a call, on whatever descriptor ums_dev names by now; the kernel
\* may refuse any request.  What the main thread asks for is, among others, a
\* completion list.
Ioctl(t) ==
  /\ pc[t] = "ioctl"
  /\ \/ /\ OnDevice
        /\ Goto(t, IF op[t] = "exit" THEN "close" ELSE "idle")
        /\ stacks' = IF op[t] = "create"
                     THEN [stacks EXCEPT ![Len(stacks)].state = "recorded"]
                     ELSE stacks
        /\ known' = (known \/ (t = Main /\ op[t] = "request"))
     \/ /\ GiveUp(t)
        /\ UNCHANGED known
  /\ UNCHANGED <<ums_dev, ums_mutex, files, closes, op, calls>>

\* Mutant of Unlocked: close_device keeps the mutex.
KeptLocked == ums_mutex

Unlocked == Nobody

\* The rest of close_device: ums_dev becomes what close() returns.  ums_exit
\* then frees the library's records; end() has done so, and the process ends.
CloseDevice(t) ==
  /\ pc[t] = "closing"
  /\ IF ums_dev \in Fds /\ files[ums_dev] # "free"
     THEN /\ files' = [files EXCEPT ![ums_dev] = "free"]
          /\ closes' = closes + 1
          /\ ums_dev' = 0
     ELSE /\ ums_dev' = NoDevice
          /\ UNCHANGED <<files, closes>>
  /\ ums_mutex' = Unlocked
  /\ Goto(t, IF op[t] = "end" THEN "gone" ELSE "idle")
  /\ stacks' = IF op[t] = "exit" THEN Cleaned(stacks) ELSE stacks
  /\ known' = (known /\ op[t] # "exit")
  /\ UNCHANGED <<op, calls>>

\* pthread_exit
Leave(t) ==
  /\ t # Main
  /\ pc[t] = "idle"
  /\ Goto(t, "gone")
  /\ UNCHANGED <<ums_dev, ums_mutex, files, closes, op, calls, known, stacks>>

Terminated == /\ \A t \in Threads : pc[t] = "gone"
              /\ UNCHANGED vars

\* What a thread does inside the library, once it has called it.
Proceed(t) == Lock(t) \/ FindOpen(t) \/ OpenDevice(t) \/ Ioctl(t) \/ CloseDevice(t)

Next ==
  \/ \E t \in Threads :
       \/ \E o \in Ops : Call(t, o)
       \/ Proceed(t)
       \/ Leave(t)
  \/ Terminated

Spec == Init /\ [][Next]_vars

\* A thread that is inside the library and can go on does; the mutex is passed
\* on when it is released.  Whether a program calls at all is its own affair.
FairSpec == Spec /\ \A t \in Threads : WF_vars(Proceed(t))

-----------------------------------------------------------------------------
(* Properties *)

TypeOK ==
  /\ ums_dev \in Fds \cup {NoDevice}
  /\ ums_mutex \in Threads \cup {Nobody}
  /\ files \in [Fds -> {"stdin", "free", "device"}]
  /\ closes \in Nat
  /\ pc \in [Threads -> {"idle", "open", "testing", "opening", "ioctl", "close", "closing", "gone"}]
  /\ op \in [Threads -> Ops]
  /\ calls \in [Threads -> 0 .. MaxCalls]
  /\ known \in BOOLEAN
  /\ stacks \in Seq(Stack)

\* Threads whose first calls race open one descriptor between them; none is
\* lost in ums_dev's place and left open.
OneDescriptor ==
  /\ Cardinality({fd \in Fds : files[fd] = "device"}) <= 1
  /\ \A fd \in Fds : files[fd] = "device" => ums_dev = fd

\* Every ioctl of a pthread goes to the device, although ums_dev is read without
\* the mutex that open_device was called under and ums_exit closes it; so does
\* every ioctl of the main thread before ums_exit.
IoctlsReachDevice ==
  [][\A t \in Threads : Ioctl(t) /\ (t # Main \/ closes = 0) => OnDevice]_vars

\* The library closes only what it opened, the first time: stdin is lost to a
\* second close_device only, ums_dev being 0 after the first.
StdinKeptByOneClose == files[0] # "stdin" => closes >= 2

\* Every stack is given back once the process has cleaned up, as the block it
\* is, if the program asked for the minimum size and the worker was created.
StacksGivenBack ==
  \A n \in DOMAIN stacks :
    LET stack == stacks[n] IN
    /\ stack.state = "corrupted" => stack.refused \/ stack.size < MinSize
    /\ pc[Main] = "gone" => stack.state \in {"freed", "corrupted"}

Inside == {"testing", "opening", "closing"}   \* between lock and unlock

\* The mutex is held by a thread whose open() failed and that has returned.
Abandoned == /\ ums_mutex # Nobody
             /\ pc[ums_mutex] \notin Inside
             /\ ums_dev = NoDevice

\* Every call of the library returns, from open_device's wait, its ioctl, and
\* close_device's wait, unless a failed open() has abandoned the mutex.
CallsReturnUnlessAbandoned ==
  \A t \in Threads :
    pc[t] \in {"open", "close"} ~> pc[t] \in {"idle", "gone"} \/ Abandoned

-----------------------------------------------------------------------------
(* What the documentation says and the code does not do *)

\* open_device and close_device are documented as returning UMS_SUCCESS or
\* UMS_ERROR: a call returns, also when open() fails.
CallsReturn ==
  \A t \in Threads : pc[t] \in {"open", "close"} ~> pc[t] \in {"idle", "gone"}
=============================================================================
