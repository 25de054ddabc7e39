------------------------- MODULE UmsResourcesProofs -------------------------
(***************************************************************************)
(* What UmsResources promises of the descriptor of /dev/ums and of the     *)
(* stacks, for any number of threads, calls and stacks, whether open() may *)
(* fail or not.                                                            *)
(* The mutex protects a section that OpenDevice and CloseDevice are in,    *)
(* and in which the table of descriptors and ums_dev agree; an ioctl       *)
(* stands outside it and relies on nobody having closed anything.          *)
(***************************************************************************)
EXTENDS UmsResources, FiniteSetTheorems, TLAPS

\* The control state has a shape, as far as the argument needs one.
Shape ==
  /\ pc \in [Threads -> {"idle", "open", "testing", "opening", "ioctl", "close",
                         "closing", "gone"}]
  /\ files \in [Fds -> {"stdin", "free", "device"}]
  /\ ums_dev \in Int
  /\ closes \in Nat

\* Between lock and unlock there is one thread: the one that locked.
Exclusive == \A t \in Threads : pc[t] \in Inside => ums_mutex = t

\* An open descriptor of the device is the one in ums_dev, and while a thread
\* opens one there is none.
Named    == \A fd \in Fds : files[fd] = "device" => ums_dev = fd
NoneYet  == \A t \in Threads : pc[t] = "opening" =>
              \A fd \in Fds : files[fd] # "device"

\* Before anything is closed ums_dev, if set, is open, and it is set when a
\* thread is about to use it.
OpenWhenSet  == closes = 0 /\ ums_dev >= 0 => OnDevice
OpenWhenUsed == \A t \in Threads : closes = 0 /\ pc[t] = "ioctl" => OnDevice

\* Descriptor 0 is lost only after ums_dev has become what close() returned.
StdinFirst == /\ files[0] # "stdin" => closes >= 2
              /\ ums_dev = 0 => closes >= 1

DeviceInv == /\ Shape
             /\ Exclusive
             /\ Named
             /\ NoneYet
             /\ OpenWhenSet
             /\ OpenWhenUsed
             /\ StdinFirst

-----------------------------------------------------------------------------
\* Descriptors are naturals, and 0 is one of them.
LEMMA FdsAreNat ==
  ASSUME IsFiniteSet(Threads)
  PROVE  Fds \subseteq Nat /\ 0 \in Fds
  BY FS_CardinalityType DEF Fds

\* Threads that start with nothing open, closed or locked.
LEMMA DeviceInvInit ==
  ASSUME IsFiniteSet(Threads), Init
  PROVE  DeviceInv
  BY FdsAreNat
  DEF Init, DeviceInv, Shape, Exclusive, Named, NoneYet, OpenWhenSet, OpenWhenUsed,
      StdinFirst, OnDevice, Inside, NoDevice

\* A call, up to open_device or close_device, touches no descriptor.
LEMMA CallKeeps ==
  ASSUME DeviceInv, NEW t \in Threads, NEW o \in Ops, Call(t, o)
  PROVE  DeviceInv'
  BY DEF Call, Goto, DeviceInv, Shape, Exclusive, Named, NoneYet, OpenWhenSet,
         OpenWhenUsed, StdinFirst, OnDevice, Inside

LEMMA LockKeeps ==
  ASSUME DeviceInv, NEW t \in Threads, Lock(t)
  PROVE  DeviceInv'
  BY ResourcesAssumption
  DEF Lock, Free, Goto, DeviceInv, Shape, Exclusive, Named, NoneYet, OpenWhenSet,
      OpenWhenUsed, StdinFirst, OnDevice, Inside

LEMMA FindOpenKeeps ==
  ASSUME DeviceInv, NEW t \in Threads, FindOpen(t), Fds \subseteq Nat
  PROVE  DeviceInv'
  BY ResourcesAssumption
  DEF FindOpen, Goto, DeviceInv, Shape, Exclusive, Named, NoneYet, OpenWhenSet,
      OpenWhenUsed, StdinFirst, OnDevice, Inside

\* The one step that makes a descriptor of the device: what threads that stand
\* elsewhere rely on is there before and after, because nobody else opens.
LEMMA OpenDeviceKeeps ==
  ASSUME DeviceInv, NEW t \in Threads, OpenDevice(t), Fds \subseteq Nat
  PROVE  DeviceInv'
<1> USE DEF DeviceInv, Shape, NoDevice
<1>1. pc[t] = "opening" /\ (\A u \in Threads : pc[u] \in Inside => u = t)
  BY DEF OpenDevice, Exclusive, Inside
<1>2. \A fd \in Fds : files[fd] # "device"
  BY <1>1 DEF NoneYet
<1>3. ~ OnDevice
  BY <1>2 DEF OnDevice
<1>4. CASE /\ \E fd \in Fds : /\ Lowest(fd)
                            /\ ums_dev' = fd
                            /\ files' = [files EXCEPT ![fd] = "device"]
           /\ ums_mutex' = Nobody
           /\ Goto(t, "ioctl")
           /\ UNCHANGED closes
  <2>1. PICK fd \in Fds : /\ files[fd] = "free"
                          /\ ums_dev' = fd
                          /\ files' = [files EXCEPT ![fd] = "device"]
    BY <1>4 DEF Lowest
  <2>2. pc' = [pc EXCEPT ![t] = "ioctl"] /\ closes' = closes
    BY <1>4 DEF Goto
  <2>3. Shape'
    BY <2>1, <2>2
  <2>4. Exclusive' /\ NoneYet'
    BY <1>1, <2>2 DEF Exclusive, NoneYet, Inside
  <2>5. Named'
    BY <1>2, <2>1 DEF Named
  <2>6. OnDevice'
    BY <2>1 DEF OnDevice
  <2>7. StdinFirst'
    BY <2>1, <2>2 DEF StdinFirst
  <2> QED
    BY <2>3, <2>4, <2>5, <2>6, <2>7 DEF OpenWhenSet, OpenWhenUsed
<1>5. CASE ums_dev' = NoDevice /\ GiveUp(t) /\ UNCHANGED <<ums_mutex, files, closes>>
  <2>1. /\ pc' = [pc EXCEPT ![t] = IF op[t] = "exit" THEN "close" ELSE "idle"]
        /\ UNCHANGED <<ums_mutex, files, closes>> /\ ums_dev' = -1
    BY <1>5 DEF GiveUp, Goto
  <2>2. closes # 0 \/ \A u \in Threads : pc[u] # "ioctl"
    BY <1>3 DEF OpenWhenUsed
  <2>3. Shape' /\ Exclusive' /\ Named' /\ NoneYet'
    BY <1>1, <1>2, <2>1 DEF Exclusive, Named, NoneYet, Inside
  <2>4. OpenWhenSet' /\ OpenWhenUsed' /\ StdinFirst'
    BY <2>1, <2>2 DEF OpenWhenSet, OpenWhenUsed, StdinFirst
  <2> QED
    BY <2>3, <2>4
<1> QED
  BY <1>4, <1>5 DEF OpenDevice

LEMMA IoctlKeeps ==
  ASSUME DeviceInv, NEW t \in Threads, Ioctl(t)
  PROVE  DeviceInv'
<1>1. /\ pc' = [pc EXCEPT ![t] = IF op[t] = "exit" THEN "close" ELSE "idle"]
         \/ pc' = [pc EXCEPT ![t] = "idle"]
      /\ UNCHANGED <<ums_dev, ums_mutex, files, closes>>
  BY DEF Ioctl, GiveUp, Goto
<1> QED
  BY <1>1 DEF DeviceInv, Shape, Exclusive, Named, NoneYet, OpenWhenSet, OpenWhenUsed,
              StdinFirst, OnDevice, Inside

\* The one step that closes a descriptor: the thread that closes has the mutex,
\* so nobody is opening, and when it finds nothing to close nothing was open.
LEMMA CloseDeviceKeeps ==
  ASSUME DeviceInv, NEW t \in Threads, CloseDevice(t), Fds \subseteq Nat, 0 \in Fds
  PROVE  DeviceInv'
<1> USE DEF DeviceInv, Shape, NoDevice
<1>1. \A u \in Threads : pc[u] \in Inside => u = t
  BY DEF CloseDevice, Exclusive, Inside
<1>2. /\ pc' = [pc EXCEPT ![t] = IF op[t] = "end" THEN "gone" ELSE "idle"]
      /\ ums_mutex' = Nobody
  BY DEF CloseDevice, Goto, Unlocked
<1>3. Exclusive'
  BY <1>1, <1>2 DEF Exclusive, Inside
<1>4. CASE ums_dev \in Fds /\ files[ums_dev] # "free"
  <2>1. /\ files' = [files EXCEPT ![ums_dev] = "free"]
        /\ closes' = closes + 1 /\ ums_dev' = 0
    BY <1>4 DEF CloseDevice
  <2>2. Shape' /\ Named' /\ NoneYet'
    BY <1>2, <1>4, <2>1 DEF Named, NoneYet
  <2>3. StdinFirst'
    BY <1>4, <2>1 DEF StdinFirst
  <2> QED
    BY <1>3, <2>1, <2>2, <2>3 DEF OpenWhenSet, OpenWhenUsed
<1>5. CASE ~ (ums_dev \in Fds /\ files[ums_dev] # "free")
  <2>1. UNCHANGED <<files, closes>> /\ ums_dev' = -1
    BY <1>5 DEF CloseDevice
  <2>2. ~ OnDevice /\ \A fd \in Fds : files[fd] # "device"
    BY <1>5 DEF OnDevice, Named
  <2>3. Shape' /\ Named' /\ NoneYet'
    BY <1>2, <2>1, <2>2 DEF Named, NoneYet
  <2>4. OpenWhenSet' /\ OpenWhenUsed' /\ StdinFirst'
    BY <1>2, <2>1, <2>2 DEF OpenWhenSet, OpenWhenUsed, StdinFirst
  <2> QED
    BY <1>3, <2>3, <2>4
<1> QED
  BY <1>4, <1>5

LEMMA LeaveKeeps ==
  ASSUME DeviceInv, NEW t \in Threads, Leave(t)
  PROVE  DeviceInv'
  BY DEF Leave, Goto, DeviceInv, Shape, Exclusive, Named, NoneYet, OpenWhenSet,
         OpenWhenUsed, StdinFirst, OnDevice, Inside

LEMMA StutterKeeps ==
  ASSUME DeviceInv, UNCHANGED vars
  PROVE  DeviceInv'
  BY DEF vars, DeviceInv, Shape, Exclusive, Named, NoneYet, OpenWhenSet,
         OpenWhenUsed, StdinFirst, OnDevice, Inside

LEMMA DeviceInvStep ==
  ASSUME IsFiniteSet(Threads), DeviceInv, [Next]_vars
  PROVE  DeviceInv'
<1>1. Fds \subseteq Nat /\ 0 \in Fds
  BY FdsAreNat
<1>2. ASSUME NEW t \in Threads, NEW o \in Ops, Call(t, o)
      PROVE  DeviceInv'
  BY <1>2, CallKeeps
<1>3. ASSUME NEW t \in Threads, Proceed(t)
      PROVE  DeviceInv'
  BY <1>1, <1>3, LockKeeps, FindOpenKeeps, OpenDeviceKeeps, IoctlKeeps,
     CloseDeviceKeeps DEF Proceed
<1>4. ASSUME NEW t \in Threads, Leave(t)
      PROVE  DeviceInv'
  BY <1>4, LeaveKeeps
<1>5. CASE Terminated \/ UNCHANGED vars
  BY <1>5, StutterKeeps DEF Terminated
<1> QED
  BY <1>2, <1>3, <1>4, <1>5 DEF Next

-----------------------------------------------------------------------------
\* The set of descriptors of the device has no two elements.
LEMMA NamedIsOne ==
  ASSUME Named
  PROVE  OneDescriptor
<1> DEFINE Open == {fd \in Fds : files[fd] = "device"}
<1>1. Open \subseteq {ums_dev}
  BY DEF Named
<1>2. IsFiniteSet({ums_dev}) /\ Cardinality({ums_dev}) = 1
  BY FS_Singleton
<1>3. Cardinality(Open) <= 1
  BY <1>1, <1>2, FS_Subset
<1> QED
  BY <1>3 DEF OneDescriptor, Named

\* A process has finitely many threads.
THEOREM DeviceInvariant == IsFiniteSet(Threads) => (Spec => []DeviceInv)
<1> SUFFICES ASSUME IsFiniteSet(Threads)
             PROVE  Spec => []DeviceInv
  OBVIOUS
<1>1. Init => DeviceInv
  BY DeviceInvInit
<1>2. DeviceInv /\ [Next]_vars => DeviceInv'
  BY DeviceInvStep
<1> QED
  BY <1>1, <1>2, PTL DEF Spec

\* However the first calls of any number of threads race, and whatever fails,
\* open_device and close_device (ums_lib.c) leave at most one descriptor of
\* /dev/ums open, the one in ums_dev.
THEOREM OneDescriptorAlways == IsFiniteSet(Threads) => (Spec => []OneDescriptor)
<1>1. DeviceInv => OneDescriptor
  BY NamedIsOne DEF DeviceInv
<1> QED
  BY <1>1, DeviceInvariant, PTL

\* The library closes the standard input of the process with its second
\* close_device at the earliest.
THEOREM StdinKept == IsFiniteSet(Threads) => (Spec => []StdinKeptByOneClose)
<1>1. DeviceInv => StdinKeptByOneClose
  BY DEF DeviceInv, StdinFirst, StdinKeptByOneClose
<1> QED
  BY <1>1, DeviceInvariant, PTL

-----------------------------------------------------------------------------
\* Only the main thread closes anything, and only when the pthreads are gone.
Closing == {"exit", "end"}
Labels  == {"idle", "open", "testing", "opening", "ioctl", "close", "closing", "gone"}

AloneWhenClosing ==
  /\ pc \in [Threads -> Labels]
  /\ op \in [Threads -> Ops]
  /\ closes \in Nat
  /\ \A t \in Threads : op[t] # "request" => t = Main
  /\ \A t \in Threads : pc[t] \in {"close", "closing"} => op[t] \in Closing
  /\ op[Main] \in Closing \/ closes > 0 => Joined

LEMMA AloneInit ==
  ASSUME Init
  PROVE  AloneWhenClosing
  BY ResourcesAssumption DEF Init, AloneWhenClosing, Closing, Ops, Labels

\* A thread that is gone stays gone, and ums_exit and end() are called when all
\* pthreads are.
LEMMA AloneStep ==
  ASSUME AloneWhenClosing, [Next]_vars
  PROVE  AloneWhenClosing'
<1> USE ResourcesAssumption DEF AloneWhenClosing, Closing, Labels, Joined, Goto
<1>1. ASSUME NEW t \in Threads, NEW o \in Ops, Call(t, o)
      PROVE  AloneWhenClosing'
  <2>1. /\ pc[t] = "idle" /\ op' = [op EXCEPT ![t] = o] /\ closes' = closes
        /\ pc' = [pc EXCEPT ![t] = IF o = "end" THEN "close" ELSE "open"]
        /\ o # "request" => t = Main
        /\ o \in Closing => Joined
    BY <1>1 DEF Call
  <2>2. Joined => t = Main
    BY <2>1
  <2> QED
    BY <2>1, <2>2
<1>2. ASSUME NEW t \in Threads, Proceed(t)
      PROVE  AloneWhenClosing'
  <2>1. op' = op /\ pc[t] \notin {"idle", "gone"}
    BY <1>2 DEF Proceed, Lock, FindOpen, OpenDevice, Ioctl, CloseDevice
  <2>2. /\ \E label \in Labels :
              /\ pc' = [pc EXCEPT ![t] = label]
              /\ label \in {"close", "closing"} => op[t] \in Closing
        /\ closes' \in Nat
        /\ closes' = closes \/ op[t] \in Closing
    BY <1>2 DEF Proceed, Lock, FindOpen, OpenDevice, Ioctl, CloseDevice, GiveUp
  <2>3. Joined => t = Main
    BY <2>1
  <2> QED
    BY <2>1, <2>2, <2>3
<1>3. ASSUME NEW t \in Threads, Leave(t)
      PROVE  AloneWhenClosing'
  BY <1>3 DEF Leave
<1>4. CASE Terminated \/ UNCHANGED vars
  BY <1>4 DEF Terminated, vars
<1> QED
  BY <1>1, <1>2, <1>3, <1>4 DEF Next

\* The descriptor that an ioctl reads outside the mutex is one of the device, for
\* pthreads because ums_exit joins them before it closes, for the main thread
\* until it has closed.
THEOREM IoctlsOnDevice == IsFiniteSet(Threads) => (Spec => IoctlsReachDevice)
<1> SUFFICES ASSUME IsFiniteSet(Threads)
             PROVE  Spec => IoctlsReachDevice
  OBVIOUS
<1>1. Spec => []AloneWhenClosing
  BY AloneInit, AloneStep, PTL DEF Spec
<1>2. DeviceInv /\ AloneWhenClosing =>
        [\A t \in Threads : Ioctl(t) /\ (t # Main \/ closes = 0) => OnDevice]_vars
  <2> SUFFICES ASSUME DeviceInv, AloneWhenClosing, NEW t \in Threads, Ioctl(t),
                      t # Main \/ closes = 0
               PROVE  OnDevice
    OBVIOUS
  <2>1. pc[t] = "ioctl"
    BY DEF Ioctl
  <2>2. closes = 0
    BY <2>1 DEF AloneWhenClosing, Joined
  <2> QED
    BY <2>1, <2>2 DEF DeviceInv, OpenWhenUsed
<1> QED
  BY <1>1, <1>2, DeviceInvariant, PTL DEF IoctlsReachDevice
-----------------------------------------------------------------------------
\* A main thread that has called ums_create_worker_thread and not returned.
Creating == {"open", "testing", "opening", "ioctl"}

\* A stack as NewStack made it, whatever has become of it: the size in the
\* parameters is the larger one, the address the one below the block's end.
MadeStack(stack) ==
  /\ stack \in Stack
  /\ stack.stack_size = Max2(stack.size, MinSize)
  /\ stack.stack_addr = stack.size - 1

\* Lost by a free() that was not given its start, though it should have been.
Spoilt(stack) == stack.state = "corrupted" /\ ~ stack.refused /\ stack.size >= MinSize

\* What is not yet in the list of workers is the newest stack, and its creation
\* is under way; what is in the list is gone when end() has run.
StackInv ==
  /\ stacks \in Seq(Stack)
  /\ \A n \in DOMAIN stacks : MadeStack(stacks[n])
  /\ \A n \in DOMAIN stacks : ~ Spoilt(stacks[n])
  /\ \A n \in DOMAIN stacks : stacks[n].state = "private" =>
       n = Len(stacks) /\ op[Main] = "create" /\ pc[Main] \in Creating
  /\ op[Main] = "create" /\ pc[Main] # "idle" => Len(stacks) > 0 /\ pc[Main] \in Creating
  /\ op[Main] = "end" => /\ pc[Main] \in {"close", "closing", "gone"}
                         /\ \A n \in DOMAIN stacks : stacks[n].state \notin {"private", "recorded"}
  /\ pc[Main] = "gone" => op[Main] = "end"

\* What NewStack makes: nothing that could have been spoilt already.
LEMMA NewStackMade ==
  ASSUME NEW size \in Sizes
  PROVE  /\ MadeStack(NewStack(size))
         /\ NewStack(size).state = "private"
  BY ResourcesAssumption, SMT DEF NewStack, MadeStack, Stack, Max2

\* cleanup gives a stack of the minimum size or more back at its start, because
\* both sizes are the same then; the error paths miss the start.
LEMMA ReleasedWell ==
  ASSUME NEW stack, MadeStack(stack), ~ Spoilt(stack)
  PROVE  /\ MadeStack(Released(stack)) /\ MadeStack(Refused(stack))
         /\ stack.state # "corrupted" => ~ Spoilt(Released(stack))
         /\ ~ Spoilt(Refused(stack))
         /\ Released(stack).state \in {"freed", "corrupted"}
         /\ Refused(stack).state \in {"freed", "corrupted"}
<1> DEFINE released == Released(stack)
           refused == Refused(stack)
<1>1. /\ stack.size \in Nat \ {0} /\ stack.refused \in BOOLEAN
      /\ MinSize \in Nat
  BY ResourcesAssumption DEF MadeStack, Stack
<1>2. /\ released \in Stack /\ refused \in Stack
      /\ \A field \in {"size", "stack_size", "stack_addr"} :
           released[field] = stack[field] /\ refused[field] = stack[field]
      /\ released.state = IF stack.stack_addr + 1 - stack.stack_size = 0
                          THEN "freed" ELSE "corrupted"
      /\ refused.state \in {"freed", "corrupted"} /\ refused.refused = TRUE
  BY DEF Released, Refused, Freed, MadeStack, Stack
<1>3. MadeStack(released) /\ MadeStack(refused)
  BY <1>2 DEF MadeStack
<1>4. stack.size >= MinSize => stack.stack_addr + 1 - stack.stack_size = 0
  BY <1>1 DEF MadeStack, Max2
<1> QED
  BY <1>2, <1>3, <1>4 DEF Spoilt

LEMMA StackInit ==
  ASSUME Init
  PROVE  StackInv
  BY ResourcesAssumption DEF Init, StackInv

\* cleanup leaves nothing in the list and keeps what was said of the rest.
LEMMA CleanedWell ==
  ASSUME StackInv
  PROVE  /\ Cleaned(stacks) \in Seq(Stack)
         /\ Len(Cleaned(stacks)) = Len(stacks)
         /\ \A n \in DOMAIN stacks :
              /\ MadeStack(Cleaned(stacks)[n]) /\ ~ Spoilt(Cleaned(stacks)[n])
              /\ Cleaned(stacks)[n].state # "recorded"
              /\ Cleaned(stacks)[n].state = "private" => stacks[n].state = "private"
<1>1. /\ stacks \in Seq(Stack) /\ DOMAIN stacks = 1 .. Len(stacks) /\ Len(stacks) \in Nat
      /\ \A n \in DOMAIN stacks : MadeStack(stacks[n]) /\ ~ Spoilt(stacks[n])
  BY DEF StackInv
<1>2. \A n \in DOMAIN stacks :
        /\ MadeStack(Cleaned(stacks)[n]) /\ ~ Spoilt(Cleaned(stacks)[n])
        /\ Cleaned(stacks)[n].state # "recorded"
        /\ Cleaned(stacks)[n].state = "private" => stacks[n].state = "private"
  BY <1>1, ReleasedWell DEF Cleaned
<1>3. Cleaned(stacks) \in [1 .. Len(stacks) -> Stack]
  BY <1>1, <1>2 DEF Cleaned, MadeStack
<1> QED
  BY <1>1, <1>2, <1>3

\* What is changed of one stack is changed as the argument allows.
LEMMA LastChanged ==
  ASSUME StackInv, Len(stacks) > 0, NEW stack, MadeStack(stack), ~ Spoilt(stack),
         stack.state # "private", op[Main] = "create",
         stacks' = [stacks EXCEPT ![Len(stacks)] = stack],
         pc'[Main] = "idle", op' = op
  PROVE  StackInv'
<1>1. /\ stacks \in Seq(Stack) /\ stack \in Stack
      /\ Len(stacks) \in Nat /\ DOMAIN stacks = 1 .. Len(stacks)
  BY DEF StackInv, MadeStack
<1>2. /\ stacks' \in Seq(Stack) /\ Len(stacks') = Len(stacks)
      /\ DOMAIN stacks' = DOMAIN stacks
      /\ \A n \in DOMAIN stacks : stacks'[n] = IF n = Len(stacks) THEN stack ELSE stacks[n]
  BY <1>1
<1>3. \A n \in DOMAIN stacks : MadeStack(stacks'[n]) /\ ~ Spoilt(stacks'[n])
  BY <1>2 DEF StackInv
<1>4. \A n \in DOMAIN stacks : stacks'[n].state # "private"
  BY <1>1, <1>2 DEF StackInv
<1> QED
  BY <1>2, <1>3, <1>4 DEF StackInv

\* The steps that touch no stack: what a call is in decides what may follow.
LEMMA StacksUntouched ==
  ASSUME StackInv, stacks' = stacks, op' = op, NEW t \in Threads, NEW label,
         pc \in [Threads -> Labels], pc' = [pc EXCEPT ![t] = label],
         t = Main => /\ pc[Main] # "idle"
                     /\ op[Main] = "create" => label \in Creating
                     /\ op[Main] = "end" => label \in {"close", "closing", "gone"}
                     /\ label = "gone" => op[Main] = "end"
  PROVE  StackInv'
<1>1. Main \in Threads
  BY ResourcesAssumption
<1>2. CASE t = Main
  BY <1>1, <1>2 DEF StackInv, Creating
<1>3. CASE t # Main
  BY <1>1, <1>3 DEF StackInv
<1> QED
  BY <1>2, <1>3

\* The newest stack is given back when its worker is refused, by the error path
\* that open_device and ums_create_worker share.
LEMMA GivenUp ==
  ASSUME StackInv, AloneWhenClosing, NEW t \in Threads, GiveUp(t), op' = op,
         pc[t] \in {"opening", "ioctl"}
  PROVE  StackInv'
<1>1. /\ pc \in [Threads -> Labels] /\ Main \in Threads
      /\ op[t] # "request" => t = Main
  BY ResourcesAssumption DEF AloneWhenClosing
<1>2. CASE op[t] = "create"
  <2>1. t = Main /\ Len(stacks) > 0
    BY <1>1, <1>2 DEF StackInv
  <2>2. Len(stacks) \in DOMAIN stacks
    BY <2>1 DEF StackInv
  <2>3. /\ stacks' = [stacks EXCEPT ![Len(stacks)] = Refused(stacks[Len(stacks)])]
        /\ pc' = [pc EXCEPT ![Main] = "idle"]
    BY <1>2, <2>1, <2>2 DEF GiveUp, Goto, StackInv
  <2>4. MadeStack(stacks[Len(stacks)]) /\ ~ Spoilt(stacks[Len(stacks)])
    BY <2>2 DEF StackInv
  <2>5. /\ MadeStack(Refused(stacks[Len(stacks)])) /\ ~ Spoilt(Refused(stacks[Len(stacks)]))
        /\ Refused(stacks[Len(stacks)]).state # "private"
    BY <2>4, ReleasedWell
  <2> QED
    BY <1>1, <1>2, <2>1, <2>3, <2>5, LastChanged
<1>3. CASE op[t] # "create"
  <2>1. /\ stacks' = stacks
        /\ pc' = [pc EXCEPT ![t] = IF op[t] = "exit" THEN "close" ELSE "idle"]
    BY <1>3 DEF GiveUp, Goto
  <2>2. t = Main => op[Main] # "end"
    BY <1>1 DEF StackInv
  <2> QED
    BY <1>1, <1>3, <2>1, <2>2, StacksUntouched
<1> QED
  BY <1>2, <1>3

LEMMA StackCall ==
  ASSUME StackInv, AloneWhenClosing, NEW t \in Threads, NEW o \in Ops, Call(t, o)
  PROVE  StackInv'
<1>1. /\ pc \in [Threads -> Labels] /\ op \in [Threads -> Ops] /\ Main \in Threads
      /\ pc[t] = "idle" /\ op' = [op EXCEPT ![t] = o]
  BY ResourcesAssumption DEF AloneWhenClosing, Call
<1>2. t = Main \/ o = "request"
  BY DEF Call
<1>3. pc[Main] = "idle" => \A n \in DOMAIN stacks : stacks[n].state # "private"
  BY DEF StackInv, Creating
<1>4. CASE o = "end"
  <2>1. t = Main /\ stacks' = Cleaned(stacks) /\ pc' = [pc EXCEPT ![t] = "close"]
    BY <1>4, <1>2 DEF Call, Goto
  <2>2. /\ stacks' \in Seq(Stack) /\ DOMAIN stacks' = DOMAIN stacks
        /\ \A n \in DOMAIN stacks : /\ MadeStack(stacks'[n]) /\ ~ Spoilt(stacks'[n])
                                    /\ stacks'[n].state \notin {"private", "recorded"}
    BY <1>1, <1>3, <2>1, CleanedWell DEF Cleaned
  <2>3. op'[Main] = "end" /\ pc'[Main] = "close"
    BY <1>1, <1>4, <2>1
  <2> QED
    BY <2>2, <2>3 DEF StackInv
<1>5. CASE o = "create"
  <2>1. PICK size \in Sizes : stacks' = Append(stacks, NewStack(size))
    BY <1>5 DEF Call
  <2>2. t = Main /\ op'[Main] = "create" /\ pc'[Main] = "open"
    BY <1>1, <1>5, <1>2 DEF Call, Goto
  <2>3. /\ stacks' \in Seq(Stack) /\ Len(stacks') = Len(stacks) + 1 /\ Len(stacks) \in Nat
        /\ DOMAIN stacks' = 1 .. Len(stacks) + 1 /\ DOMAIN stacks = 1 .. Len(stacks)
        /\ \A n \in DOMAIN stacks : stacks'[n] = stacks[n]
        /\ stacks'[Len(stacks) + 1] = NewStack(size)
    BY <2>1, NewStackMade DEF StackInv, MadeStack
  <2>4. \A n \in DOMAIN stacks' : MadeStack(stacks'[n]) /\ ~ Spoilt(stacks'[n])
    BY <2>3, NewStackMade DEF StackInv, Spoilt
  <2>5. \A n \in DOMAIN stacks' : stacks'[n].state = "private" => n = Len(stacks')
    BY <1>1, <1>3, <2>2, <2>3
  <2> QED
    BY <2>2, <2>3, <2>4, <2>5 DEF StackInv, Creating
<1>6. CASE o \in {"request", "exit"}
  <2>1. stacks' = stacks /\ pc' = [pc EXCEPT ![t] = "open"]
    BY <1>6 DEF Call, Goto
  <2>2. CASE t = Main
    <3>1. op'[Main] = o /\ pc'[Main] = "open"
      BY <1>1, <2>1, <2>2
    <3> QED
      BY <1>1, <1>3, <1>6, <2>1, <2>2, <3>1 DEF StackInv
  <2>3. CASE t # Main
    BY <1>1, <2>1, <2>3 DEF StackInv
  <2> QED
    BY <2>2, <2>3
<1> QED
  BY <1>4, <1>5, <1>6 DEF Ops

LEMMA StackClose ==
  ASSUME StackInv, AloneWhenClosing, NEW t \in Threads, CloseDevice(t)
  PROVE  StackInv'
<1>1. /\ pc \in [Threads -> Labels] /\ Main \in Threads
      /\ op[t] \in Closing /\ t = Main /\ pc[Main] = "closing" /\ op' = op
  BY ResourcesAssumption DEF AloneWhenClosing, CloseDevice, Closing
<1>2. \A n \in DOMAIN stacks : stacks[n].state # "private"
  BY <1>1 DEF StackInv, Creating
<1>3. CASE op[t] = "exit"
  <2>1. stacks' = Cleaned(stacks) /\ pc'[Main] = "idle" /\ op'[Main] = "exit"
    BY <1>1, <1>3 DEF CloseDevice, Goto
  <2>2. /\ stacks' \in Seq(Stack) /\ DOMAIN stacks' = DOMAIN stacks
        /\ \A n \in DOMAIN stacks : /\ MadeStack(stacks'[n]) /\ ~ Spoilt(stacks'[n])
                                    /\ stacks'[n].state # "private"
    BY <1>2, <2>1, CleanedWell DEF Cleaned
  <2> QED
    BY <2>1, <2>2 DEF StackInv
<1>4. CASE op[t] = "end"
  <2>1. stacks' = stacks /\ pc' = [pc EXCEPT ![t] = "gone"]
    BY <1>4 DEF CloseDevice, Goto
  <2> QED
    BY <1>1, <1>4, <2>1, StacksUntouched
<1> QED
  BY <1>1, <1>3, <1>4 DEF Closing

LEMMA StackProceed ==
  ASSUME StackInv, AloneWhenClosing, NEW t \in Threads, Proceed(t)
  PROVE  StackInv'
<1>1. /\ pc \in [Threads -> Labels] /\ Main \in Threads
      /\ op[t] # "request" => t = Main
      /\ pc[t] \in {"close", "closing"} => op[t] \in Closing
  BY ResourcesAssumption DEF AloneWhenClosing
<1>2. CASE Lock(t) \/ FindOpen(t)
  <2>1. PICK label : /\ pc' = [pc EXCEPT ![t] = label]
                     /\ \/ pc[t] = "open" /\ label = "testing"
                        \/ pc[t] = "close" /\ label = "closing"
                        \/ pc[t] = "testing" /\ label \in {"ioctl", "opening"}
    BY <1>2 DEF Lock, FindOpen, Goto
  <2>2. stacks' = stacks /\ op' = op
    BY <1>2 DEF Lock, FindOpen
  <2>3. t = Main => /\ pc[Main] # "idle"
                    /\ op[Main] = "create" => label \in Creating
                    /\ op[Main] = "end" => label \in {"close", "closing", "gone"}
                    /\ label = "gone" => op[Main] = "end"
    BY <1>1, <2>1 DEF StackInv, Creating
  <2> QED
    BY <1>1, <2>1, <2>2, <2>3, StacksUntouched
<1>3. CASE OpenDevice(t)
  <2>1. pc[t] = "opening" /\ op' = op
    BY <1>3 DEF OpenDevice
  <2>2. CASE Goto(t, "ioctl") /\ UNCHANGED stacks
    <3>1. pc' = [pc EXCEPT ![t] = "ioctl"] /\ stacks' = stacks
      BY <2>2 DEF Goto
    <3>2. t = Main => /\ pc[Main] # "idle"
                      /\ op[Main] # "end"
      BY <2>1 DEF StackInv
    <3> QED
      BY <1>1, <2>1, <3>1, <3>2, StacksUntouched DEF Creating
  <2>3. CASE GiveUp(t)
    BY <2>1, <2>3, GivenUp
  <2> QED
    BY <1>3, <2>2, <2>3 DEF OpenDevice
<1>4. CASE Ioctl(t)
  <2>1. pc[t] = "ioctl" /\ op' = op
    BY <1>4 DEF Ioctl
  <2>2. CASE /\ Goto(t, IF op[t] = "exit" THEN "close" ELSE "idle")
             /\ stacks' = IF op[t] = "create"
                          THEN [stacks EXCEPT ![Len(stacks)].state = "recorded"]
                          ELSE stacks
    <3>1. CASE op[t] = "create"
      <4>1. t = Main /\ Len(stacks) > 0 /\ Len(stacks) \in DOMAIN stacks
        BY <1>1, <2>1, <3>1 DEF StackInv
      <4>2. PICK stack : stack = [stacks[Len(stacks)] EXCEPT !.state = "recorded"]
        OBVIOUS
      <4>3. MadeStack(stacks[Len(stacks)])
        BY <4>1 DEF StackInv
      <4>4. /\ stack \in Stack /\ stack.state = "recorded"
            /\ stack.size = stacks[Len(stacks)].size
            /\ stack.stack_size = stacks[Len(stacks)].stack_size
            /\ stack.stack_addr = stacks[Len(stacks)].stack_addr
        BY <4>2, <4>3 DEF MadeStack, Stack
      <4>5. MadeStack(stack) /\ ~ Spoilt(stack) /\ stack.state # "private"
        BY <4>3, <4>4 DEF MadeStack, Spoilt
      <4>6. stacks' = [stacks EXCEPT ![Len(stacks)] = stack]
        BY <2>2, <3>1, <4>1, <4>2
      <4>7. pc'[Main] = "idle"
        BY <1>1, <2>2, <3>1, <4>1 DEF Goto
      <4> QED
        BY <2>1, <3>1, <4>1, <4>5, <4>6, <4>7, LastChanged
    <3>2. CASE op[t] # "create"
      <4>1. t = Main => op[Main] # "end"
        BY <2>1 DEF StackInv
      <4>2. /\ stacks' = stacks
            /\ pc' = [pc EXCEPT ![t] = IF op[t] = "exit" THEN "close" ELSE "idle"]
        BY <2>2, <3>2 DEF Goto
      <4> QED
        BY <1>1, <2>1, <3>2, <4>1, <4>2, StacksUntouched
    <3> QED
      BY <3>1, <3>2
  <2>3. CASE GiveUp(t)
    BY <2>1, <2>3, GivenUp
  <2> QED
    BY <1>4, <2>2, <2>3 DEF Ioctl
<1>5. CASE CloseDevice(t)
  BY <1>5, StackClose
<1> QED
  BY <1>2, <1>3, <1>4, <1>5 DEF Proceed

LEMMA StackStep ==
  ASSUME StackInv, AloneWhenClosing, [Next]_vars
  PROVE  StackInv'
<1>1. ASSUME NEW t \in Threads, Leave(t)
      PROVE  StackInv'
  <2>1. t # Main /\ pc' = [pc EXCEPT ![t] = "gone"] /\ stacks' = stacks /\ op' = op
    BY <1>1 DEF Leave, Goto
  <2> QED
    BY <2>1, StacksUntouched DEF AloneWhenClosing
<1>2. CASE Terminated \/ UNCHANGED vars
  BY <1>2 DEF Terminated, vars, StackInv
<1> QED
  BY <1>1, <1>2, StackCall, StackProceed DEF Next

\* The stacks of a program that asks for the minimum size or more are given back,
\* each at its own start, once it has cleaned up: cleanup's arithmetic undoes
\* ums_create_worker_thread's, and no error path but a refused worker's frees.
THEOREM StacksAreGivenBack == Spec => []StacksGivenBack
<1>1. Init => StackInv /\ AloneWhenClosing
  BY StackInit, AloneInit
<1>2. StackInv /\ AloneWhenClosing /\ [Next]_vars => StackInv' /\ AloneWhenClosing'
  BY StackStep, AloneStep
<1>3. StackInv => StacksGivenBack
  <2> SUFFICES ASSUME StackInv, NEW n \in DOMAIN stacks
               PROVE  /\ stacks[n].state = "corrupted" =>
                           stacks[n].refused \/ stacks[n].size < MinSize
                      /\ pc[Main] = "gone" => stacks[n].state \in {"freed", "corrupted"}
    BY DEF StacksGivenBack
  <2>1. /\ stacks[n].state \in {"private", "recorded", "freed", "corrupted"}
        /\ stacks[n].size \in Nat /\ MinSize \in Nat /\ ~ Spoilt(stacks[n])
    BY ResourcesAssumption DEF StackInv, MadeStack, Stack
  <2> QED
    BY <2>1 DEF StackInv, Spoilt
<1> QED
  BY <1>1, <1>2, <1>3, PTL DEF Spec
=============================================================================
