------------------------------ MODULE IreeHal ------------------------------
(***************************************************************************)
(* Queue operations of the IREE HAL adapter (executor/iree/hal_driver.c).  *)
(* An operation runs on the caller's thread: it waits for its semaphores,  *)
(* does its work and signals.  Kernels go through the default queue of     *)
(* lrrt, which executes them in order; lr_memcpy and lr_synchronize wait   *)
(* for the kernels launched before them.                                   *)
(***************************************************************************)
EXTENDS IreeObjects

Init ==
  /\ \E up \in BOOLEAN : runtime = [count |-> 0, owns |-> FALSE, up |-> up]
  /\ ref = [o \in Objects |-> IF o \in HostBuffers THEN 1 ELSE 0]
  /\ held = ref
  /\ dev = [d \in Devices |-> Nil]
  /\ buf = [b \in Buffers |-> IF b \in HostBuffers
                              THEN [NoBuffer EXCEPT !.usage = {"source", "target", "dispatch"}]
                              ELSE NoBuffer]
  /\ mem = [b \in Buffers |-> IF b \in HostBuffers THEN [x \in Cells |-> 0] ELSE NoMem]
  /\ exe = [e \in Executables |-> NoModule]
  /\ rec = [c \in CommandBuffers |-> NewRecords]
  /\ sem = [s \in Semaphores |-> [value |-> 0, failed |-> FALSE]]
  /\ gpu = [fifo |-> <<>>, launched |-> 0, done |-> 0]
  /\ th = [t \in Threads |-> Idle]
  /\ left \in Programs
-----------------------------------------------------------------------------
(* The caller.  It uses only objects it holds, for as long as the call     *)
(* runs, and does not record into a command buffer that is in use.         *)

Field(c, f) == IF f \in DOMAIN c THEN {c[f]} ELSE {}
Mentions(c) ==
  Field(c, "obj") \cup Field(c, "cb") \cup (Field(c, "exe") \cup Field(c, "from"))
    \cup (Field(c, "dev") \cup Field(c, "buf"))
    \cup UNION {CmdObjects(x) : x \in Field(c, "cmd")}
    \cup UNION {Field(x, "buf") : x \in Field(c, "cmd")}
    \cup (UNION {Range(x) : x \in Field(c, "table")} \ {Nil})
Created(c) ==
  CASE c.op \in {"allocate", "device", "prepare", "cb_create"} ->
         {c[CASE c.op = "allocate" -> "buf" [] c.op = "device" -> "dev"
              [] c.op = "prepare" -> "exe" [] OTHER -> "cb"]}
    [] c.op = "queue" /\ c.cmd.k = "alloca" -> {c.cmd.buf}
    [] OTHER -> {}
Exclusive(c) ==
  CASE c.op \in {"release", "replace"} -> Mentions(c)
    [] c.op \in {"record", "cb_begin"} -> {c.cb}
    [] c.op = "queue" /\ c.cmd.k = "dealloca" -> {c.cmd.buf}
    [] OTHER -> Created(c)
InUse(t, o) == \E u \in Threads \ {t} : ~At(u, "idle") /\ o \in Mentions(Call(u))

Callable(t, c) ==
  /\ At(t, "idle")
  /\ \A o \in Mentions(c) \ Created(c) : held[o] > 0
  /\ \A o \in Created(c) : held[o] = 0 /\ ref[o] = 0
  /\ \A o \in Exclusive(c) : ~InUse(t, o)
  /\ left' = [left EXCEPT ![t] = Tail(@)]

Start(t, c, pc) == th' = [th EXCEPT ![t] = [Idle EXCEPT !.call = c, !.pc = pc]]

CreateDevice(t, c) ==
  /\ c.op = "device" /\ Start(t, c, "retain")
  /\ UNCHANGED <<runtime, ref, held, dev, buf, mem, exe, rec, sem, gpu>>

ReleaseObject(t, c) ==
  /\ c.op = "release" /\ held' = [held EXCEPT ![c.obj] = @ - 1]
  /\ th' = [th EXCEPT ![t].pc = "drop", ![t].drop = <<c.obj>>, ![t].call = c]
  /\ UNCHANGED <<runtime, ref, dev, buf, mem, exe, rec, sem, gpu>>

SubmitQueueOperation(t, c) ==
  /\ c.op \in {"queue", "execute"} /\ Start(t, c, "wait")
  /\ UNCHANGED <<runtime, ref, held, dev, buf, mem, exe, rec, sem, gpu>>
-----------------------------------------------------------------------------
(* Semaphores *)

Reached(s) == \A w \in s : ~sem[w[1]].failed /\ sem[w[1]].value >= w[2]
Failed(s) == \E w \in s : sem[w[1]].failed

(* lrrt_iree_hal_device_validate_semaphore_list *)
LrrtOwned(s) == \A w \in s : w[1] \notin Foreign

(* lrrt_iree_hal_semaphore_signal: a value already reached is no error *)
Signal(s) ==
  [x \in Semaphores |->
     LET new == {sem[x].value} \cup {w[2] : w \in {y \in s : y[1] = x}}
     IN IF sem[x].failed THEN sem[x]
        ELSE [sem[x] EXCEPT !.value = CHOOSE v \in new : \A y \in new : y <= v]]
FailAll(s) == [x \in Semaphores |-> [sem[x] EXCEPT !.failed = @ \/ \E w \in s : w[1] = x]]

(* Mutant: the wait does not look at the failure of a semaphore *)
BeginSubmissionDeaf(t) ==
  LET c == Call(t) IN
  /\ At(t, "wait") /\ LrrtOwned(c.wait) /\ Reached(c.wait)
  /\ th' = [th EXCEPT ![t].pc = "body", ![t].i = 1]
  /\ UNCHANGED <<runtime, ref, held, dev, buf, mem, exe, rec, sem, gpu, left>>

(* lrrt_iree_hal_device_begin_synchronous_submission: an infinite wait; a  *)
(* failed or foreign semaphore makes the call return at once               *)
BeginSubmission(t) ==
  LET c == Call(t) IN
  /\ At(t, "wait")
  /\ \/ /\ LrrtOwned(c.wait) /\ Reached(c.wait)
        /\ th' = [th EXCEPT ![t].pc = "body", ![t].i = 1]
     \/ (~LrrtOwned(c.wait) \/ Failed(c.wait)) /\ Return(t)
  /\ UNCHANGED <<runtime, ref, held, dev, buf, mem, exe, rec, sem, gpu, left>>

(* lrrt_iree_hal_device_finish_queue_operation *)
FinishQueueOperation(t) ==
  LET c == Call(t) IN
  /\ At(t, "finish")
  /\ sem' = IF ~LrrtOwned(c.signal) THEN sem
            ELSE IF th[t].st = "ok" THEN Signal(c.signal) ELSE FailAll(c.signal)
  /\ Return(t)
  /\ UNCHANGED <<runtime, ref, held, dev, buf, mem, exe, rec, gpu, left>>
-----------------------------------------------------------------------------
(* Commands *)

(* iree_hal_buffer_binding_table_resolve_ref *)
Resolve(r, table) ==
  IF r.buf # Nil THEN r
  ELSE [r EXCEPT !.buf = IF r.slot + 1 \in 1 .. Len(table) THEN table[r.slot + 1] ELSE Nil]

(* The commands of an operation, their references resolved *)
ResolveCmd(c, table) ==
  CASE c.k = "dispatch" -> [c EXCEPT !.args = [i \in 1 .. Len(@) |-> Resolve(@[i], table)]]
    [] c.k = "copy" -> [c EXCEPT !.src = Resolve(@, table), !.dst = Resolve(@, table)]
    [] c.k \in {"fill", "update"} -> [c EXCEPT !.dst = Resolve(@, table)]
    [] OTHER -> c
(* lrrt_iree_hal_device_queue_read and _queue_write through the storage    *)
(* buffer of a file are copies; otherwise the file does the transfer       *)
FileCmd(c) ==
  LET whole == [buf |-> c.file.storage, slot |-> 0, off |-> c.foff, len |-> c.ref.len]
  IN CASE c.file.storage # Nil /\ c.k = "read" -> [k |-> "copy", src |-> whole, dst |-> c.ref]
       [] c.file.storage # Nil /\ c.k = "write" -> [k |-> "copy", src |-> c.ref, dst |-> whole]
       [] c.k = "read" -> [k |-> "update", dst |-> c.ref, val |-> c.file.val]
       [] OTHER -> [k |-> "file_write"]
Commands(c) ==
  IF c.op = "execute"
  THEN [i \in 1 .. Len(rec[c.cb].cmds) |-> ResolveCmd(rec[c.cb].cmds[i], c.table)]
  ELSE <<IF c.cmd.k \in {"read", "write"} THEN FileCmd(c.cmd) ELSE ResolveCmd(c.cmd, <<>>)>>

(* lrrt_iree_hal_device_fill_now *)
FillValid(c) ==
  /\ c.plen \in {1, 2, 4} /\ c.dst.off % c.plen = 0
  /\ c.dst.len # Whole /\ c.dst.len % c.plen = 0
  /\ "target" \in buf[c.dst.buf].usage /\ DeviceRange(c.dst.buf, c.dst.off, c.dst.len)
(* lrrt_iree_hal_device_update_now *)
UpdateValid(c) ==
  /\ "target" \in buf[c.dst.buf].usage
  /\ c.dst.len # Whole /\ DeviceRange(c.dst.buf, c.dst.off, c.dst.len)
(* lrrt_iree_hal_device_copy_now: the length is the target's *)
CopyValid(c) ==
  /\ "source" \in buf[c.src.buf].usage /\ "target" \in buf[c.dst.buf].usage
  /\ c.dst.len # Whole
  /\ InRange(c.src.off, c.dst.len) /\ InRange(c.dst.off, c.dst.len)
(* lrrt_iree_hal_device_dispatch_now *)
DispatchValid(c) ==
  /\ DispatchShape(c) /\ exe[c.exe].loaded
  /\ \A i \in 1 .. Len(c.args) :
       /\ c.args[i].buf # Nil /\ "dispatch" \in buf[c.args[i].buf].usage
       /\ DeviceRange(c.args[i].buf, c.args[i].off, c.args[i].len)
(* the checks lrrt_iree_hal_device_queue_read and _queue_write make before *)
(* they transfer; only a read is held against the length of the file       *)
ReadValid(c) ==
  /\ "read" \in c.file.access /\ "target" \in buf[c.ref.buf].usage
  /\ c.ref.len <= MaxFileOffset - c.foff
  /\ c.file.length > 0 => c.foff + c.ref.len <= c.file.length
  /\ c.file.storage # Nil \/ c.file.sync
WriteValid(c) ==
  /\ "write" \in c.file.access /\ "source" \in buf[c.ref.buf].usage
  /\ c.ref.len <= MaxFileOffset - c.foff
  /\ c.file.storage # Nil \/ c.file.sync
FileValid(c) == IF c.k = "read" THEN ReadValid(c) ELSE WriteValid(c)

Length(c) == CASE c.k \in {"fill", "update", "copy"} -> c.dst.len
               [] c.k = "dispatch" -> c.groups
               [] OTHER -> 1
Valid(t, c) ==
  /\ Call(t).op = "queue" /\ Call(t).cmd.k \in {"read", "write"} /\ Call(t).cmd.ref.len # 0
       => FileValid(Call(t).cmd)
  /\ \/ c.k = "dispatch" /\ c.groups = 0 /\ c.direct
     \/ c.k = "dispatch" /\ c.groups # 0 /\ DispatchValid(c)
     \/ c.k # "dispatch" /\ Bound(c) /\ Length(c) = 0
     \/ c.k = "fill" /\ Bound(c) /\ FillValid(c)
     \/ c.k = "update" /\ Bound(c) /\ UpdateValid(c)
     \/ c.k = "copy" /\ Bound(c) /\ CopyValid(c)
     \/ c.k \in {"alloca", "dealloca", "file_write"}

(* iree_hal_command_buffer_validate_submission *)
SubmissionValid(c) == c.op = "execute" => Len(c.table) >= rec[c.cb].bindings

Cmd(t) == Commands(Call(t))[th[t].i]
More(t) == th[t].i <= Len(Commands(Call(t)))

(* Mutant: a queue dispatch is not followed by lr_synchronize *)
AfterCommandAsync(t, launched) ==
  th' = [th EXCEPT ![t].i = @ + 1, ![t].n = launched, ![t].stage = NoMem,
                   ![t].pc = IF Call(t).op = "execute" THEN "sync" ELSE "finish"]

(* After a command: a replayed command and a dispatch are followed by      *)
(* lr_synchronize                                                          *)
AfterCommand(t, launched) ==
  th' = [th EXCEPT ![t].i = @ + 1, ![t].n = launched, ![t].stage = NoMem,
                   ![t].pc = IF Call(t).op = "execute" \/ Cmd(t).k = "dispatch"
                             THEN "sync" ELSE "finish"]

(* The next command of an operation: refused, nothing to do, or started *)
StartCommand(t) ==
  LET c == Cmd(t)
      Staged == c.k = "copy" /\ {c.src.buf, c.dst.buf} \cap HostBuffers # {}
  IN
  /\ At(t, "body") /\ More(t) /\ SubmissionValid(Call(t))
  /\ \/ ~Valid(t, c) /\ Error(t, "finish")
     \/ Valid(t, c) /\ (Length(c) = 0 \/ c.k = "file_write") /\ AfterCommand(t, gpu.launched)
     \/ /\ Valid(t, c) /\ Length(c) # 0 /\ c.k \in {"fill", "update", "copy"}
        /\ th' = [th EXCEPT ![t].pc = IF Staged THEN "stage" ELSE "copy", ![t].n = gpu.launched]
  /\ UNCHANGED <<runtime, ref, held, dev, buf, mem, exe, rec, sem, gpu, left>>

(* No command left, or a submission the binding table does not fit: the    *)
(* last synchronisation of lrrt_iree_hal_device_queue_execute, or its error *)
EndReplay(t) ==
  /\ At(t, "body")
  /\ IF ~SubmissionValid(Call(t)) THEN Error(t, "finish")
     ELSE ~More(t) /\ th' = [th EXCEPT ![t].pc = "last", ![t].n = gpu.launched]
  /\ UNCHANGED <<runtime, ref, held, dev, buf, mem, exe, rec, sem, gpu, left>>

(* lr_launch of lrrt_iree_hal_device_dispatch_now.  tag says whose kernel  *)
(* it is and is read by the refinement only.                               *)
Launch(t) ==
  LET c == Cmd(t) IN
  /\ At(t, "body") /\ More(t) /\ SubmissionValid(Call(t))
  /\ c.k = "dispatch" /\ c.groups # 0 /\ Valid(t, c)
  /\ \/ /\ runtime.up
        /\ gpu' = [gpu EXCEPT !.fifo = Append(@, [cmd |-> c, tag |-> <<t, Len(left[t])>>]),
                              !.launched = @ + 1]
        /\ AfterCommand(t, gpu.launched + 1)
     \/ (~runtime.up \/ MayFail("lr_launch")) /\ Error(t, "finish") /\ UNCHANGED gpu
  /\ UNCHANGED <<runtime, ref, held, dev, buf, mem, exe, rec, sem, left>>

(* The source of a copy between an lrrt buffer and another is read into a  *)
(* staging allocation first                                                *)
StageCopy(t) ==
  LET c == Cmd(t) IN
  /\ At(t, "stage") /\ (c.src.buf \in HostBuffers \/ Drained(t))
  /\ \/ /\ mem[c.src.buf] # NoMem
        /\ th' = [th EXCEPT ![t].stage = mem[c.src.buf], ![t].pc = "copy", ![t].n = gpu.launched]
     \/ (mem[c.src.buf] = NoMem \/ MayFail("lr_memcpy")) /\ Error(t, "finish")
  /\ UNCHANGED <<runtime, ref, held, dev, buf, mem, exe, rec, sem, gpu, left>>

(* lr_memcpy of a fill, an update or a copy, or the write of the staged     *)
(* data: it waits for the kernels launched before it                        *)
Transfer(t) ==
  LET c == Cmd(t)
      stage == IF c.k = "copy" /\ th[t].stage = NoMem THEN mem[c.src.buf] ELSE th[t].stage
  IN
  /\ At(t, "copy") /\ (c.dst.buf \in HostBuffers \/ Drained(t))
  /\ \/ /\ mem[c.dst.buf] # NoMem /\ (c.k = "copy" => stage # NoMem)
        /\ mem' = Effect(mem, stage, c) /\ AfterCommand(t, gpu.launched)
     \/ /\ MayFail("lr_memcpy") \/ mem[c.dst.buf] = NoMem \/ (c.k = "copy" /\ stage = NoMem)
        /\ Error(t, "finish") /\ UNCHANGED mem
  /\ UNCHANGED <<runtime, ref, held, dev, buf, exe, rec, sem, gpu, left>>

(* lrrt_iree_hal_device_synchronize after a command *)
SynchronizeCommand(t) ==
  /\ At(t, "sync")
  /\ \/ Drained(t) /\ Goto(t, IF Call(t).op = "execute" THEN "body" ELSE "finish")
     \/ MayFail("lr_synchronize") /\ Error(t, "finish")
  /\ UNCHANGED <<runtime, ref, held, dev, buf, mem, exe, rec, sem, gpu, left>>

(* and at the end of a replay *)
SynchronizeReplay(t) ==
  /\ At(t, "last")
  /\ \/ Drained(t) /\ Goto(t, "finish")
     \/ MayFail("lr_synchronize") /\ Error(t, "finish")
  /\ UNCHANGED <<runtime, ref, held, dev, buf, mem, exe, rec, sem, gpu, left>>

(* lrrt_iree_hal_device_queue_alloca *)
QueueAlloca(t) ==
  LET c == Call(t).cmd IN
  /\ At(t, "body") /\ More(t) /\ Cmd(t).k = "alloca"
  /\ \/ Allocates(Call(t).dev, c.buf, "device_visible", c.size, c.usage) /\ AfterCommand(t, gpu.launched)
     \/ /\ AllocationFails(Call(t).dev, "device_visible", c.size)
        /\ Error(t, "finish") /\ UNCHANGED <<ref, held, buf, mem>>
  /\ UNCHANGED <<runtime, dev, exe, rec, sem, gpu, left>>

(* lrrt_iree_hal_device_queue_dealloca: the caller's reference is released *)
QueueDealloca(t) ==
  LET c == Call(t).cmd IN
  /\ At(t, "body") /\ More(t) /\ Cmd(t).k = "dealloca"
  /\ held' = [held EXCEPT ![c.buf] = @ - 1]
  /\ th' = [th EXCEPT ![t].pc = "drop", ![t].drop = <<c.buf>>, ![t].then = "finish", ![t].i = @ + 1]
  /\ UNCHANGED <<runtime, ref, dev, buf, mem, exe, rec, sem, gpu, left>>

(* The device completes the oldest kernel *)
KernelCompletes ==
  /\ gpu.fifo # <<>>
  /\ mem' = Effect(mem, NoMem, Head(gpu.fifo).cmd)
  /\ gpu' = [gpu EXCEPT !.fifo = Tail(@), !.done = @ + 1]
  /\ UNCHANGED <<runtime, ref, held, dev, buf, exe, rec, sem, th, left>>
-----------------------------------------------------------------------------
Enter(t) ==
  /\ left[t] # <<>>
  /\ \E c \in Head(left[t]) :
    /\ Callable(t, c)
    /\ \/ CreateDevice(t, c) \/ ReplaceAllocator(t, c) \/ ReleaseObject(t, c)
       \/ AllocateBuffer(t, c) \/ MapBuffer(t, c)
       \/ PrepareExecutable(t, c) \/ LookupFunction(t, c)
       \/ CreateCommandBuffer(t, c) \/ BeginCommandBuffer(t, c)
       \/ RecordTransfer(t, c) \/ RecordDispatch(t, c)
       \/ SubmitQueueOperation(t, c)
Step(t) ==
  \/ RuntimeRetain(t) \/ RuntimeRetainLoad(t) \/ RuntimeRetainStore(t)
  \/ RuntimeRelease(t) \/ RuntimeReleaseStore(t) \/ RuntimeReleaseLast(t)
  \/ OpenDevice(t) \/ DropOne(t) \/ BufferDestroy(t) \/ ExecutableDestroy(t) \/ Dropped(t)
  \/ MapRead(t) \/ ClientWrites(t) \/ UnmapWrite(t)
  \/ BeginSubmission(t) \/ StartCommand(t) \/ EndReplay(t) \/ Launch(t)
  \/ StageCopy(t) \/ Transfer(t) \/ SynchronizeCommand(t) \/ SynchronizeReplay(t)
  \/ QueueAlloca(t) \/ QueueDealloca(t) \/ FinishQueueOperation(t)

Next == (\E t \in Threads : Enter(t) \/ Step(t)) \/ KernelCompletes

Spec == Init /\ [][Next]_vars

(* A thread inside the adapter is scheduled again, and the device goes on. *)
FairSpec ==
  Spec /\ (\A t \in Threads : WF_vars(Step(t))) /\ WF_vars(KernelCompletes)
-----------------------------------------------------------------------------
(* Every reference count is the number of references there are: the        *)
(* handles of the application, the objects that own the object (the        *)
(* device its allocator, a buffer its allocator, a record the buffers and  *)
(* the executable it names) and the releases still to be made.             *)
RefsBalanced ==
  \A o \in Objects :
    ref[o] = held[o] + Cardinality({d \in Devices : dev[d] = o})
             + Cardinality({b \in Buffers : buf[b].alloc = o})
             + MapThenSumSet(LAMBDA c : Count(o, RecordRetains(c)), CommandBuffers)
             + MapThenSumSet(LAMBDA t : Count(o, th[t].drop), Threads)

(* While an allocator or a buffer is alive lrrt is initialised, a live     *)
(* buffer has its device memory, and a kernel still to run has its         *)
(* buffers and its executable: the allocator "owns the lrrt runtime/device *)
(* lifetime needed by HAL buffers" and lr_free waits.                      *)
NothingDangles ==
  /\ \A a \in Allocators : ref[a] > 0 => runtime.up
  /\ \A b \in Buffers : ref[b] > 0 => mem[b] # NoMem
  /\ \A i \in 1 .. Len(gpu.fifo) : \A o \in CmdObjects(gpu.fifo[i].cmd) : ref[o] > 0

(* An operation whose wait semaphores have been reached or have failed     *)
(* returns: no wait inside the adapter or lrrt depends on another caller.  *)
OperationsReturn ==
  \A t \in Threads :
    (~At(t, "idle") /\ (At(t, "wait") => Reached(Call(t).wait) \/ Failed(Call(t).wait)))
      ~> At(t, "idle")

(* The refinement mapping: a queue operation in progress, the commands it  *)
(* still has to do, and the kernels no operation waits for any more.       *)
InQueueOp(t) == Call(t).op \in {"queue", "execute"} /\ ~At(t, "idle")
Own(t) == SelectSeq(gpu.fifo, LAMBDA k : k.tag = <<t, Len(left[t])>>)
Pending(t) ==
  [i \in 1 .. Len(Own(t)) |-> Own(t)[i].cmd]
    \o SubSeq(Commands(Call(t)), IF At(t, "wait") THEN 1 ELSE th[t].i, Len(Commands(Call(t))))
HalOps ==
  [t \in Threads |->
     IF ~InQueueOp(t) THEN [st |-> "idle", todo |-> <<>>, wait |-> {}, signal |-> {}, stage |-> NoMem]
     ELSE [st |-> IF At(t, "wait") THEN "waiting" ELSE "running", todo |-> Pending(t),
           wait |-> Call(t).wait, signal |-> Call(t).signal, stage |-> th[t].stage]]
HalStray ==
  {gpu.fifo[i].cmd : i \in {j \in 1 .. Len(gpu.fifo) :
     \A t \in Threads : InQueueOp(t) => gpu.fifo[j].tag # <<t, Len(left[t])>>}}
Timeline == INSTANCE HalTimeline WITH ops <- HalOps, stray <- HalStray

(* The queue operations implement the timeline of HalTimeline: they start  *)
(* once their wait semaphores are reached, their commands take effect one  *)
(* by one and in order, and completion is signalled after the last effect, *)
(* as queue_execute and finish_queue_operation do it.                      *)
ImplementsTimeline == Timeline!Spec
=============================================================================
