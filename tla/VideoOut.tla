------------------------------ MODULE VideoOut ------------------------------
(***************************************************************************)
(* Video output: the port and its flips (videoout/driver.cpp, driver.h,    *)
(* video_out.cpp), the tracker of flip labels (flip_label_tracker.h) and   *)
(* the event queue that flips and vblanks are reported to (Equeue).        *)
(*                                                                         *)
(* A guest thread submits a flip directly, and the GPU thread queues it;   *)
(* or the command stream does, at the end of a frame (EOP): the GPU waits  *)
(* until the label of the buffer is 0, sets it to 1 and raises the flip    *)
(* interrupt, whose handler queues the flip.  Before it queues a flip, the *)
(* GPU thread waits for a free presentation frame (Presenter), one of as   *)
(* many as the swapchain has images.  The present thread takes one flip    *)
(* per vblank, shows it, which frees the frame, and releases labels: of    *)
(* the buffer it showed before, and, at the next vblank, of the one it     *)
(* just showed, unless the GPU has locked it again (a newer generation).   *)
(*                                                                         *)
(* due_vblank is kept as the vblanks left until then, vblank_status.count  *)
(* as its remainder by 2.  The calls that open, close and (un)register are *)
(* one step each.                                                          *)
(***************************************************************************)
EXTENDS Equeue

CONSTANTS Buffers,        \* indices of buffer slots
          MaxPending,     \* the 16 of SubmitFlip
          Frames,         \* presentation frames: the images of the swapchain
          MaxGeneration,  \* UINT64_MAX
          MaxOutstanding, \* bound: a guest thread submits no flip beyond this many
          Rates           \* values of flip_rate

ASSUME VideoOutAssumption ==
  /\ Buffers \subseteq Nat /\ NULL \notin Buffers \union {-1} /\ MaxPending \in Nat
  /\ MaxGeneration \in Nat \ {0} /\ MaxOutstanding \in Nat /\ Rates \subseteq {0, 1}
  /\ \A p \in Programs : p.buffers \subseteq Buffers

\* A swapchain has a handful of images, fewer than the flips that may be pending.
ASSUME FramesAssumption == Frames \in Nat \ {0} /\ Frames < MaxPending

Blank == -1

VARIABLES
  port,       \* is_open, flip_rate, prev_index, registered slots, flip_pending_num,
              \* vblank_status.count % 2, and which of flip_events and vblank_events
              \* hold the queue
  label,      \* buffer_labels
  gens,       \* FlipLabelTracker::generations
  retire,     \* FlipLabelTracker::pending
  commands,   \* Liverpool::command_queue: flips on their way to the GPU thread
  prep,       \* the flip that SubmitFlipInternal prepares a frame for, or NoFlip
  requests,   \* VideoOutDriver::requests
  guest,      \* the thread that submits flips: where it is, and of which buffer
  gpu,        \* the GPU thread: where it is, its buffer, and its lock generation
  present,    \* the present thread: where it is, its request, and the event it triggers
  forgotten,  \* history: the port was closed while a flip was outstanding
  aborted     \* an ASSERT failed

labelVars == <<label, gens, retire>>
queueVars == <<commands, prep, requests>>
endVars == <<forgotten, aborted>>
vars == <<calls, eqVars, port, labelVars, queueVars, guest, gpu, present, endVars>>

Flip(b, eop, gen) == [index |-> b, eop |-> eop, gen |-> gen]
NoFlip == Flip(NULL, FALSE, 0)
NoRetirement == [index |-> Blank, gen |-> 0, left |-> 0, active |-> FALSE]
ClosedPort ==
  [open |-> FALSE, rate |-> 0, prev |-> Blank, reg |-> {}, pending |-> 0, odd |-> 0, subs |-> {}]

Init ==
  /\ \E p \in Programs :
       /\ calls = p.calls
       /\ port = [ClosedPort EXCEPT !.open = TRUE, !.reg = p.buffers]
  /\ EqInit
  /\ label = [b \in Buffers |-> 0]
  /\ gens = [b \in Buffers |-> 0]
  /\ retire = NoRetirement
  /\ commands = <<>> /\ prep = NoFlip /\ requests = <<>>
  /\ guest = [pc |-> "idle", buf |-> NULL]
  /\ gpu = [pc |-> "idle", buf |-> NULL, gen |-> 0]
  /\ present = [pc |-> "start", req |-> NoFlip, key |-> NULL]
  /\ forgotten = FALSE /\ aborted = FALSE

GuestGoto(pc, b) == guest' = [pc |-> pc, buf |-> b]
GpuGoto(pc) == gpu' = [gpu EXCEPT !.pc = pc]
PresentGoto(pc) == present' = [present EXCEPT !.pc = pc]

\* The flips that flip_pending_num counts.
Outstanding ==
  Len(commands) + Len(requests) + Cardinality({f \in {prep} : f # NoFlip})
    + Cardinality({g \in {guest.pc} : g = "send"}) + Cardinality({g \in {gpu.pc} : g = "push"})
    + Cardinality({p \in {present.pc} : p \in {"show", "status"}})

\* The presentation frames in use: each request holds one until it has been shown.
FramesHeld == Len(requests) + Cardinality({p \in {present.pc} : p = "show"})

\* SignalVoLabel; the GPU thread is the only one that waits.
SignalVoLabel == gpu' = IF gpu.pc = "asleep" THEN [gpu EXCEPT !.pc = "woken"] ELSE gpu

-----------------------------------------------------------------------------
\* FlipLabelTracker.
NextGeneration(g) == IF g = MaxGeneration THEN 1 ELSE g + 1
CancelRetirementForIndex(B) ==
  IF retire.active /\ retire.index \in B THEN NoRetirement ELSE retire
ScheduleRetirement(f) ==
  IF f.eop /\ f.gen # 0 /\ f.index # Blank
  THEN [index |-> f.index, gen |-> f.gen, left |-> 1, active |-> TRUE]
  ELSE retire

Due == retire.active /\ retire.left = 0
\* Mutant of Retires: a later lock of the buffer does not matter.
RetiresAnyway == Due
\* ConsumeDueRetirement finds a label to release.
Retires == Due /\ gens[retire.index] = retire.gen

-----------------------------------------------------------------------------
\* sceVideoOutSubmitFlip: tests the slot,
SubmitFlip(b) ==
  /\ guest.pc = "idle" /\ "flip" \in calls /\ Outstanding < MaxOutstanding
  /\ b = Blank \/ b \in port.reg
  /\ GuestGoto("submit", b)
  /\ UNCHANGED <<eqVars, port, labelVars, queueVars, gpu, present, endVars>>

\* VideoOutDriver::SubmitFlip under port_mutex: refused when the queue is full,
QueueFull(b) == b # Blank /\ port.pending > MaxPending
SubmitCount ==
  /\ guest.pc = "submit"
  /\ \/ /\ QueueFull(guest.buf)
        /\ GuestGoto("idle", NULL)
        /\ UNCHANGED port
     \/ /\ ~QueueFull(guest.buf)
        /\ port' = [port EXCEPT !.pending = @ + 1]
        /\ GuestGoto("send", guest.buf)
  /\ UNCHANGED <<eqVars, labelVars, queueVars, gpu, present, endVars>>

\* and sent to the GPU thread.
SubmitSend ==
  /\ guest.pc = "send"
  /\ commands' = Append(commands, guest.buf)
  /\ GuestGoto("idle", NULL)
  /\ UNCHANGED <<eqVars, port, labelVars, prep, requests, gpu, present, endVars>>

\* SubmitFlipInternal, on the GPU thread: the slot must still be registered;
SubmitFlipInternal(f) ==
  IF f.index = Blank \/ f.index \in port.reg
  THEN prep' = f /\ UNCHANGED aborted
  ELSE aborted' = TRUE /\ UNCHANGED prep

\* Mutant of PrepareFrame: the GPU thread makes do without a free frame.
PrepareFrameAnyway ==
  /\ prep # NoFlip
  /\ requests' = Append(requests, prep) /\ prep' = NoFlip
  /\ UNCHANGED <<eqVars, port, labelVars, commands, guest, gpu, present, endVars>>

\* then PrepareFrame (PrepareBlankFrame) blocks in GetRenderFrame until a frame is
\* free, and the request is queued.
PrepareFrame ==
  /\ prep # NoFlip /\ FramesHeld < Frames
  /\ requests' = Append(requests, prep) /\ prep' = NoFlip
  /\ UNCHANGED <<eqVars, port, labelVars, commands, guest, gpu, present, endVars>>

\* ProcessCommands, between packets and while the stream yields.
GpuCommand ==
  /\ gpu.pc \in {"idle", "wait"} /\ prep = NoFlip /\ commands # <<>>
  /\ commands' = Tail(commands)
  /\ SubmitFlipInternal(Flip(Head(commands), FALSE, 0))
  /\ UNCHANGED <<eqVars, port, labelVars, requests, guest, gpu, present, forgotten>>

\* A frame of the command stream: WaitRegMem on the label of its buffer.  It goes
\* on once the label is 0; otherwise it yields and tries again, or sleeps in
\* WaitVoLabel when there is nothing else to run.
GpuFrame(b) ==
  /\ gpu.pc = "idle" /\ prep = NoFlip /\ "eop" \in calls /\ b \in port.reg
  /\ gpu' = [pc |-> "wait", buf |-> b, gen |-> 0]
  /\ UNCHANGED <<eqVars, port, labelVars, queueVars, guest, present, endVars>>
GpuPass ==
  /\ gpu.pc \in {"wait", "woken"} /\ prep = NoFlip /\ label[gpu.buf] = 0
  /\ GpuGoto("record")
  /\ UNCHANGED <<eqVars, port, labelVars, queueVars, guest, present, endVars>>
GpuSleep ==
  /\ gpu.pc \in {"wait", "woken"} /\ prep = NoFlip /\ label[gpu.buf] # 0
  /\ GpuGoto("asleep")
  /\ UNCHANGED <<eqVars, port, labelVars, queueVars, guest, present, endVars>>

\* WriteData of 1 to the label: MaybeRecordVideoOutLabelLock, then the write.
RecordGpuLock ==
  /\ gpu.pc = "record"
  /\ gens' = [gens EXCEPT ![gpu.buf] = NextGeneration(@)]
  /\ GpuGoto("write")
  /\ UNCHANGED <<eqVars, port, label, retire, queueVars, guest, present, endVars>>
GpuWrite ==
  /\ gpu.pc = "write"
  /\ label' = [label EXCEPT ![gpu.buf] = 1]
  /\ GpuGoto("irq")
  /\ UNCHANGED <<eqVars, port, gens, retire, queueVars, guest, present, endVars>>

\* The handler of the flip interrupt: the generation, then SubmitFlip, which must
\* not refuse, then SubmitFlipInternal.
EopGeneration ==
  /\ gpu.pc = "irq"
  /\ gpu' = [gpu EXCEPT !.pc = "count", !.gen = gens[gpu.buf]]
  /\ UNCHANGED <<eqVars, port, labelVars, queueVars, guest, present, endVars>>
EopCount ==
  /\ gpu.pc = "count"
  /\ \/ /\ QueueFull(gpu.buf) /\ aborted' = TRUE
        /\ UNCHANGED <<port, gpu>>
     \/ /\ ~QueueFull(gpu.buf)
        /\ port' = [port EXCEPT !.pending = @ + 1]
        /\ GpuGoto("push")
        /\ UNCHANGED aborted
  /\ UNCHANGED <<eqVars, labelVars, queueVars, guest, present, forgotten>>
EopPush ==
  /\ gpu.pc = "push"
  /\ SubmitFlipInternal(Flip(gpu.buf, TRUE, gpu.gen))
  /\ gpu' = [pc |-> "idle", buf |-> NULL, gen |-> 0]
  /\ UNCHANGED <<eqVars, port, labelVars, commands, requests, guest, present, forgotten>>

-----------------------------------------------------------------------------
\* PresentThread.  ApplyDueLabelRetirement: the tracker under port_mutex, then
\* the label,
ApplyDueLabelRetirement ==
  /\ present.pc = "start"
  /\ retire' = IF Due THEN NoRetirement ELSE retire
  /\ present' = IF Retires
                THEN [present EXCEPT !.pc = "retire", !.req.index = retire.index]
                ELSE [present EXCEPT !.pc = "take"]
  /\ UNCHANGED <<eqVars, port, label, gens, queueVars, guest, gpu, endVars>>
RetireLabel ==
  /\ present.pc = "retire"
  /\ label' = [label EXCEPT ![present.req.index] = 0]
  /\ present' = [present EXCEPT !.pc = "retired", !.req = NoFlip]
  /\ UNCHANGED <<eqVars, port, gens, retire, queueVars, guest, gpu, endVars>>

\* then a request, if this vblank is one to flip at.  Without one a thread that is
\* late draws a blank frame while the port is closed.
TakeRequest ==
  LET due == port.odd % (port.rate + 1) = 0 IN
  /\ present.pc = "take"
  /\ \/ /\ due /\ requests # <<>>
        /\ requests' = Tail(requests)
        /\ present' = [present EXCEPT !.pc = "show", !.req = Head(requests)]
     \/ /\ ~due \/ requests = <<>>
        /\ present' = [present EXCEPT !.pc = "trigger", !.key = "vblank"]
        /\ UNCHANGED requests
     \/ /\ due /\ requests = <<>> /\ ~port.open
        /\ PresentGoto("blank")
        /\ UNCHANGED requests
  /\ UNCHANGED <<eqVars, port, labelVars, commands, prep, guest, gpu, endVars>>

\* DrawBlankFrame waits for a free frame too, shows it and frees it.
DrawBlankFrame ==
  /\ present.pc = "blank" /\ FramesHeld < Frames
  /\ present' = [present EXCEPT !.pc = "trigger", !.key = "vblank"]
  /\ UNCHANGED <<eqVars, port, labelVars, queueVars, guest, gpu, endVars>>

\* VideoOutDriver::Flip.  Present, which frees the frame of the request at its end;
Present ==
  /\ present.pc = "show"
  /\ PresentGoto("status")
  /\ UNCHANGED <<eqVars, port, labelVars, queueVars, guest, gpu, endVars>>

\* Mutant of FlipStatus: the flips of guest threads are not counted down.
FlipStatusEopOnly ==
  /\ present.pc = "status"
  /\ port' = [port EXCEPT !.pending = IF present.req.eop THEN @ - 1 ELSE @]
  /\ present' = [present EXCEPT !.pc = "trigger", !.key = "flip"]
  /\ UNCHANGED <<eqVars, labelVars, queueVars, guest, gpu, endVars>>

\* the status under port_mutex,
FlipStatus ==
  /\ present.pc = "status"
  /\ port' = [port EXCEPT !.pending = @ - 1]
  /\ present' = [present EXCEPT !.pc = "trigger", !.key = "flip"]
  /\ UNCHANGED <<eqVars, labelVars, queueVars, guest, gpu, endVars>>

\* the event (of a flip, or of the vblank), and the notification,
TriggerEvent ==
  /\ present.pc = "trigger"
  /\ IF present.key \in port.subs
     THEN events' = Triggered(present.key) /\ PresentGoto("notify")
     ELSE PresentGoto(present.key) /\ UNCHANGED events
  /\ UNCHANGED <<armed, small, asioRequests, service, thr, port, labelVars, queueVars, guest,
                 gpu, endVars>>
NotifyEvent ==
  /\ present.pc = "notify"
  /\ NotifyOne(thr)
  /\ PresentGoto(present.key)
  /\ UNCHANGED <<events, armed, small, asioRequests, service, port, labelVars, queueVars,
                 guest, gpu, endVars>>

\* the label of the buffer shown before, its retirement, and the wake-up,
ResetPrevLabel ==
  /\ present.pc = "flip"
  /\ \/ /\ port.prev # Blank
        /\ label' = [label EXCEPT ![port.prev] = 0]
        /\ PresentGoto("cancel")
     \/ /\ port.prev = Blank
        /\ PresentGoto("save") /\ UNCHANGED label
  /\ UNCHANGED <<eqVars, port, gens, retire, queueVars, guest, gpu, endVars>>
CancelRetirement ==
  /\ present.pc = "cancel"
  /\ retire' = CancelRetirementForIndex({port.prev})
  /\ PresentGoto("signal")
  /\ UNCHANGED <<eqVars, port, label, gens, queueVars, guest, gpu, endVars>>

\* Mutant of PresentSignal: the label is released and the GPU thread not told.
PresentSignalSilent ==
  /\ present.pc \in {"retired", "signal"}
  /\ PresentGoto(IF present.pc = "signal" THEN "save" ELSE "take")
  /\ UNCHANGED <<eqVars, port, labelVars, queueVars, guest, gpu, endVars>>

\* SignalVoLabel, after either release.
PresentSignal ==
  /\ present.pc \in {"retired", "signal"}
  /\ SignalVoLabel
  /\ PresentGoto(IF present.pc = "signal" THEN "save" ELSE "take")
  /\ UNCHANGED <<eqVars, port, labelVars, queueVars, guest, endVars>>

\* and what the next flip and the next vblank need to know.
SavePrev ==
  /\ present.pc = "save"
  /\ port' = [port EXCEPT !.prev = present.req.index]
  /\ retire' = ScheduleRetirement(present.req)
  /\ present' = [pc |-> "trigger", req |-> NoFlip, key |-> "vblank"]
  /\ UNCHANGED <<eqVars, label, gens, queueVars, guest, gpu, endVars>>

\* The end of the vblank, under vo_mutex.
Vblank ==
  /\ present.pc = "vblank"
  /\ port' = [port EXCEPT !.odd = 1 - @]
  /\ retire' = [retire EXCEPT !.left = IF @ > 0 THEN @ - 1 ELSE 0]
  /\ present' = [present EXCEPT !.pc = "start", !.key = NULL]
  /\ UNCHANGED <<eqVars, label, gens, queueVars, guest, gpu, endVars>>

-----------------------------------------------------------------------------
\* sceVideoOutAddFlipEvent, AddVblankEvent (bound: once); Delete...Event removes
\* the queue from the port and an event that does not exist from the queue.
AddPortEvent(t, k) ==
  /\ thr[t].pc = "idle" /\ "event" \in calls /\ k \notin port.subs
  /\ events' = Added(k)
  /\ port' = [port EXCEPT !.subs = @ \union {k}]
  /\ UNCHANGED <<armed, small, asioRequests, service, thr, labelVars, queueVars, guest, gpu,
                 present, endVars>>
DeletePortEvent(t, k) ==
  /\ thr[t].pc = "idle" /\ "event" \in calls /\ k \in port.subs
  /\ port' = [port EXCEPT !.subs = @ \ {k}]
  /\ UNCHANGED <<eqVars, labelVars, queueVars, guest, gpu, present, endVars>>

SetFlipRate(r) ==
  /\ guest.pc = "idle" /\ "rate" \in calls
  /\ port' = [port EXCEPT !.rate = r]
  /\ UNCHANGED <<eqVars, labelVars, queueVars, guest, gpu, present, endVars>>

Open ==
  /\ guest.pc = "idle" /\ "reset" \in calls /\ ~port.open
  /\ port' = [port EXCEPT !.open = TRUE]
  /\ UNCHANGED <<eqVars, labelVars, queueVars, guest, gpu, present, endVars>>

\* Close removes the events of the port from the queue that it holds.
WithoutIf(s, k) == IF k \in port.subs THEN Without(s, k) ELSE s

\* Close: the flips that are on their way stay there, and the labels are cleared
\* without SignalVoLabel.
Close ==
  /\ guest.pc = "idle" /\ "reset" \in calls
  /\ port' = ClosedPort
  /\ label' = [b \in Buffers |-> 0]
  /\ gens' = [b \in Buffers |-> 0]
  /\ retire' = NoRetirement
  /\ events' = WithoutIf(WithoutIf(events, "flip"), "vblank")
  /\ forgotten' = (forgotten \/ Outstanding # 0)
  /\ UNCHANGED <<armed, small, asioRequests, service, thr, queueVars, guest, gpu, present,
                 aborted>>

\* RegisterBuffers and UnregisterBuffers (bound: one group).
RegisterBuffers(B) ==
  /\ guest.pc = "idle" /\ "reset" \in calls /\ port.open /\ port.reg = {} /\ B # {}
  /\ port' = [port EXCEPT !.reg = B]
  /\ label' = [b \in Buffers |-> IF b \in B THEN 0 ELSE label[b]]
  /\ gens' = [b \in Buffers |-> IF b \in B THEN 0 ELSE gens[b]]
  /\ retire' = CancelRetirementForIndex(B)
  /\ SignalVoLabel
  /\ UNCHANGED <<eqVars, queueVars, guest, present, endVars>>
UnregisterBuffers ==
  /\ guest.pc = "idle" /\ "reset" \in calls /\ port.open /\ port.reg # {}
  /\ port' = [port EXCEPT !.reg = {}]
  /\ gens' = [b \in Buffers |-> IF b \in port.reg THEN 0 ELSE gens[b]]
  /\ retire' = CancelRetirementForIndex(port.reg)
  /\ UNCHANGED <<eqVars, label, queueVars, guest, gpu, present, endVars>>

-----------------------------------------------------------------------------
GuestCall ==
  \/ \E b \in Buffers \union {Blank} : SubmitFlip(b)
  \/ \E r \in Rates : SetFlipRate(r)
  \/ Open \/ Close \/ UnregisterBuffers \/ \E B \in SUBSET Buffers : RegisterBuffers(B)
  \/ \E t \in Threads, k \in {"flip", "vblank"} : AddPortEvent(t, k) \/ DeletePortEvent(t, k)
GpuLock == RecordGpuLock \/ GpuWrite \/ EopGeneration \/ EopCount \/ EopPush \/ PrepareFrame
GpuStep == GpuCommand \/ GpuPass \/ GpuSleep \/ GpuLock \/ \E b \in Buffers : GpuFrame(b)
PresentStep ==
  \/ ApplyDueLabelRetirement \/ RetireLabel \/ TakeRequest \/ DrawBlankFrame \/ Present
  \/ FlipStatus \/ TriggerEvent \/ NotifyEvent \/ ResetPrevLabel \/ CancelRetirement \/ PresentSignal \/ SavePrev \/ Vblank

\* A failed ASSERT ends the process.
Ended == aborted /\ UNCHANGED vars

\* A step of the event queue alone.
Alone(A) == A /\ UNCHANGED <<port, labelVars, queueVars, guest, gpu, present, endVars>>
QueueStep ==
  \/ Alone(EqServiceStep)
  \/ \E t \in Threads : Alone(EqCall(t)) \/ Alone(EqResume(t)) \/ Alone(EqExpire(t))

Running(A) == ~aborted /\ A /\ UNCHANGED calls
Next ==
  \/ Running(QueueStep \/ GuestCall \/ SubmitCount \/ SubmitSend \/ GpuStep \/ PresentStep)
  \/ Ended

Spec == Init /\ [][Next]_vars

\* The service and present threads run, timers expire, the GPU thread goes on when
\* nothing keeps it waiting, and a call that a guest thread makes goes on.  Between
\* the flips that guest threads send, ProcessCommands returns and the stream tests
\* its label again.  Whether guest threads make calls is up to them.
FairSpec ==
  /\ Spec
  /\ WF_vars(Running(PresentStep)) /\ SF_vars(Running(GpuPass)) /\ WF_vars(Running(GpuLock))
  /\ WF_vars(Running(SubmitCount \/ SubmitSend)) /\ WF_vars(Running(Alone(EqServiceStep)))
  /\ \A t \in Threads : WF_vars(Running(Alone(EqResume(t))))

-----------------------------------------------------------------------------
Notifying ==
  Cardinality({t \in Threads : thr[t].pc = "notify"})
    + Cardinality({p \in {service.pc} : p = "notify"})
    + Cardinality({p \in {present.pc} : p = "notify"})

\* TriggerEvent notifies one waiter, after it released m_mutex, and a waiter takes
\* at most num events (equeue.cpp:208-255).  No edge-triggered event is left behind
\* while a waiter sleeps: there is always a waiter awake, or a notification on its
\* way, for each of them.  (A level user event breaks this: it is handed out again
\* and again in place of the event behind it.)
NoLostEvent ==
  "level" \notin calls /\ Asleep # {}
    => Cardinality(Ready(events)) <= Notifying
         + Cardinality({t \in Threads : thr[t].pc = "woken"})

\* flip_pending_num (driver.cpp:328-403, 273-285) is changed by the guest's, the GPU
\* and the present thread: it is the number of flips submitted and not yet shown,
\* until the port is closed with flips outstanding.
FlipsAccounted == ~forgotten /\ ~aborted => port.pending = Outstanding

\* A retirement (driver.cpp:485-497) is decided under port_mutex by the generation
\* of the lock: it is never granted for a buffer that the GPU has locked for a flip
\* that was not shown yet, however often the buffer was released and locked since
\* the retirement was scheduled.  (The label is cleared after port_mutex is
\* released, so a lock that comes in between is released all the same.)
Locked(b) ==
  \/ gpu.buf = b /\ gpu.pc \in {"write", "irq", "count", "push"}
  \/ prep.eop /\ prep.index = b
  \/ \E i \in DOMAIN requests : requests[i].eop /\ requests[i].index = b
RetireSafe ==
  [][("reset" \notin calls /\ present.pc = "start" /\ present'.pc = "retire")
       => ~Locked(present'.req.index)]_vars

\* A frame that waits for the label of its buffer (liverpool.cpp:865-882,
\* driver.h:62-70) is let through, whether it polls or sleeps.
GpuWaits == gpu.pc \in {"wait", "asleep", "woken"}
LabelWaitEnds == ("reset" \notin calls /\ GpuWaits) ~> (aborted \/ ~GpuWaits)

\* The handler of the flip interrupt asserts that its flip is accepted ("EOP flip
\* submission failed", video_out.cpp:393).  The label of a buffer does not see to
\* that: Flip releases the label of the buffer shown before (driver.cpp:299-300)
\* even when the GPU has locked it again, so that one buffer can have several flips
\* outstanding.  The frames do: each flip holds one until it is shown.  (Flips of
\* guest threads, which are accepted up to the same limit, can use it up.)
EopFlipAccepted == "flip" \notin calls /\ "reset" \notin calls => ~aborted

\* A timer that was scheduled (ScheduleEvent, equeue.cpp:120-159) expires, or is
\* removed: KernelServiceThread (kernel.cpp:63-81) runs it.
TimerRuns == \A k \in TimerKeys : (k \in armed) ~> (aborted \/ k \notin armed)
=============================================================================
