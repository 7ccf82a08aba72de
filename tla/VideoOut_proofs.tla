-------------------------- MODULE VideoOut_proofs --------------------------
(***************************************************************************)
(* Proofs about the flips, the flip labels and the event queue of          *)
(* VideoOut, for any number of buffers, threads and guest programs and any *)
(* limits.  No step of the queue touches the port: the flips and labels    *)
(* come first, with the queue unconstrained, and then the queue.           *)
(***************************************************************************)
EXTENDS VideoOut, FiniteSetTheorems, SequenceTheorems, TLAPS

Slot == Buffers \union {Blank, NULL}
Flips == [index : Slot, eop : BOOLEAN, gen : 0..MaxGeneration]

\* The GPU thread has locked a label and not handed the flip over yet.
Locking == {"write", "irq", "count", "push"}
\* The present thread shows present.req.
Showing ==
  \/ present.pc \in {"show", "status", "flip", "cancel", "signal", "save"}
  \/ present.pc \in {"trigger", "notify"} /\ present.key = "flip"

PortType ==
  [open : BOOLEAN, rate : {0, 1}, prev : Slot, reg : SUBSET Buffers, pending : Int,
   odd : {0, 1}, subs : SUBSET Keys]
RetireType == [index : Slot, gen : 0..MaxGeneration, left : {0, 1}, active : BOOLEAN]
GuestType == [pc : {"idle", "submit", "send"}, buf : Slot]
GpuType ==
  [pc : {"idle", "wait", "asleep", "woken", "record"} \union Locking, buf : Slot,
   gen : 0..MaxGeneration]
PresentType ==
  [pc : {"start", "retire", "retired", "take", "blank", "show", "status", "trigger", "notify",
         "flip", "cancel", "signal", "save", "vblank"},
   req : Flips, key : Keys \union {NULL}]

\* The state of the driver is well typed; what the GPU thread works on is a buffer.
GpuOK == gpu \in GpuType /\ (gpu.pc # "idle" => gpu.buf \in Buffers)
PresentOK ==
  /\ present \in PresentType
  /\ present.pc \in {"trigger", "notify"} => present.key \in {"flip", "vblank"}
LabelTypes ==
  label \in [Buffers -> {0, 1}] /\ gens \in [Buffers -> 0..MaxGeneration] /\ retire \in RetireType
\* The flips from the GPU thread to the present thread, oldest first: those that wait
\* for their vblank, and the one that waits for a frame.
Join(r, p) == IF p = NoFlip THEN r ELSE Append(r, p)
queue == Join(requests, prep)

QueueTypes ==
  /\ commands \in Seq(Slot) /\ requests \in Seq(Flips) /\ prep \in Flips
  /\ queue \in Seq(Flips)
\* The GPU thread prepares a frame while it has nothing else under way.
PrepOK == prep # NoFlip => gpu.pc \in {"idle", "wait"}
DriverTypes ==
  /\ port \in PortType /\ LabelTypes /\ QueueTypes /\ guest \in GuestType /\ GpuOK /\ PresentOK
  /\ PrepOK

\* What flip_pending_num counts, one thread at a time.
At(x, pc) == IF x.pc = pc THEN 1 ELSE 0
InFlight ==
  Len(commands) + Len(queue) + At(guest, "send") + At(gpu, "push") + At(present, "show")
    + At(present, "status")
FlipLimit == MaxOutstanding + MaxPending + 2

\* flip_pending_num is exact, and bounds the flips on their way; only Close forgets.
AccountsOK ==
  /\ "reset" \notin calls => ~forgotten
  /\ ~forgotten /\ ~aborted =>
       /\ port.pending = InFlight
       /\ InFlight <= FlipLimit
       /\ guest.pc = "submit" => InFlight < FlipLimit

\* A scheduled retirement is decided at the next vblank, before the next flip.
RetireOK ==
  retire.active =>
    \/ present.pc \in {"trigger", "notify"} /\ present.key = "vblank"
    \/ present.pc = "vblank"
    \/ present.pc = "start" /\ retire.left = 0

\* How many locks ago a flip's label was locked: generations skip 0 and wrap.
Distance(g, h) == IF g <= h THEN h - g ELSE h - g + MaxGeneration
Age(f) == Distance(f.gen, gens[f.index])
GpuLocked(b) == gpu.buf = b /\ gpu.pc \in Locking
LockBegun == IF gpu.pc \in Locking THEN 1 ELSE 0

\* A flip with i requests at its back or before it, counted from the head: every
\* lock since its own has a flip behind it, which is younger.
FlipOK(f, i) ==
  f.eop =>
    /\ f.index \in Buffers /\ f.gen # 0 /\ gens[f.index] # 0
    /\ Age(f) <= Len(queue) - i + LockBegun
    /\ GpuLocked(f.index) => Age(f) > 0
    /\ \A j \in DOMAIN queue :
         j > i /\ queue[j].eop /\ queue[j].index = f.index => Age(queue[j]) < Age(f)

QueueOK == \A i \in DOMAIN queue : FlipOK(queue[i], i)
ShownOK == Showing => FlipOK(present.req, 0)
ScheduledOK == retire.active => FlipOK(Flip(retire.index, TRUE, retire.gen), 0)
LockOK ==
  /\ gpu.pc \in Locking => gens[gpu.buf] # 0
  /\ gpu.pc \in {"count", "push"} => gpu.gen = gens[gpu.buf]
LabelsOK == "reset" \notin calls /\ ~aborted => QueueOK /\ ShownOK /\ ScheduledOK /\ LockOK

Counters == DriverTypes /\ AccountsOK
Labels == RetireOK /\ LabelsOK

-----------------------------------------------------------------------------
\* The thread whose step adds or moves a flip counts for one.
LEMMA CountOne ==
  ASSUME NEW x, NEW c
  PROVE  Cardinality({g \in {x} : g = c}) = IF x = c THEN 1 ELSE 0
<1>1. CASE x = c
  <2>1. {g \in {x} : g = c} = {x}
    BY <1>1
  <2> QED
    BY <1>1, <2>1, FS_Singleton
<1>2. CASE x # c
  <2>1. {g \in {x} : g = c} = {}
    BY <1>2
  <2> QED
    BY <1>2, <2>1, FS_EmptySet
<1> QED
  BY <1>1, <1>2

LEMMA JoinFacts ==
  ASSUME NEW r \in Seq(Flips), NEW p \in Flips
  PROVE  /\ Join(r, p) \in Seq(Flips) /\ Join(r, NoFlip) = r
         /\ p # NoFlip => Join(r, p) = Append(r, p)
         /\ Len(Join(r, p)) = Len(r) + IF p = NoFlip THEN 0 ELSE 1
         /\ r # <<>> => /\ Tail(r) \in Seq(Flips) /\ Join(r, p) # <<>>
                        /\ Head(Join(r, p)) = Head(r) /\ Tail(Join(r, p)) = Join(Tail(r), p)
<1>1. Join(r, NoFlip) = r /\ (p # NoFlip => Join(r, p) = Append(r, p))
  BY DEF Join
<1>2. Append(r, p) \in Seq(Flips) /\ Len(Append(r, p)) = Len(r) + 1
  OBVIOUS
<1>3. r # <<>> => /\ Tail(r) \in Seq(Flips) /\ Append(r, p) # <<>>
                 /\ Head(Append(r, p)) = Head(r) /\ Tail(Append(r, p)) = Append(Tail(r), p)
  BY <1>2, HeadTailAppend, HeadTailProperties
<1>4. CASE p = NoFlip
  BY <1>3, <1>4 DEF Join
<1>5. CASE p # NoFlip
  BY <1>2, <1>3, <1>5 DEF Join
<1> QED
  BY <1>1, <1>4, <1>5

LEMMA OutstandingIs ==
  ASSUME DriverTypes
  PROVE  Outstanding = InFlight
<1>1. Cardinality({g \in {guest.pc} : g = "send"}) = At(guest, "send")
  BY CountOne DEF At
<1>2. Cardinality({g \in {gpu.pc} : g = "push"}) = At(gpu, "push")
  <2>1. ASSUME NEW x PROVE Cardinality({g \in {x} : g = "push"}) = IF x = "push" THEN 1 ELSE 0
    BY CountOne
  <2> QED
    BY <2>1 DEF At
<1>3. Cardinality({p \in {present.pc} : p \in {"show", "status"}})
        = At(present, "show") + At(present, "status")
  <2>1. CASE present.pc \in {"show", "status"}
    <3>1. {p \in {present.pc} : p \in {"show", "status"}} = {present.pc}
      BY <2>1
    <3>2. Cardinality({present.pc}) = 1
      BY FS_Singleton
    <3>3. At(present, "show") + At(present, "status") = 1
      BY <2>1 DEF At
    <3> QED
      BY <3>1, <3>2, <3>3
  <2>2. CASE present.pc \notin {"show", "status"}
    <3>1. {p \in {present.pc} : p \in {"show", "status"}} = {}
      BY <2>2
    <3> QED
      BY <2>2, <3>1, FS_EmptySet DEF At
  <2> QED
    BY <2>1, <2>2
<1>4. Cardinality({f \in {prep} : f # NoFlip}) = IF prep = NoFlip THEN 0 ELSE 1
  <2>1. CASE prep = NoFlip
    <3>1. {f \in {prep} : f # NoFlip} = {}
      BY <2>1
    <3> QED
      BY <2>1, <3>1, FS_EmptySet
  <2>2. CASE prep # NoFlip
    <3>1. {f \in {prep} : f # NoFlip} = {prep}
      BY <2>2
    <3> QED
      BY <2>2, <3>1, FS_Singleton
  <2> QED
    BY <2>1, <2>2
<1>5. Len(queue) = Len(requests) + IF prep = NoFlip THEN 0 ELSE 1
  BY JoinFacts DEF DriverTypes, QueueTypes, queue
<1>6. Len(commands) \in Nat /\ Len(requests) \in Nat
  BY DEF DriverTypes, QueueTypes
<1>7. /\ At(guest, "send") \in Nat /\ At(gpu, "push") \in Nat
      /\ At(present, "show") \in Nat /\ At(present, "status") \in Nat
  BY DEF At
<1> QED
  BY <1>1, <1>2, <1>3, <1>4, <1>5, <1>6, <1>7 DEF Outstanding, InFlight

\* A step of the event queue leaves the driver alone.
driver ==
  <<port, label, gens, retire, commands, prep, requests, guest, gpu, present, forgotten, aborted>>

LEMMA QueueStepAlone == QueueStep => UNCHANGED driver
BY DEF QueueStep, Alone, driver, labelVars, queueVars, endVars

\* What keeps the types of the parts that a step leaves alone.
LEMMA GpuSame == GpuOK /\ UNCHANGED gpu => GpuOK'
BY DEF GpuOK
LEMMA PresentSame == PresentOK /\ UNCHANGED present => PresentOK'
BY DEF PresentOK
LEMMA LabelSame == LabelTypes /\ UNCHANGED labelVars => LabelTypes'
BY DEF LabelTypes, labelVars
LEMMA QueueStays == UNCHANGED <<prep, requests>> => queue' = queue
BY DEF queue
LEMMA QueueSame == QueueTypes /\ UNCHANGED queueVars => QueueTypes'
BY QueueStays DEF QueueTypes, queueVars
LEMMA PrepSame == PrepOK /\ UNCHANGED <<prep, gpu>> => PrepOK'
BY DEF PrepOK
LEMMA TypesSame == DriverTypes /\ UNCHANGED driver => DriverTypes'
BY GpuSame, PresentSame, LabelSame, QueueSame, PrepSame
DEF DriverTypes, driver, labelVars, queueVars

LEMMA TypeFacts ==
  /\ 0 \in 0..MaxGeneration /\ NoFlip \in Flips /\ NoRetirement \in RetireType
  /\ ClosedPort \in PortType
BY VideoOutAssumption DEF NoFlip, Flip, Flips, Slot, NoRetirement, RetireType, ClosedPort, PortType

LEMMA TypesInit == Init => DriverTypes
<1> SUFFICES ASSUME Init PROVE DriverTypes
  OBVIOUS
<1>1. PICK p \in Programs : port = [ClosedPort EXCEPT !.open = TRUE, !.reg = p.buffers]
  BY DEF Init
<1>2. port \in PortType
  BY <1>1, TypeFacts, VideoOutAssumption DEF PortType
<1>3. LabelTypes /\ QueueTypes /\ PrepOK
  <2>1. <<>> \in Seq(Flips) /\ <<>> \in Seq(Slot)
    OBVIOUS
  <2>2. queue \in Seq(Flips)
    BY <2>1, TypeFacts, JoinFacts DEF Init, queue
  <2> QED
    BY <2>1, <2>2, TypeFacts DEF Init, LabelTypes, QueueTypes, PrepOK
<1>4. guest \in GuestType /\ GpuOK
  BY TypeFacts DEF Init, GuestType, GpuOK, GpuType, Slot
<1>5. PresentOK
  BY TypeFacts DEF Init, PresentOK, PresentType
<1> QED
  BY <1>2, <1>3, <1>4, <1>5 DEF DriverTypes

\* The calls of guest threads.
LEMMA GuestTypes == DriverTypes /\ (GuestCall \/ SubmitCount \/ SubmitSend) => DriverTypes'
<1> SUFFICES ASSUME DriverTypes, GuestCall \/ SubmitCount \/ SubmitSend PROVE DriverTypes'
  OBVIOUS
<1> USE GpuSame, PresentSame, LabelSame, QueueSame, PrepSame, TypeFacts DEF queueVars
<1>1. ASSUME NEW b \in Buffers \union {Blank}, SubmitFlip(b) PROVE DriverTypes'
  <2>1. guest' \in GuestType
    BY <1>1 DEF SubmitFlip, GuestGoto, GuestType, Slot
  <2> QED
    BY <1>1, <2>1 DEF SubmitFlip, DriverTypes
<1>2. ASSUME NEW r \in Rates, SetFlipRate(r) PROVE DriverTypes'
  <2>1. port' \in PortType
    BY <1>2, VideoOutAssumption DEF SetFlipRate, DriverTypes, PortType
  <2> QED
    BY <1>2, <2>1 DEF SetFlipRate, DriverTypes
<1>3. CASE Open
  <2>1. port' \in PortType
    BY <1>3 DEF Open, DriverTypes, PortType
  <2> QED
    BY <1>3, <2>1 DEF Open, DriverTypes
<1>4. CASE Close
  <2>1. LabelTypes'
    BY <1>4 DEF Close, LabelTypes
  <2> QED
    BY <1>4, <2>1 DEF Close, DriverTypes
<1>5. CASE UnregisterBuffers
  <2>1. port' \in PortType
    BY <1>5 DEF UnregisterBuffers, DriverTypes, PortType
  <2>2. gens' \in [Buffers -> 0..MaxGeneration]
    BY <1>5 DEF UnregisterBuffers, DriverTypes, LabelTypes
  <2>3. LabelTypes'
    BY <1>5, <2>2 DEF UnregisterBuffers, DriverTypes, LabelTypes, CancelRetirementForIndex
  <2> QED
    BY <1>5, <2>1, <2>3 DEF UnregisterBuffers, DriverTypes
<1>6. ASSUME NEW B \in SUBSET Buffers, RegisterBuffers(B) PROVE DriverTypes'
  <2>1. port' \in PortType
    BY <1>6 DEF RegisterBuffers, DriverTypes, PortType
  <2>2. gens' \in [Buffers -> 0..MaxGeneration] /\ label' \in [Buffers -> {0, 1}]
    BY <1>6 DEF RegisterBuffers, DriverTypes, LabelTypes
  <2>3. LabelTypes'
    BY <1>6, <2>2 DEF RegisterBuffers, DriverTypes, LabelTypes, CancelRetirementForIndex
  <2>4. GpuOK' /\ PrepOK'
    BY <1>6 DEF RegisterBuffers, DriverTypes, GpuOK, GpuType, SignalVoLabel, PrepOK, queueVars
  <2> QED
    BY <1>6, <2>1, <2>3, <2>4 DEF RegisterBuffers, DriverTypes
<1>7. ASSUME NEW t, NEW k \in {"flip", "vblank"}, AddPortEvent(t, k) \/ DeletePortEvent(t, k)
      PROVE  DriverTypes'
  <2>1. port' \in PortType
    BY <1>7 DEF AddPortEvent, DeletePortEvent, DriverTypes, PortType, Keys
  <2> QED
    BY <1>7, <2>1 DEF AddPortEvent, DeletePortEvent, DriverTypes
<1>8. CASE SubmitCount
  <2>1. port' \in PortType /\ guest' \in GuestType
    BY <1>8 DEF SubmitCount, DriverTypes, PortType, GuestGoto, GuestType, Slot
  <2> QED
    BY <1>8, <2>1 DEF SubmitCount, DriverTypes
<1>9. CASE SubmitSend
  <2>1. QueueTypes' /\ guest' \in GuestType
    BY <1>9, QueueStays DEF SubmitSend, DriverTypes, QueueTypes, GuestGoto, GuestType, Slot
  <2> QED
    BY <1>9, <2>1 DEF SubmitSend, DriverTypes
<1> QED
  BY <1>1, <1>2, <1>3, <1>4, <1>5, <1>6, <1>7, <1>8, <1>9 DEF GuestCall

\* The GPU thread.
LEMMA GpuTypes == DriverTypes /\ GpuStep => DriverTypes'
<1> SUFFICES ASSUME DriverTypes, GpuStep PROVE DriverTypes'
  OBVIOUS
<1> USE GpuSame, PresentSame, LabelSame, QueueSame, PrepSame, TypeFacts DEF queueVars
<1>a. ASSUME NEW f \in Flips, SubmitFlipInternal(f), UNCHANGED requests
      PROVE  prep' \in Flips /\ requests' \in Seq(Flips) /\ queue' \in Seq(Flips)
  <2>1. prep' \in Flips /\ requests' \in Seq(Flips)
    BY <1>a DEF SubmitFlipInternal, DriverTypes, QueueTypes
  <2> QED
    BY <2>1, JoinFacts DEF queue
<1>1. CASE GpuCommand
  <2>1. Head(commands) \in Slot /\ Tail(commands) \in Seq(Slot)
    BY <1>1 DEF GpuCommand, DriverTypes, QueueTypes
  <2>2. Flip(Head(commands), FALSE, 0) \in Flips
    BY <2>1 DEF Flip, Flips
  <2>3. QueueTypes'
    BY <1>1, <1>a, <2>1, <2>2 DEF GpuCommand, QueueTypes
  <2>4. PrepOK'
    BY <1>1 DEF GpuCommand, PrepOK
  <2> QED
    BY <1>1, <2>3, <2>4 DEF GpuCommand, DriverTypes
<1>2. CASE GpuPass \/ GpuSleep
  <2>1. GpuOK' /\ PrepOK'
    BY <1>2 DEF GpuPass, GpuSleep, GpuGoto, DriverTypes, GpuOK, GpuType, PrepOK, queueVars
  <2> QED
    BY <1>2, <2>1 DEF GpuPass, GpuSleep, DriverTypes
<1>3. CASE RecordGpuLock
  <2>1. \A g \in 0..MaxGeneration : NextGeneration(g) \in 0..MaxGeneration
    BY VideoOutAssumption DEF NextGeneration
  <2>2. LabelTypes'
    BY <1>3, <2>1 DEF RecordGpuLock, DriverTypes, LabelTypes
  <2>3. GpuOK'
    BY <1>3 DEF RecordGpuLock, GpuGoto, DriverTypes, GpuOK, GpuType, Locking
  <2>p. PrepOK'
    BY <1>3 DEF RecordGpuLock, DriverTypes, PrepOK, queueVars
  <2> QED
    BY <1>3, <2>2, <2>3, <2>p DEF RecordGpuLock, DriverTypes
<1>4. CASE GpuWrite
  <2>1. LabelTypes'
    BY <1>4 DEF GpuWrite, DriverTypes, LabelTypes
  <2>2. GpuOK'
    BY <1>4 DEF GpuWrite, GpuGoto, DriverTypes, GpuOK, GpuType, Locking
  <2>p. PrepOK'
    BY <1>4 DEF GpuWrite, DriverTypes, PrepOK, queueVars
  <2> QED
    BY <1>4, <2>1, <2>2, <2>p DEF GpuWrite, DriverTypes
<1>5. CASE EopGeneration
  <2>1. gens[gpu.buf] \in 0..MaxGeneration
    BY <1>5 DEF EopGeneration, DriverTypes, GpuOK, LabelTypes
  <2>2. GpuOK'
    BY <1>5, <2>1 DEF EopGeneration, DriverTypes, GpuOK, GpuType, Locking
  <2>p. PrepOK'
    BY <1>5 DEF EopGeneration, DriverTypes, PrepOK, queueVars
  <2> QED
    BY <1>5, <2>2, <2>p DEF EopGeneration, DriverTypes
<1>6. CASE EopCount
  <2>1. port' \in PortType
    BY <1>6 DEF EopCount, DriverTypes, PortType
  <2>2. GpuOK'
    BY <1>6 DEF EopCount, GpuGoto, DriverTypes, GpuOK, GpuType, Locking
  <2>p. PrepOK'
    BY <1>6 DEF EopCount, DriverTypes, PrepOK, queueVars
  <2> QED
    BY <1>6, <2>1, <2>2, <2>p DEF EopCount, DriverTypes
<1>7. CASE EopPush
  <2>1. Flip(gpu.buf, TRUE, gpu.gen) \in Flips
    BY DEF Flip, Flips, DriverTypes, GpuOK, GpuType
  <2>2. QueueTypes'
    BY <1>7, <1>a, <2>1 DEF EopPush, DriverTypes, QueueTypes
  <2>3. GpuOK' /\ PrepOK'
    BY <1>7 DEF EopPush, GpuOK, GpuType, Slot, PrepOK
  <2> QED
    BY <1>7, <2>2, <2>3 DEF EopPush, DriverTypes
<1>8. ASSUME NEW b \in Buffers, GpuFrame(b) PROVE DriverTypes'
  <2>1. GpuOK' /\ PrepOK'
    BY <1>8 DEF GpuFrame, GpuOK, GpuType, Slot, PrepOK, queueVars
  <2> QED
    BY <1>8, <2>1 DEF GpuFrame, DriverTypes
<1>9. CASE PrepareFrame
  <2>1. prep' = NoFlip /\ requests' \in Seq(Flips)
    BY <1>9 DEF PrepareFrame, DriverTypes, QueueTypes
  <2>2. queue' \in Seq(Flips)
    BY <2>1, JoinFacts DEF queue
  <2> QED
    BY <1>9, <2>1, <2>2 DEF PrepareFrame, DriverTypes, QueueTypes, PrepOK
<1> QED
  BY <1>1, <1>2, <1>3, <1>4, <1>5, <1>6, <1>7, <1>8, <1>9 DEF GpuStep, GpuLock

\* The present thread.
LEMMA PresentTypes == DriverTypes /\ PresentStep => DriverTypes'
<1> SUFFICES ASSUME DriverTypes, PresentStep PROVE DriverTypes'
  OBVIOUS
<1> USE GpuSame, PresentSame, LabelSame, QueueSame, PrepSame, TypeFacts DEF queueVars
<1>1. CASE ApplyDueLabelRetirement
  <2>1. [present.req EXCEPT !.index = retire.index] \in Flips
    BY DEF DriverTypes, LabelTypes, RetireType, PresentOK, PresentType, Flips
  <2>2. PresentOK'
    BY <1>1, <2>1 DEF ApplyDueLabelRetirement, DriverTypes, PresentOK, PresentType
  <2>3. LabelTypes'
    BY <1>1 DEF ApplyDueLabelRetirement, DriverTypes, LabelTypes
  <2> QED
    BY <1>1, <2>2, <2>3 DEF ApplyDueLabelRetirement, DriverTypes
<1>2. CASE RetireLabel
  <2>1. PresentOK'
    BY <1>2 DEF RetireLabel, DriverTypes, PresentOK, PresentType
  <2>2. LabelTypes'
    BY <1>2 DEF RetireLabel, DriverTypes, LabelTypes
  <2> QED
    BY <1>2, <2>1, <2>2 DEF RetireLabel, DriverTypes
<1>3. CASE TakeRequest
  <2>1. requests # <<>> => Head(requests) \in Flips /\ Tail(requests) \in Seq(Flips)
    BY DEF DriverTypes, QueueTypes
  <2>2. QueueTypes'
    <3>1. requests' \in Seq(Flips) /\ prep' \in Flips
      BY <1>3, <2>1 DEF TakeRequest, DriverTypes, QueueTypes
    <3>2. queue' \in Seq(Flips)
      BY <3>1, JoinFacts DEF queue
    <3> QED
      BY <1>3, <3>1, <3>2 DEF TakeRequest, DriverTypes, QueueTypes
  <2>3. PresentOK'
    BY <1>3, <2>1 DEF TakeRequest, PresentGoto, DriverTypes, PresentOK, PresentType, Keys
  <2> QED
    BY <1>3, <2>2, <2>3 DEF TakeRequest, DriverTypes
<1>4. CASE FlipStatus
  <2>1. port' \in PortType
    BY <1>4 DEF FlipStatus, DriverTypes, PortType
  <2>2. PresentOK'
    BY <1>4 DEF FlipStatus, DriverTypes, PresentOK, PresentType, Keys
  <2> QED
    BY <1>4, <2>1, <2>2 DEF FlipStatus, DriverTypes
<1>5. CASE TriggerEvent
  <2>1. PresentOK'
    BY <1>5 DEF TriggerEvent, PresentGoto, DriverTypes, PresentOK, PresentType
  <2> QED
    BY <1>5, <2>1 DEF TriggerEvent, DriverTypes
<1>6. CASE NotifyEvent
  <2>1. PresentOK'
    BY <1>6 DEF NotifyEvent, PresentGoto, DriverTypes, PresentOK, PresentType
  <2> QED
    BY <1>6, <2>1 DEF NotifyEvent, DriverTypes
<1>7. CASE ResetPrevLabel
  <2>1. PresentOK'
    BY <1>7 DEF ResetPrevLabel, PresentGoto, DriverTypes, PresentOK, PresentType
  <2>2. LabelTypes'
    BY <1>7 DEF ResetPrevLabel, DriverTypes, LabelTypes
  <2> QED
    BY <1>7, <2>1, <2>2 DEF ResetPrevLabel, DriverTypes
<1>8. CASE CancelRetirement
  <2>1. PresentOK'
    BY <1>8 DEF CancelRetirement, PresentGoto, DriverTypes, PresentOK, PresentType
  <2>2. LabelTypes'
    BY <1>8 DEF CancelRetirement, CancelRetirementForIndex, DriverTypes, LabelTypes
  <2> QED
    BY <1>8, <2>1, <2>2 DEF CancelRetirement, DriverTypes
<1>9. CASE PresentSignal
  <2>1. PresentOK'
    BY <1>9 DEF PresentSignal, PresentGoto, DriverTypes, PresentOK, PresentType
  <2>2. GpuOK' /\ PrepOK'
    BY <1>9 DEF PresentSignal, SignalVoLabel, DriverTypes, GpuOK, GpuType, PrepOK, queueVars
  <2> QED
    BY <1>9, <2>1, <2>2 DEF PresentSignal, DriverTypes
<1>10. CASE SavePrev
  <2>1. present.req.index \in Slot /\ present.req.gen \in 0..MaxGeneration
    BY DEF DriverTypes, PresentOK, PresentType, Flips
  <2>2. port' \in PortType
    BY <1>10, <2>1 DEF SavePrev, DriverTypes, PortType
  <2>3. LabelTypes'
    BY <1>10, <2>1 DEF SavePrev, ScheduleRetirement, DriverTypes, LabelTypes, RetireType
  <2>4. PresentOK'
    BY <1>10 DEF SavePrev, PresentOK, PresentType, Keys
  <2> QED
    BY <1>10, <2>2, <2>3, <2>4 DEF SavePrev, DriverTypes
<1>11. CASE Vblank
  <2>1. port' \in PortType
    BY <1>11 DEF Vblank, DriverTypes, PortType
  <2>2. LabelTypes'
    BY <1>11 DEF Vblank, DriverTypes, LabelTypes, RetireType
  <2>3. PresentOK'
    BY <1>11 DEF Vblank, DriverTypes, PresentOK, PresentType
  <2> QED
    BY <1>11, <2>1, <2>2, <2>3 DEF Vblank, DriverTypes
<1>12. CASE DrawBlankFrame \/ Present
  <2>1. PresentOK'
    BY <1>12 DEF DrawBlankFrame, Present, PresentGoto, DriverTypes, PresentOK, PresentType, Keys
  <2> QED
    BY <1>12, <2>1 DEF DrawBlankFrame, Present, DriverTypes
<1> QED
  BY <1>1, <1>2, <1>3, <1>4, <1>5, <1>6, <1>7, <1>8, <1>9, <1>10, <1>11, <1>12 DEF PresentStep

LEMMA TypesNext == DriverTypes /\ [Next]_vars => DriverTypes'
<1> SUFFICES ASSUME DriverTypes, [Next]_vars PROVE DriverTypes'
  OBVIOUS
<1>1. CASE UNCHANGED vars
  BY <1>1, TypesSame DEF vars, driver, labelVars, queueVars, endVars
<1>2. CASE QueueStep
  BY <1>2, TypesSame, QueueStepAlone
<1>3. CASE GuestCall \/ SubmitCount \/ SubmitSend
  BY <1>3, GuestTypes
<1>4. CASE GpuStep \/ PresentStep
  BY <1>4, GpuTypes, PresentTypes
<1> QED
  BY <1>1, <1>2, <1>3, <1>4 DEF Next, Running, Ended

-----------------------------------------------------------------------------
\* What happens to the queue: SubmitFlipInternal adds to its end, a frame for the flip
\* there changes nothing, and the present thread takes its head.
LEMMA SubmitQueue ==
  ASSUME DriverTypes, prep = NoFlip, NEW f \in Flips, SubmitFlipInternal(f), ~aborted',
         UNCHANGED requests
  PROVE  queue' = Append(queue, f)
<1>1. f.index = Blank \/ f.index \in Buffers
  BY DEF SubmitFlipInternal, DriverTypes, PortType
<1>2. prep' = f
  BY DEF SubmitFlipInternal
<1>3. f # NoFlip
  BY <1>1, VideoOutAssumption DEF NoFlip, Flip, Blank
<1>4. queue = requests /\ queue' = Join(requests, f) /\ requests \in Seq(Flips)
  BY <1>2, JoinFacts DEF queue, DriverTypes, QueueTypes
<1> QED
  BY <1>3, <1>4, JoinFacts

LEMMA PreparedQueue ==
  ASSUME DriverTypes, PrepareFrame
  PROVE  queue' = queue
<1>1. requests' = Append(requests, prep) /\ prep' = NoFlip /\ prep # NoFlip
  BY DEF PrepareFrame
<1>2. queue = Append(requests, prep)
  BY <1>1, JoinFacts DEF queue, DriverTypes, QueueTypes
<1>3. queue' = requests'
  BY <1>1 DEF queue, Join
<1> QED
  BY <1>1, <1>2, <1>3

LEMMA TakenQueue ==
  ASSUME DriverTypes, requests # <<>>, requests' = Tail(requests), prep' = prep
  PROVE  queue # <<>> /\ queue' = Tail(queue) /\ Head(queue) = Head(requests)
BY JoinFacts DEF queue, DriverTypes, QueueTypes

\* flip_pending_num.  What the parts of InFlight are, and a step that moves none.
LEMMA InFlightParts ==
  ASSUME DriverTypes
  PROVE  /\ Len(commands) \in Nat /\ Len(queue) \in Nat /\ port.pending \in Int
         /\ At(guest, "send") \in 0..1 /\ At(gpu, "push") \in 0..1 /\ At(present, "show") \in 0..1
         /\ At(present, "status") \in 0..1
         /\ InFlight \in Nat /\ FlipLimit \in Nat
<1>1. Len(commands) \in Nat /\ Len(queue) \in Nat /\ port.pending \in Int
  BY DEF DriverTypes, QueueTypes, PortType
<1>2. /\ At(guest, "send") \in 0..1 /\ At(gpu, "push") \in 0..1 /\ At(present, "show") \in 0..1
      /\ At(present, "status") \in 0..1
  BY DEF At
<1> QED
  BY <1>1, <1>2, VideoOutAssumption DEF InFlight, FlipLimit

Quiet ==
  /\ InFlight' = InFlight /\ port'.pending = port.pending /\ forgotten' = forgotten
  /\ guest'.pc = "submit" => guest.pc = "submit"

LEMMA AccountsQuiet ==
  ASSUME DriverTypes, AccountsOK, ~aborted, UNCHANGED calls, Quiet
  PROVE  AccountsOK'
BY DEF AccountsOK, Quiet, FlipLimit

LEMMA GuestAccounts ==
  ASSUME DriverTypes, AccountsOK, ~aborted, UNCHANGED calls, GuestCall \/ SubmitCount \/ SubmitSend
  PROVE  AccountsOK'
<1> USE InFlightParts
<1>1. ASSUME NEW b \in Buffers \union {Blank}, SubmitFlip(b) PROVE AccountsOK'
  <2>1. InFlight < MaxOutstanding /\ InFlight' = InFlight /\ UNCHANGED <<port, forgotten, aborted>>
    BY <1>1, OutstandingIs
    DEF SubmitFlip, GuestGoto, InFlight, At, queueVars, queue, endVars
  <2> QED
    BY <2>1, VideoOutAssumption DEF AccountsOK, FlipLimit
<1>2. ASSUME NEW r, SetFlipRate(r) PROVE AccountsOK'
  BY <1>2, AccountsQuiet
  DEF SetFlipRate, Quiet, InFlight, queueVars, queue, endVars, DriverTypes, PortType
<1>3. CASE Open
  BY <1>3, AccountsQuiet DEF Open, Quiet, InFlight, queueVars, queue, endVars, DriverTypes, PortType
<1>4. CASE Close
  <2>1. /\ InFlight' = InFlight /\ port'.pending = 0 /\ guest'.pc # "submit" /\ "reset" \in calls
        /\ forgotten' = (forgotten \/ InFlight # 0)
    BY <1>4, OutstandingIs DEF Close, InFlight, queueVars, queue, ClosedPort
  <2> QED
    BY <2>1 DEF AccountsOK, FlipLimit
<1>5. CASE UnregisterBuffers
  BY <1>5, AccountsQuiet
  DEF UnregisterBuffers, Quiet, InFlight, queueVars, queue, endVars, DriverTypes, PortType
<1>6. ASSUME NEW B, RegisterBuffers(B) PROVE AccountsOK'
  <2>1. At(gpu, "push")' = At(gpu, "push")
    BY <1>6 DEF RegisterBuffers, SignalVoLabel, At, DriverTypes, GpuOK, GpuType
  <2> QED
    BY <1>6, <2>1, AccountsQuiet
    DEF RegisterBuffers, Quiet, InFlight, At, queueVars, queue, endVars, DriverTypes, PortType
<1>7. ASSUME NEW t, NEW k, AddPortEvent(t, k) \/ DeletePortEvent(t, k) PROVE AccountsOK'
  BY <1>7, AccountsQuiet
  DEF AddPortEvent, DeletePortEvent, Quiet, InFlight, queueVars, queue, endVars, DriverTypes, PortType
<1>8. CASE SubmitCount
  <2>0. UNCHANGED <<forgotten, aborted, commands, queue, gpu, present>> /\ guest.pc = "submit"
    BY <1>8 DEF SubmitCount, endVars, queueVars, queue
  <2>1. CASE QueueFull(guest.buf)
    <3>1. UNCHANGED port /\ guest'.pc = "idle"
      BY <1>8, <2>1 DEF SubmitCount, GuestGoto
    <3> QED
      BY <2>0, <3>1, AccountsQuiet DEF Quiet, InFlight, At
  <2>2. CASE ~QueueFull(guest.buf)
    <3>1. port'.pending = port.pending + 1 /\ guest'.pc = "send"
      BY <1>8, <2>2 DEF SubmitCount, GuestGoto, DriverTypes, PortType
    <3>2. InFlight' = InFlight + 1
      BY <2>0, <3>1 DEF InFlight, At
    <3> QED
      BY <2>0, <3>1, <3>2 DEF AccountsOK, FlipLimit
  <2> QED
    BY <2>1, <2>2
<1>9. CASE SubmitSend
  <2>1. Len(commands') = Len(commands) + 1 /\ guest.pc = "send" /\ guest'.pc = "idle"
    BY <1>9 DEF SubmitSend, GuestGoto, DriverTypes, QueueTypes, GuestType
  <2>2. UNCHANGED <<port, forgotten, queue, gpu, present>>
    BY <1>9, QueueStays DEF SubmitSend, endVars
  <2>3. InFlight' = InFlight
    BY <2>1, <2>2 DEF InFlight, At
  <2> QED
    BY <2>1, <2>2, <2>3, AccountsQuiet DEF Quiet
<1> QED
  BY <1>1, <1>2, <1>3, <1>4, <1>5, <1>6, <1>7, <1>8, <1>9 DEF GuestCall

LEMMA GpuAccounts ==
  ASSUME DriverTypes, AccountsOK, ~aborted, UNCHANGED calls, GpuStep
  PROVE  AccountsOK'
<1> USE InFlightParts
<1>a. aborted' => (forgotten' = forgotten => AccountsOK')
  BY DEF AccountsOK
<1>b. ASSUME NEW f \in Flips, SubmitFlipInternal(f), ~aborted', prep = NoFlip, UNCHANGED requests
      PROVE  Len(queue') = Len(queue) + 1
  BY <1>b, SubmitQueue DEF DriverTypes, QueueTypes
<1>1. CASE GpuCommand
  <2>1. UNCHANGED <<port, forgotten, guest, gpu, present>>
    BY <1>1 DEF GpuCommand
  <2>2. Len(commands') = Len(commands) - 1
    BY <1>1 DEF GpuCommand, DriverTypes, QueueTypes
  <2>3. CASE ~aborted'
    <3>0. Flip(Head(commands), FALSE, 0) \in Flips
      BY <1>1, TypeFacts DEF GpuCommand, DriverTypes, QueueTypes, Flip, Flips
    <3>1. Len(queue') = Len(queue) + 1
      BY <1>1, <1>b, <2>3, <3>0 DEF GpuCommand
    <3>2. InFlight' = InFlight
      BY <2>1, <2>2, <3>1 DEF InFlight, At
    <3> QED
      BY <2>1, <3>2, AccountsQuiet DEF Quiet
  <2> QED
    BY <2>1, <2>3, <1>a
<1>2. CASE GpuPass \/ GpuSleep \/ RecordGpuLock \/ GpuWrite \/ EopGeneration
  <2>1. UNCHANGED <<port, forgotten, guest, present, commands, queue>>
    BY <1>2, QueueStays DEF GpuPass, GpuSleep, RecordGpuLock, GpuWrite, EopGeneration, endVars, queueVars, queue
  <2>2. gpu.pc # "push" /\ gpu'.pc # "push"
    BY <1>2 DEF GpuPass, GpuSleep, RecordGpuLock, GpuWrite, EopGeneration, GpuGoto, DriverTypes,
                GpuOK, GpuType
  <2> QED
    BY <2>1, <2>2, AccountsQuiet DEF Quiet, InFlight, At
<1>3. CASE EopCount
  <2>0. UNCHANGED <<forgotten, commands, queue, guest, present>> /\ gpu.pc = "count"
    BY <1>3, QueueStays DEF EopCount, queueVars, queue
  <2>1. CASE ~aborted'
    <3>1. port'.pending = port.pending + 1 /\ gpu'.pc = "push" /\ ~QueueFull(gpu.buf)
      BY <1>3, <2>1 DEF EopCount, GpuGoto, DriverTypes, PortType, GpuOK, GpuType
    <3>2. InFlight' = InFlight + 1
      BY <2>0, <3>1 DEF InFlight, At
    <3>3. gpu.buf # Blank
      BY <2>0, VideoOutAssumption DEF DriverTypes, GpuOK, Blank
    <3>4. port.pending <= MaxPending
      BY <3>1, <3>3, VideoOutAssumption DEF QueueFull
    <3> QED
      BY <2>0, <3>1, <3>2, <3>4, VideoOutAssumption DEF AccountsOK, FlipLimit
  <2> QED
    BY <2>0, <2>1, <1>a
<1>4. CASE EopPush
  <2>1. UNCHANGED <<port, forgotten, guest, present, commands>> /\ gpu.pc = "push" /\ gpu'.pc = "idle"
    BY <1>4 DEF EopPush
  <2>2. CASE ~aborted'
    <3>0. Flip(gpu.buf, TRUE, gpu.gen) \in Flips /\ prep = NoFlip
      BY <2>1 DEF Flip, Flips, DriverTypes, GpuOK, GpuType, PrepOK
    <3>1. Len(queue') = Len(queue) + 1
      BY <1>4, <1>b, <2>2, <3>0 DEF EopPush
    <3>2. InFlight' = InFlight
      BY <2>1, <3>1 DEF InFlight, At
    <3> QED
      BY <2>1, <3>2, AccountsQuiet DEF Quiet
  <2> QED
    BY <2>1, <2>2, <1>a
<1>5. ASSUME NEW b, GpuFrame(b) PROVE AccountsOK'
  <2>1. UNCHANGED <<port, forgotten, guest, present, commands, queue>>
    BY <1>5, QueueStays DEF GpuFrame, endVars, queueVars, queue
  <2>2. gpu.pc # "push" /\ gpu'.pc # "push"
    BY <1>5 DEF GpuFrame
  <2> QED
    BY <2>1, <2>2, AccountsQuiet DEF Quiet, InFlight, At
<1>6. CASE PrepareFrame
  <2>1. UNCHANGED <<port, forgotten, guest, gpu, present, commands, queue>>
    BY <1>6, PreparedQueue DEF PrepareFrame, endVars
  <2> QED
    BY <2>1, AccountsQuiet DEF Quiet, InFlight, At
<1> QED
  BY <1>1, <1>2, <1>3, <1>4, <1>5, <1>6 DEF GpuStep, GpuLock

LEMMA PresentAccounts ==
  ASSUME DriverTypes, AccountsOK, ~aborted, UNCHANGED calls, PresentStep
  PROVE  AccountsOK'
<1> USE InFlightParts
<1>0. UNCHANGED <<forgotten, aborted, guest, commands>>
  BY DEF PresentStep, ApplyDueLabelRetirement, RetireLabel, TakeRequest, DrawBlankFrame, Present, FlipStatus, TriggerEvent,
         NotifyEvent, ResetPrevLabel, CancelRetirement, PresentSignal, SavePrev, Vblank, endVars,
         queueVars, queue
<1>1. At(gpu, "push")' = At(gpu, "push")
  BY DEF PresentStep, ApplyDueLabelRetirement, RetireLabel, TakeRequest, DrawBlankFrame, Present, FlipStatus, TriggerEvent,
         NotifyEvent, ResetPrevLabel, CancelRetirement, PresentSignal, SavePrev, Vblank,
         SignalVoLabel, At, DriverTypes, GpuOK, GpuType
<1>2. CASE TakeRequest
  <2>1. UNCHANGED port /\ present.pc = "take"
    BY <1>2 DEF TakeRequest
  <2>2. \/ Len(queue') = Len(queue) - 1 /\ present'.pc = "show"
        \/ Len(queue') = Len(queue) /\ present'.pc \in {"trigger", "blank"}
    <3>1. \/ requests # <<>> /\ requests' = Tail(requests) /\ prep' = prep /\ present'.pc = "show"
          \/ UNCHANGED <<requests, prep>> /\ present'.pc \in {"trigger", "blank"}
      BY <1>2 DEF TakeRequest, PresentGoto, DriverTypes, PresentOK, PresentType
    <3>2. CASE requests # <<>> /\ requests' = Tail(requests) /\ prep' = prep /\ present'.pc = "show"
      <4>1. queue # <<>> /\ queue' = Tail(queue) /\ queue \in Seq(Flips)
        BY <3>2, TakenQueue DEF DriverTypes, QueueTypes
      <4> QED
        BY <3>2, <4>1
    <3> QED
      BY <3>1, <3>2, QueueStays
  <2>3. InFlight' = InFlight
    BY <1>0, <1>1, <2>1, <2>2 DEF InFlight, At
  <2> QED
    BY <1>0, <2>1, <2>3, AccountsQuiet DEF Quiet
<1>3. CASE FlipStatus
  <2>1. port'.pending = port.pending - 1 /\ present.pc = "status" /\ present'.pc = "trigger"
    BY <1>3 DEF FlipStatus, DriverTypes, PortType, PresentOK, PresentType
  <2>2. UNCHANGED queue
    BY <1>3, QueueStays DEF FlipStatus, queueVars
  <2>3. InFlight' = InFlight - 1
    BY <1>0, <1>1, <2>1, <2>2 DEF InFlight, At
  <2> QED
    BY <1>0, <2>1, <2>3 DEF AccountsOK, FlipLimit
<1>5. CASE Present
  <2>1. UNCHANGED <<port, queue>> /\ present.pc = "show" /\ present'.pc = "status"
    BY <1>5, QueueStays DEF Present, PresentGoto, queueVars, DriverTypes, PresentOK, PresentType
  <2>2. InFlight' = InFlight
    BY <1>0, <1>1, <2>1 DEF InFlight, At
  <2> QED
    BY <1>0, <2>1, <2>2, AccountsQuiet DEF Quiet
<1>4. CASE ~TakeRequest /\ ~Present /\ ~FlipStatus
  <2>1. UNCHANGED queue
    BY <1>4, QueueStays
    DEF PresentStep, ApplyDueLabelRetirement, RetireLabel, DrawBlankFrame, TriggerEvent, NotifyEvent,
        ResetPrevLabel, CancelRetirement, PresentSignal, SavePrev, Vblank, queueVars
  <2>2. port'.pending = port.pending
    BY <1>4
    DEF PresentStep, ApplyDueLabelRetirement, RetireLabel, DrawBlankFrame, TriggerEvent, NotifyEvent,
        ResetPrevLabel, CancelRetirement, PresentSignal, SavePrev, Vblank, DriverTypes, PortType
  <2>3. present.pc \notin {"show", "status"} /\ present'.pc \notin {"show", "status"}
    <3>1. present = [pc |-> present.pc, req |-> present.req, key |-> present.key]
      BY DEF DriverTypes, PresentOK, PresentType
    <3>2. CASE TriggerEvent \/ NotifyEvent
      BY <3>2 DEF TriggerEvent, NotifyEvent, PresentGoto, DriverTypes, PresentOK, PresentType
    <3>3. CASE RetireLabel \/ Vblank
      BY <3>3 DEF RetireLabel, Vblank, DriverTypes, PresentOK, PresentType
    <3>6. CASE SavePrev
      BY <3>6 DEF SavePrev
    <3>7. CASE DrawBlankFrame
      BY <3>1, <3>7 DEF DrawBlankFrame
    <3>5. CASE ApplyDueLabelRetirement
      BY <3>5 DEF ApplyDueLabelRetirement, DriverTypes, PresentOK, PresentType
    <3>4. CASE ResetPrevLabel \/ CancelRetirement \/ PresentSignal
      BY <3>1, <3>4 DEF ResetPrevLabel, CancelRetirement, PresentSignal, PresentGoto
    <3> QED
      BY <1>4, <3>2, <3>3, <3>4, <3>5, <3>6, <3>7 DEF PresentStep
  <2>4. InFlight' = InFlight
    BY <1>0, <1>1, <2>1, <2>3 DEF InFlight, At
  <2> QED
    BY <1>0, <2>2, <2>4, AccountsQuiet DEF Quiet
<1> QED
  BY <1>2, <1>3, <1>4, <1>5

LEMMA AccountsInit == Init => AccountsOK
<1> SUFFICES ASSUME Init PROVE AccountsOK
  OBVIOUS
<1>1. port.pending = 0
  BY DEF Init, ClosedPort
<1>2. InFlight = 0
  <2>1. queue = <<>>
    BY DEF Init, queue, Join
  <2> QED
    BY <2>1 DEF Init, InFlight, At
<1> QED
  BY <1>1, <1>2, VideoOutAssumption DEF Init, AccountsOK, FlipLimit

LEMMA AccountsNext == DriverTypes /\ AccountsOK /\ [Next]_vars => AccountsOK'
<1> SUFFICES ASSUME DriverTypes, AccountsOK, [Next]_vars PROVE AccountsOK'
  OBVIOUS
<1>1. CASE UNCHANGED vars
  BY <1>1, QueueStays DEF vars, AccountsOK, InFlight, At, FlipLimit, queueVars, endVars
<1>2. CASE ~aborted /\ UNCHANGED calls /\ QueueStep
  BY <1>2, QueueStays, QueueStepAlone, AccountsQuiet DEF driver, Quiet, InFlight, At
<1>3. CASE ~aborted /\ UNCHANGED calls /\ (GuestCall \/ SubmitCount \/ SubmitSend)
  BY <1>3, GuestAccounts
<1>4. CASE ~aborted /\ UNCHANGED calls /\ (GpuStep \/ PresentStep)
  BY <1>4, GpuAccounts, PresentAccounts
<1> QED
  BY <1>1, <1>2, <1>3, <1>4 DEF Next, Running, Ended

LEMMA CountersInvariant == Spec => []Counters
<1>1. Init => Counters
  BY TypesInit, AccountsInit DEF Counters
<1>2. Counters /\ [Next]_vars => Counters'
  BY TypesNext, AccountsNext DEF Counters
<1> QED
  BY <1>1, <1>2, PTL DEF Spec

\* flip_pending_num (driver.cpp:328-403, 273-285) is the number of flips submitted
\* and not yet shown, for any guest programs, buffers and limits, until the port is
\* closed with flips outstanding or an ASSERT fails.
THEOREM FlipsAreAccounted == Spec => []FlipsAccounted
<1>1. Counters => FlipsAccounted
  BY OutstandingIs DEF Counters, AccountsOK, FlipsAccounted
<1> QED
  BY <1>1, CountersInvariant, PTL

-----------------------------------------------------------------------------
\* The presentation frames in use are no more than there are.
FramesOK == Len(requests) + At(present, "show") <= Frames

LEMMA FramesHeldIs == FramesHeld = Len(requests) + At(present, "show")
<1>1. ASSUME NEW x PROVE Cardinality({p \in {x} : p = "show"}) = IF x = "show" THEN 1 ELSE 0
  BY CountOne
<1> QED
  BY <1>1 DEF FramesHeld, At

LEMMA FramesNext == DriverTypes /\ FramesOK /\ [Next]_vars => FramesOK'
<1> SUFFICES ASSUME DriverTypes, FramesOK, [Next]_vars PROVE FramesOK'
  OBVIOUS
<1>p. /\ present = [pc |-> present.pc, req |-> present.req, key |-> present.key]
      /\ Len(requests) \in Nat /\ At(present, "show") \in 0..1
  BY DEF DriverTypes, PresentOK, PresentType, QueueTypes, At
<1>1. CASE UNCHANGED <<requests, present>>
  BY <1>1 DEF FramesOK, At
<1>2. CASE PrepareFrame
  <2>1. Len(requests') = Len(requests) + 1 /\ UNCHANGED present /\ FramesHeld < Frames
    BY <1>2 DEF PrepareFrame, DriverTypes, QueueTypes
  <2> QED
    BY <1>p, <2>1, FramesHeldIs, FramesAssumption DEF FramesOK, At
<1>3. CASE TakeRequest
  <2>1. present.pc = "take"
    BY <1>3 DEF TakeRequest
  <2>2. \/ Len(requests') = Len(requests) - 1 /\ present'.pc = "show"
        \/ requests' = requests /\ present'.pc \in {"trigger", "blank"}
    <3>1. CASE requests # <<>> /\ requests' = Tail(requests) /\ present'.pc = "show"
      <4>1. Len(Tail(requests)) = Len(requests) - 1
        BY <3>1 DEF DriverTypes, QueueTypes
      <4> QED
        BY <3>1, <4>1
    <3>2. CASE requests' = requests /\ present'.pc \in {"trigger", "blank"}
      BY <3>2
    <3> QED
      BY <1>3, <1>p, <3>1, <3>2 DEF TakeRequest, PresentGoto
  <2> QED
    BY <1>p, <2>1, <2>2, FramesAssumption DEF FramesOK, At
<1>4. CASE PresentStep /\ ~TakeRequest
  <2>1. UNCHANGED requests
    BY <1>4
    DEF PresentStep, ApplyDueLabelRetirement, RetireLabel, DrawBlankFrame, Present, FlipStatus,
        TriggerEvent, NotifyEvent, ResetPrevLabel, CancelRetirement, PresentSignal, SavePrev, Vblank,
        queueVars
  <2>2. present'.pc # "show"
    <3>1. CASE TriggerEvent \/ NotifyEvent
      BY <3>1, <1>p
      DEF TriggerEvent, NotifyEvent, PresentGoto, DriverTypes, PresentOK
    <3>2. CASE ApplyDueLabelRetirement \/ RetireLabel \/ FlipStatus \/ Vblank
      BY <3>2, <1>p DEF ApplyDueLabelRetirement, RetireLabel, FlipStatus, Vblank
    <3>3. CASE DrawBlankFrame \/ Present \/ ResetPrevLabel \/ CancelRetirement \/ PresentSignal
      BY <3>3, <1>p
      DEF DrawBlankFrame, Present, ResetPrevLabel, CancelRetirement, PresentSignal, PresentGoto
    <3>4. CASE SavePrev
      BY <3>4 DEF SavePrev
    <3> QED
      BY <1>4, <3>1, <3>2, <3>3, <3>4 DEF PresentStep
  <2> QED
    BY <1>p, <2>1, <2>2, FramesAssumption DEF FramesOK, At
<1>5. CASE UNCHANGED vars \/ QueueStep
  BY <1>1, <1>5, QueueStepAlone DEF vars, driver, queueVars
<1>6. CASE GuestCall \/ SubmitCount \/ SubmitSend
  <2>1. UNCHANGED <<requests, present>>
    BY <1>6 DEF GuestCall, SubmitFlip, SetFlipRate, Open, Close, UnregisterBuffers,
                RegisterBuffers, AddPortEvent, DeletePortEvent, SubmitCount, SubmitSend, queueVars
  <2> QED
    BY <1>1, <2>1
<1>7. CASE GpuStep /\ ~PrepareFrame
  <2>1. UNCHANGED <<requests, present>>
    BY <1>7 DEF GpuStep, GpuLock, GpuCommand, GpuPass, GpuSleep, GpuFrame, RecordGpuLock, GpuWrite,
                EopGeneration, EopCount, EopPush, queueVars
  <2> QED
    BY <1>1, <2>1
<1> QED
  BY <1>2, <1>3, <1>4, <1>5, <1>6, <1>7 DEF Next, Running, Ended

\* A program of frames alone: what the GPU thread works on stays registered, and
\* only its own flips are on their way.
FramesAlone == "flip" \notin calls /\ "reset" \notin calls
AcceptOK ==
  FramesAlone =>
    /\ ~aborted /\ guest.pc = "idle" /\ commands = <<>>
    /\ gpu.pc # "idle" => gpu.buf \in port.reg

\* When the flip interrupt comes, the flips outstanding hold all frames but one at most:
\* the one whose frame was freed and that is not counted down yet.
LEMMA EopCountAccepts ==
  ASSUME Counters, FramesOK, AcceptOK, FramesAlone, gpu.pc = "count"
  PROVE  ~QueueFull(gpu.buf)
<1>1. prep = NoFlip /\ port.pending = InFlight
  BY DEF Counters, DriverTypes, PrepOK, AccountsOK, AcceptOK, FramesAlone
<1>2. queue = requests
  BY <1>1 DEF queue, Join
<1>3. Len(commands) = 0 /\ At(guest, "send") = 0 /\ At(gpu, "push") = 0
  BY DEF AcceptOK, At
<1>4. At(present, "show") \in 0..1 /\ At(present, "status") \in 0..1 /\ Len(requests) \in Nat
  BY DEF At, Counters, DriverTypes, QueueTypes
<1>5. port.pending = Len(requests) + At(present, "show") + At(present, "status")
  BY <1>1, <1>2, <1>3, <1>4 DEF InFlight
<1>6. port.pending <= MaxPending
  BY <1>4, <1>5, FramesAssumption, VideoOutAssumption DEF FramesOK
<1> QED
  BY <1>5, <1>4, <1>6, VideoOutAssumption DEF QueueFull

LEMMA AcceptNext ==
  ASSUME Counters, FramesOK, AcceptOK, [Next]_vars
  PROVE  AcceptOK'
<1>1. CASE UNCHANGED vars
  BY <1>1 DEF vars, AcceptOK, FramesAlone, queueVars, endVars
<1>2. CASE Running(QueueStep \/ GuestCall \/ SubmitCount \/ SubmitSend \/ GpuStep \/ PresentStep)
  <2> SUFFICES ASSUME FramesAlone PROVE AcceptOK'
    BY <1>2 DEF Running, AcceptOK, FramesAlone
  <2>0. /\ ~aborted /\ guest.pc = "idle" /\ commands = <<>>
        /\ gpu.pc # "idle" => gpu.buf \in port.reg
    BY DEF AcceptOK
  <2>1. ASSUME UNCHANGED <<aborted, guest, commands, gpu>>, port'.reg = port.reg PROVE AcceptOK'
    BY <2>0, <2>1 DEF AcceptOK
  <2>2. CASE QueueStep
    BY <2>1, <2>2, QueueStepAlone DEF driver
  <2>3. CASE GuestCall \/ SubmitCount \/ SubmitSend
    <3>1. UNCHANGED <<aborted, guest, commands, gpu>> /\ port'.reg = port.reg
      <4>1. ~SubmitCount /\ ~SubmitSend
        BY <2>0 DEF SubmitCount, SubmitSend
      <4>2. CASE \E r \in Rates : SetFlipRate(r)
        BY <4>2 DEF SetFlipRate, queueVars, endVars, Counters, DriverTypes, PortType
      <4>3. CASE \E t \in Threads, k \in {"flip", "vblank"} :
                   AddPortEvent(t, k) \/ DeletePortEvent(t, k)
        BY <4>3 DEF AddPortEvent, DeletePortEvent, queueVars, endVars, Counters, DriverTypes,
                    PortType
      <4>4. ~\E b \in Buffers \union {Blank} : SubmitFlip(b)
        BY DEF FramesAlone, SubmitFlip
      <4>5. ~Open /\ ~Close /\ ~UnregisterBuffers /\ ~\E B \in SUBSET Buffers : RegisterBuffers(B)
        BY DEF FramesAlone, Open, Close, UnregisterBuffers, RegisterBuffers
      <4> QED
        BY <2>3, <4>1, <4>2, <4>3, <4>4, <4>5 DEF GuestCall
    <3> QED
      BY <2>1, <3>1
  <2>4. CASE PresentStep
    <3>1. UNCHANGED <<aborted, guest, commands>> /\ port'.reg = port.reg
      BY <2>4
      DEF PresentStep, ApplyDueLabelRetirement, RetireLabel, TakeRequest, DrawBlankFrame, Present,
          FlipStatus, TriggerEvent, NotifyEvent, ResetPrevLabel, CancelRetirement, PresentSignal,
          SavePrev, Vblank, queueVars, endVars, Counters, DriverTypes, PortType
    <3>2. gpu' = gpu \/ (gpu.pc = "asleep" /\ gpu'.buf = gpu.buf)
      BY <2>4
      DEF PresentStep, ApplyDueLabelRetirement, RetireLabel, TakeRequest, DrawBlankFrame, Present,
          FlipStatus, TriggerEvent, NotifyEvent, ResetPrevLabel, CancelRetirement, PresentSignal,
          SignalVoLabel, SavePrev, Vblank, Counters, DriverTypes, GpuOK, GpuType
    <3> QED
      BY <2>0, <3>1, <3>2 DEF AcceptOK
  <2>5. CASE GpuStep
    <3>0. UNCHANGED guest /\ ~GpuCommand
      BY <2>0, <2>5 DEF GpuStep, GpuLock, GpuCommand, GpuPass, GpuSleep, GpuFrame, RecordGpuLock,
                        GpuWrite, EopGeneration, EopCount, EopPush, PrepareFrame
    <3>1. CASE GpuPass \/ GpuSleep \/ RecordGpuLock \/ GpuWrite \/ EopGeneration
      <4>1. UNCHANGED <<aborted, commands, port>>
        BY <3>1 DEF GpuPass, GpuSleep, RecordGpuLock, GpuWrite, EopGeneration, queueVars, endVars
      <4>2. gpu.pc # "idle" /\ gpu'.buf = gpu.buf
        BY <3>1 DEF GpuPass, GpuSleep, RecordGpuLock, GpuWrite, EopGeneration, GpuGoto, Counters,
                    DriverTypes, GpuOK, GpuType
      <4> QED
        BY <2>0, <3>0, <4>1, <4>2 DEF AcceptOK
    <3>2. CASE PrepareFrame
      BY <2>1, <3>2 DEF PrepareFrame, endVars
    <3>3. ASSUME NEW b \in Buffers, GpuFrame(b) PROVE AcceptOK'
      BY <2>0, <3>0, <3>3 DEF GpuFrame, queueVars, endVars, AcceptOK
    <3>4. CASE EopCount
      <4>1. gpu.pc = "count"
        BY <3>4 DEF EopCount
      <4>2. ~QueueFull(gpu.buf)
        BY <4>1, EopCountAccepts
      <4>3. port'.reg = port.reg /\ gpu'.buf = gpu.buf /\ UNCHANGED <<aborted, commands>>
        BY <3>4, <4>2 DEF EopCount, GpuGoto, queueVars, Counters, DriverTypes, PortType, GpuOK,
                          GpuType
      <4> QED
        BY <2>0, <3>0, <4>1, <4>3 DEF AcceptOK
    <3>5. CASE EopPush
      <4>1. gpu.buf \in port.reg /\ Flip(gpu.buf, TRUE, gpu.gen).index = gpu.buf
        BY <2>0, <3>5 DEF EopPush, Flip
      <4>2. UNCHANGED <<aborted, commands>> /\ gpu'.pc = "idle"
        BY <3>5, <4>1 DEF EopPush, SubmitFlipInternal
      <4> QED
        BY <2>0, <3>0, <4>2 DEF AcceptOK
    <3> QED
      BY <2>5, <3>0, <3>1, <3>2, <3>3, <3>4, <3>5 DEF GpuStep, GpuLock
  <2> QED
    BY <1>2, <2>2, <2>3, <2>4, <2>5 DEF Running
<1> QED
  BY <1>1, <1>2 DEF Next, Ended

\* The assertion of the flip interrupt's handler (video_out.cpp:393) never fails for a
\* program that flips from the command stream alone and keeps its buffers: for any
\* buffers, frames and limits with fewer frames than flips that may be pending.
THEOREM EopAccepted == Spec => []EopFlipAccepted
<1>1. Init => Counters /\ FramesOK /\ AcceptOK
  <2>1. Init => FramesOK /\ AcceptOK
    <3> SUFFICES ASSUME Init PROVE FramesOK /\ AcceptOK
      OBVIOUS
    <3>1. Len(requests) = 0 /\ At(present, "show") = 0
      BY DEF Init, At
    <3>2. AcceptOK
      BY DEF Init, AcceptOK
    <3> QED
      BY <3>1, <3>2, FramesAssumption DEF FramesOK
  <2> QED
    BY <2>1, TypesInit, AccountsInit DEF Counters
<1>2. Counters /\ FramesOK /\ AcceptOK /\ [Next]_vars => (Counters /\ FramesOK /\ AcceptOK)'
  <2> SUFFICES ASSUME Counters, FramesOK, AcceptOK, [Next]_vars
               PROVE  Counters' /\ FramesOK' /\ AcceptOK'
    OBVIOUS
  <2>1. DriverTypes' /\ AccountsOK'
    BY TypesNext, AccountsNext DEF Counters
  <2> QED
    BY <2>1, FramesNext, AcceptNext DEF Counters
<1>3. AcceptOK => EopFlipAccepted
  BY DEF AcceptOK, FramesAlone, EopFlipAccepted
<1> QED
  BY <1>1, <1>2, <1>3, PTL DEF Spec

-----------------------------------------------------------------------------
\* Generations.
LEMMA DistanceFacts ==
  ASSUME NEW g \in 0..MaxGeneration, NEW h \in 0..MaxGeneration, g # 0, h # 0
  PROVE  /\ Distance(g, h) \in Nat /\ Distance(g, h) < MaxGeneration
         /\ Distance(g, h) = 0 <=> g = h
BY VideoOutAssumption DEF Distance

LEMMA DistanceNext ==
  ASSUME NEW g \in 0..MaxGeneration, NEW h \in 0..MaxGeneration, g # 0, h # 0,
         Distance(g, h) + 1 < MaxGeneration
  PROVE  Distance(g, NextGeneration(h)) = Distance(g, h) + 1
BY VideoOutAssumption DEF Distance, NextGeneration

LEMMA NextGenerationType ==
  ASSUME NEW h \in 0..MaxGeneration
  PROVE  NextGeneration(h) \in 0..MaxGeneration /\ NextGeneration(h) # 0
BY VideoOutAssumption DEF NextGeneration

LEMMA AgeType ==
  ASSUME DriverTypes, NEW f \in Flips, f.index \in Buffers, f.gen # 0, gens[f.index] # 0
  PROVE  Age(f) \in Nat /\ (Age(f) = 0 <=> f.gen = gens[f.index])
<1>1. f.gen \in 0..MaxGeneration /\ gens[f.index] \in 0..MaxGeneration
  BY DEF Flips, DriverTypes, LabelTypes
<1> QED
  BY <1>1, DistanceFacts DEF Age

-----------------------------------------------------------------------------
\* RetireOK: between SavePrev and the next ApplyDueLabelRetirement there is no flip.
LEMMA RetireNext == DriverTypes /\ RetireOK /\ [Next]_vars => RetireOK'
<1> SUFFICES ASSUME DriverTypes, RetireOK, [Next]_vars PROVE RetireOK'
  OBVIOUS
<1>p. present = [pc |-> present.pc, req |-> present.req, key |-> present.key]
  BY DEF DriverTypes, PresentOK, PresentType
<1>r. retire = [index |-> retire.index, gen |-> retire.gen, left |-> retire.left,
                active |-> retire.active] /\ retire.left \in {0, 1} /\ retire.active \in BOOLEAN
  BY DEF DriverTypes, LabelTypes, RetireType
<1>n. NoRetirement.active = FALSE
  BY DEF NoRetirement
<1>1. CASE UNCHANGED <<present, retire>>
  BY <1>1 DEF RetireOK
<1>2. CASE UNCHANGED present /\ retire' = NoRetirement
  BY <1>2, <1>n DEF RetireOK
<1>3. CASE GuestCall
  <2>1. UNCHANGED present
    BY <1>3 DEF GuestCall, SubmitFlip, SetFlipRate, Open, Close, UnregisterBuffers,
                RegisterBuffers, AddPortEvent, DeletePortEvent
  <2>2. retire' = retire \/ retire' = NoRetirement
    BY <1>3 DEF GuestCall, SubmitFlip, SetFlipRate, Open, Close, UnregisterBuffers,
                RegisterBuffers, AddPortEvent, DeletePortEvent, CancelRetirementForIndex, labelVars
  <2> QED
    BY <2>1, <2>2, <1>1, <1>2
<1>4. CASE SubmitCount \/ SubmitSend
  BY <1>4, <1>1 DEF SubmitCount, SubmitSend, labelVars
<1>5. CASE GpuStep
  <2>1. UNCHANGED <<present, retire>>
    BY <1>5 DEF GpuStep, GpuLock, GpuCommand, GpuPass, GpuSleep, GpuFrame, RecordGpuLock, GpuWrite,
                EopGeneration, EopCount, EopPush, PrepareFrame, labelVars
  <2> QED
    BY <2>1, <1>1
<1>6. CASE PresentStep
  <2>1. CASE ApplyDueLabelRetirement
    BY <2>1, <1>r, <1>n DEF ApplyDueLabelRetirement, RetireOK, Due
  <2>2. CASE RetireLabel \/ TakeRequest \/ DrawBlankFrame \/ Present \/ FlipStatus
    <3>1. present.pc \in {"retire", "take", "blank", "show", "status"} /\ UNCHANGED retire
      BY <2>2 DEF RetireLabel, TakeRequest, DrawBlankFrame, Present, FlipStatus, labelVars
    <3> QED
      BY <3>1 DEF RetireOK
  <2>3. CASE TriggerEvent \/ NotifyEvent
    <3>1. UNCHANGED retire /\ present.pc \in {"trigger", "notify"}
      BY <2>3 DEF TriggerEvent, NotifyEvent, labelVars
    <3>2. present'.key = present.key /\ (present'.pc = "notify" \/ present'.pc = present.key)
      BY <2>3, <1>p DEF TriggerEvent, NotifyEvent, PresentGoto
    <3> QED
      BY <3>1, <3>2 DEF RetireOK
  <2>4. CASE ResetPrevLabel \/ PresentSignal
    <3>1. present.pc \in {"flip", "retired", "signal"} /\ UNCHANGED retire
      BY <2>4 DEF ResetPrevLabel, PresentSignal, labelVars
    <3> QED
      BY <3>1 DEF RetireOK
  <2>5. CASE CancelRetirement
    BY <2>5, <1>n DEF CancelRetirement, CancelRetirementForIndex, RetireOK
  <2>6. CASE SavePrev
    BY <2>6 DEF SavePrev, RetireOK
  <2>7. CASE Vblank
    <3>1. present'.pc = "start"
      BY <2>7, <1>p DEF Vblank
    <3>2. retire'.left = 0
      BY <2>7, <1>r DEF Vblank
    <3> QED
      BY <3>1, <3>2 DEF RetireOK
  <2> QED
    BY <1>6, <2>1, <2>2, <2>3, <2>4, <2>5, <2>6, <2>7 DEF PresentStep
<1>7. CASE UNCHANGED vars
  BY <1>7, <1>1 DEF vars, labelVars
<1>8. CASE QueueStep
  BY <1>8, <1>1, QueueStepAlone DEF driver
<1> QED
  BY <1>3, <1>4, <1>5, <1>6, <1>7, <1>8 DEF Next, Running, Ended

-----------------------------------------------------------------------------
\* LabelsOK.  A step that locks no label and moves no request, and a step of which
\* this is true for the flips that were there.
SameLocks ==
  /\ UNCHANGED gens /\ LockBegun' = LockBegun
  /\ \A b : GpuLocked(b)' => GpuLocked(b)
Steady == UNCHANGED queue /\ SameLocks

LEMMA FlipSteady ==
  ASSUME Steady, NEW f, NEW i, FlipOK(f, i)
  PROVE  FlipOK(f, i)'
BY DEF Steady, SameLocks, FlipOK, Age

SameShown ==
  /\ Showing' => Showing /\ present'.req = present.req
  /\ retire'.active => /\ retire.active
                       /\ retire'.index = retire.index /\ retire'.gen = retire.gen

LEMMA ShownSame ==
  ASSUME ShownOK, ScheduledOK, SameShown, \A f : FlipOK(f, 0) => FlipOK(f, 0)'
  PROVE  ShownOK' /\ ScheduledOK'
<1>1. ASSUME Showing' PROVE FlipOK(present.req, 0)'
  <2>1. present'.req = present.req /\ FlipOK(present.req, 0)
    BY <1>1 DEF SameShown, ShownOK
  <2>2. PICK f : f = present.req
    OBVIOUS
  <2>3. FlipOK(f, 0) /\ f = present'.req
    BY <2>1, <2>2
  <2>4. FlipOK(f, 0)'
    BY <2>3
  <2> QED
    BY <2>3, <2>4 DEF FlipOK, Age
<1>2. ASSUME retire'.active PROVE FlipOK(Flip(retire.index, TRUE, retire.gen), 0)'
  <2>1. /\ Flip(retire'.index, TRUE, retire'.gen) = Flip(retire.index, TRUE, retire.gen)
        /\ FlipOK(Flip(retire.index, TRUE, retire.gen), 0)
    BY <1>2 DEF SameShown, ScheduledOK
  <2>2. PICK f : f = Flip(retire.index, TRUE, retire.gen)
    OBVIOUS
  <2>3. FlipOK(f, 0) /\ f = Flip(retire'.index, TRUE, retire'.gen)
    BY <2>1, <2>2
  <2>4. FlipOK(f, 0)'
    BY <2>3
  <2> QED
    BY <2>3, <2>4 DEF FlipOK, Age, Flip
<1> QED
  BY <1>1, <1>2 DEF ShownOK, ScheduledOK

LEMMA QueueSteady ==
  ASSUME QueueOK, Steady
  PROVE  QueueOK'
<1>1. ASSUME NEW i \in DOMAIN queue PROVE FlipOK(queue[i], i)'
  <2>1. PICK f : f = queue[i]
    OBVIOUS
  <2>2. FlipOK(f, i)'
    BY <2>1, FlipSteady DEF QueueOK
  <2>3. f = queue'[i]
    BY <2>1 DEF Steady
  <2> QED
    BY <2>2, <2>3 DEF FlipOK, Age
<1> QED
  BY <1>1 DEF QueueOK, Steady

\* What most steps come to.
LEMMA LabelsSteady ==
  ASSUME QueueOK, ShownOK, ScheduledOK, Steady, SameShown, LockOK'
  PROVE  LabelsOK'
BY FlipSteady, QueueSteady, ShownSame DEF LabelsOK

LEMMA SameGpu ==
  ASSUME LockOK, UNCHANGED <<gens, gpu>>
  PROVE  SameLocks /\ LockOK'
BY DEF LockOK, SameLocks, LockBegun, GpuLocked

\* The flips on their way are fewer than the generations.
WideGenerations == MaxGeneration > MaxOutstanding + MaxPending + 3

\* A state in which LabelsOK says something.
Live ==
  /\ DriverTypes /\ AccountsOK /\ RetireOK /\ WideGenerations
  /\ QueueOK /\ ShownOK /\ ScheduledOK /\ LockOK
  /\ "reset" \notin calls /\ ~aborted

LEMMA RequestsBounded ==
  ASSUME Live
  PROVE  Len(queue) \in Nat /\ Len(queue) + 1 < MaxGeneration
<1>1. InFlight <= FlipLimit
  BY DEF Live, AccountsOK
<1>2. Len(queue) <= InFlight /\ Len(queue) \in Nat
  BY InFlightParts DEF Live, InFlight
<1> QED
  BY <1>1, <1>2, InFlightParts, VideoOutAssumption DEF Live, WideGenerations, FlipLimit

\* MaybeRecordVideoOutLabelLock: every flip of the buffer is one lock older.
LEMMA RecordAges ==
  ASSUME Live, RecordGpuLock, NEW f \in Flips, NEW i \in Nat, f.eop, FlipOK(f, i)
  PROVE  /\ gens'[f.index] # 0 /\ Age(f) \in Nat
         /\ Age(f)' = IF f.index = gpu.buf THEN Age(f) + 1 ELSE Age(f)
<1>1. /\ f.index \in Buffers /\ f.gen # 0 /\ gens[f.index] # 0
      /\ Age(f) <= Len(queue) - i + LockBegun
  BY DEF FlipOK
<1>2. LockBegun = 0 /\ gpu.pc = "record"
  BY DEF RecordGpuLock, LockBegun, Locking
<1>3. Age(f) \in Nat
  BY <1>1, AgeType DEF Live
<1>4. Age(f) + 1 < MaxGeneration
  BY <1>1, <1>2, <1>3, RequestsBounded, VideoOutAssumption
<1>5. f.gen \in 0..MaxGeneration /\ gens[f.index] \in 0..MaxGeneration
  BY <1>1 DEF Flips, Live, DriverTypes, LabelTypes
<1>6. gens'[f.index] = IF f.index = gpu.buf THEN NextGeneration(gens[f.index]) ELSE gens[f.index]
  BY <1>1 DEF RecordGpuLock, Live, DriverTypes, LabelTypes
<1>7. Distance(f.gen, NextGeneration(gens[f.index])) = Age(f) + 1
  BY <1>1, <1>4, <1>5, DistanceNext DEF Age
<1> QED
  BY <1>1, <1>3, <1>5, <1>6, <1>7, NextGenerationType DEF Age

LEMMA RecordFlips ==
  ASSUME Live, RecordGpuLock, NEW f \in Flips, NEW i \in Nat, FlipOK(f, i)
  PROVE  FlipOK(f, i)'
<1> SUFFICES ASSUME f.eop PROVE FlipOK(f, i)'
  BY DEF FlipOK
<1>1. /\ f.index \in Buffers /\ f.gen # 0
      /\ Age(f) <= Len(queue) - i + LockBegun
      /\ \A j \in DOMAIN queue :
           j > i /\ queue[j].eop /\ queue[j].index = f.index => Age(queue[j]) < Age(f)
  BY DEF FlipOK
<1>2. LockBegun = 0 /\ LockBegun' = 1 /\ UNCHANGED queue /\ gpu'.buf = gpu.buf
  BY DEF RecordGpuLock, LockBegun, Locking, GpuGoto, queueVars, queue, Live, DriverTypes, GpuOK, GpuType
<1>3. /\ gens'[f.index] # 0 /\ Age(f) \in Nat
      /\ Age(f)' = IF f.index = gpu.buf THEN Age(f) + 1 ELSE Age(f)
  BY RecordAges
<1>4. Age(f)' <= Len(queue)' - i + LockBegun'
  BY <1>1, <1>2, <1>3, RequestsBounded
<1>5. GpuLocked(f.index)' => Age(f)' > 0
  BY <1>2, <1>3 DEF GpuLocked
<1>6. ASSUME NEW j \in DOMAIN queue', j > i, queue'[j].eop, queue'[j].index = f.index
      PROVE  Age(queue[j])' < Age(f)'
  <2>1. PICK q : q = queue[j]
    OBVIOUS
  <2>2. q \in Flips /\ q.eop /\ q.index = f.index /\ j \in DOMAIN queue /\ j \in Nat
    BY <1>2, <1>6, <2>1 DEF Live, DriverTypes, QueueTypes
  <2>3. FlipOK(q, j)
    BY <2>1, <2>2 DEF Live, QueueOK
  <2>4. Age(q) \in Nat /\ Age(q)' = IF q.index = gpu.buf THEN Age(q) + 1 ELSE Age(q)
    BY <2>2, <2>3, RecordAges
  <2>5. Age(q) < Age(f)
    BY <1>1, <1>6, <2>1, <2>2
  <2>6. Age(q)' < Age(f)'
    BY <1>3, <2>2, <2>4, <2>5
  <2> QED
    BY <1>2, <2>1, <2>6 DEF Age
<1>7. gens'[f.index] # 0
  BY <1>3
<1>8. \A j \in DOMAIN queue' :
         j > i /\ queue'[j].eop /\ queue'[j].index = f.index => Age(queue[j])' < Age(f)'
  BY <1>6
<1> QED
  BY <1>1, <1>4, <1>5, <1>7, <1>8 DEF FlipOK

\* What is shown or scheduled is a flip.
LEMMA ShownTypes ==
  ASSUME DriverTypes
  PROVE  present.req \in Flips /\ Flip(retire.index, TRUE, retire.gen) \in Flips
BY DEF DriverTypes, PresentOK, PresentType, LabelTypes, RetireType, Flip, Flips

LEMMA LabelsRecord ==
  ASSUME Live, RecordGpuLock
  PROVE  LabelsOK'
<1>1. UNCHANGED <<queue, present, retire>>
  BY DEF RecordGpuLock, queueVars, queue
<1>2. QueueOK'
  <2>1. ASSUME NEW i \in DOMAIN queue PROVE FlipOK(queue[i], i)'
    <3>1. PICK f : f = queue[i]
      OBVIOUS
    <3>2. f \in Flips /\ i \in Nat /\ FlipOK(f, i)
      BY <3>1 DEF Live, DriverTypes, QueueTypes, QueueOK
    <3>3. FlipOK(f, i)'
      BY <3>2, RecordFlips
    <3> QED
      BY <1>1, <3>1, <3>3 DEF FlipOK, Age
  <2> QED
    BY <1>1, <2>1 DEF QueueOK
<1>3. ShownOK'
  <2>1. PICK f : f = present.req
    OBVIOUS
  <2>2. f \in Flips /\ (Showing => FlipOK(f, 0))
    BY <2>1, ShownTypes DEF Live, ShownOK
  <2>3. Showing => FlipOK(f, 0)'
    BY <2>2, RecordFlips
  <2>4. Showing' = Showing
    BY <1>1 DEF Showing
  <2> QED
    BY <1>1, <2>1, <2>3, <2>4 DEF ShownOK, FlipOK, Age
<1>4. ScheduledOK'
  <2>1. PICK f : f = Flip(retire.index, TRUE, retire.gen)
    OBVIOUS
  <2>2. f \in Flips /\ (retire.active => FlipOK(f, 0))
    BY <2>1, ShownTypes DEF Live, ScheduledOK
  <2>3. retire.active => FlipOK(f, 0)'
    BY <2>2, RecordFlips
  <2>4. f = Flip(retire'.index, TRUE, retire'.gen)
    BY <1>1, <2>1
  <2> QED
    BY <1>1, <2>3, <2>4 DEF ScheduledOK, FlipOK, Age, Flip
<1>5. LockOK'
  <2>1. gpu'.pc = "write" /\ gpu'.buf = gpu.buf /\ gpu.buf \in Buffers
    BY DEF RecordGpuLock, GpuGoto, Live, DriverTypes, GpuOK, GpuType
  <2>2. gens'[gpu.buf] = NextGeneration(gens[gpu.buf])
    BY <2>1 DEF RecordGpuLock, Live, DriverTypes, LabelTypes
  <2>3. gens[gpu.buf] \in 0..MaxGeneration
    BY <2>1 DEF Live, DriverTypes, LabelTypes
  <2> QED
    BY <2>1, <2>2, <2>3, NextGenerationType DEF LockOK
<1> QED
  BY <1>2, <1>3, <1>4, <1>5 DEF LabelsOK

\* SubmitFlipInternal: a flip q at the end of the queue.  If it is one of the GPU's,
\* its lock is the last one of its buffer and no other flip has that generation.
Pushes(q) ==
  /\ queue' = Append(queue, q) /\ UNCHANGED gens
  /\ LockBegun <= LockBegun' + 1 /\ LockBegun' \in Nat
  /\ \A b : GpuLocked(b)' => GpuLocked(b)
  /\ q.eop => /\ q.index \in Buffers /\ q.gen # 0 /\ q.gen = gens[q.index]
              /\ GpuLocked(q.index) /\ \A b : ~GpuLocked(b)'

LEMMA PushFlips ==
  ASSUME Live, NEW q \in Flips, Pushes(q), NEW f \in Flips, NEW i \in Nat, FlipOK(f, i)
  PROVE  FlipOK(f, i)'
<1> SUFFICES ASSUME f.eop PROVE FlipOK(f, i)'
  BY DEF FlipOK
<1>1. /\ f.index \in Buffers /\ f.gen # 0 /\ gens[f.index] # 0
      /\ Age(f) <= Len(queue) - i + LockBegun
      /\ GpuLocked(f.index) => Age(f) > 0
      /\ \A j \in DOMAIN queue :
           j > i /\ queue[j].eop /\ queue[j].index = f.index => Age(queue[j]) < Age(f)
  BY DEF FlipOK
<1>2. Age(f) \in Nat
  BY <1>1, AgeType DEF Live
<1>3. Age(f)' = Age(f) /\ gens' = gens
  BY DEF Pushes, Age
<1>4. /\ queue \in Seq(Flips) /\ Len(queue') = Len(queue) + 1 /\ Len(queue) \in Nat
      /\ DOMAIN queue = 1..Len(queue) /\ DOMAIN queue' = 1..(Len(queue) + 1)
      /\ queue'[Len(queue) + 1] = q
      /\ \A j \in 1..Len(queue) : queue'[j] = queue[j]
  BY DEF Live, DriverTypes, QueueTypes, Pushes
<1>5. Age(f)' <= Len(queue') - i + LockBegun'
  <2>1. LockBegun \in Nat
    BY DEF LockBegun
  <2>2. LockBegun' \in Nat /\ LockBegun <= LockBegun' + 1
    BY DEF Pushes
  <2>3. PICK a \in Nat, m \in Nat, k \in Nat, l \in Nat :
          a = Age(f) /\ m = Len(queue) /\ k = LockBegun /\ l = LockBegun'
    BY <1>2, <1>4, <2>1, <2>2
  <2>4. a <= m - i + k /\ k <= l + 1
    BY <1>1, <2>2, <2>3
  <2>5. a <= (m + 1) - i + l
    BY <2>4
  <2>6. Age(f)' = a /\ Len(queue') = m + 1 /\ LockBegun' = l
    BY <1>3, <1>4, <2>3
  <2> QED
    BY <2>5, <2>6
<1>6. GpuLocked(f.index)' => Age(f)' > 0
  BY <1>1, <1>3 DEF Pushes
<1>7. ASSUME NEW j \in DOMAIN queue', j > i, queue'[j].eop, queue'[j].index = f.index
      PROVE  Age(queue[j])' < Age(f)'
  <2>1. CASE j \in DOMAIN queue
    <3>1. queue'[j] = queue[j]
      BY <1>4, <2>1
    <3>2. Age(queue[j]) < Age(f)
      BY <1>1, <1>7, <2>1, <3>1
    <3> QED
      BY <1>3, <3>1, <3>2 DEF Age
  <2>2. CASE j \notin DOMAIN queue
    <3>1. j = Len(queue) + 1
      BY <1>4, <2>2
    <3>2. queue'[j] = q
      BY <1>4, <3>1
    <3>3. q.eop /\ q.index = f.index
      BY <1>7, <3>2
    <3>4. q.gen = gens'[q.index] /\ Age(f) > 0 /\ q.gen # 0 /\ q.index \in Buffers
      BY <1>1, <3>3 DEF Pushes
    <3>5. q.gen \in 0..MaxGeneration
      BY DEF Flips
    <3>6. Distance(q.gen, gens'[q.index]) = 0
      BY <3>4, <3>5, DistanceFacts
    <3> QED
      BY <1>3, <3>2, <3>4, <3>6 DEF Age
  <2> QED
    BY <2>1, <2>2
<1>8. \A j \in DOMAIN queue' :
         j > i /\ queue'[j].eop /\ queue'[j].index = f.index => Age(queue[j])' < Age(f)'
  BY <1>7
<1> QED
  BY <1>1, <1>3, <1>5, <1>6, <1>8 DEF FlipOK

LEMMA PushedFlip ==
  ASSUME Live, NEW q \in Flips, Pushes(q), NEW n \in Nat, n = Len(queue) + 1
  PROVE  FlipOK(q, n)'
<1>0. DOMAIN queue' = 1..n /\ Len(queue') = n
  BY DEF Live, DriverTypes, QueueTypes, Pushes
<1> SUFFICES ASSUME q.eop PROVE FlipOK(q, n)'
  BY DEF FlipOK
<1>1. /\ q.index \in Buffers /\ q.gen # 0 /\ q.gen = gens'[q.index]
      /\ ~GpuLocked(q.index)' /\ LockBegun' \in Nat
  BY DEF Pushes
<1>2. q.gen \in 0..MaxGeneration
  BY DEF Flips
<1>3. Age(q)' = 0
  BY <1>1, <1>2, DistanceFacts DEF Age
<1>4. Age(q)' <= Len(queue') - n + LockBegun'
  <2>1. PICK l \in Nat : l = LockBegun'
    BY <1>1
  <2>2. 0 <= n - n + l
    OBVIOUS
  <2> QED
    BY <1>0, <1>3, <2>1, <2>2
<1>5. \A j \in DOMAIN queue' : ~(j > n)
  BY <1>0
<1> QED
  BY <1>1, <1>4, <1>5 DEF FlipOK

LEMMA LabelsPush ==
  ASSUME Live, NEW q \in Flips, Pushes(q), UNCHANGED <<present, retire>>, LockOK'
  PROVE  LabelsOK'
<1>1. /\ queue \in Seq(Flips) /\ Len(queue) \in Nat
      /\ DOMAIN queue = 1..Len(queue) /\ DOMAIN queue' = 1..(Len(queue) + 1)
      /\ queue'[Len(queue) + 1] = q
      /\ \A j \in 1..Len(queue) : queue'[j] = queue[j] /\ queue[j] \in Flips
  BY DEF Live, DriverTypes, QueueTypes, Pushes
<1>2. QueueOK'
  <2>1. ASSUME NEW i \in DOMAIN queue' PROVE FlipOK(queue[i], i)'
    <3>1. PICK f : f = queue'[i]
      OBVIOUS
    <3>2. CASE i \in DOMAIN queue
      <4>1. f = queue[i] /\ f \in Flips /\ i \in Nat
        BY <1>1, <3>1, <3>2
      <4>2. FlipOK(f, i)
        BY <3>2, <4>1 DEF Live, QueueOK
      <4>3. FlipOK(f, i)'
        BY <4>1, <4>2, PushFlips
      <4> QED
        BY <3>1, <4>3 DEF FlipOK, Age
    <3>3. CASE i \notin DOMAIN queue
      <4>1. i = Len(queue) + 1 /\ f = q /\ i \in Nat
        BY <1>1, <3>1, <3>3
      <4>2. FlipOK(q, i)'
        BY <4>1, PushedFlip
      <4> QED
        BY <3>1, <4>1, <4>2 DEF FlipOK, Age
    <3> QED
      BY <3>2, <3>3
  <2> QED
    BY <2>1 DEF QueueOK
<1>3. ShownOK'
  <2>1. PICK f : f = present.req
    OBVIOUS
  <2>2. f \in Flips /\ (Showing => FlipOK(f, 0))
    BY <2>1, ShownTypes DEF Live, ShownOK
  <2>3. Showing => FlipOK(f, 0)'
    BY <2>2, PushFlips
  <2>4. Showing' = Showing
    BY DEF Showing
  <2> QED
    BY <2>1, <2>3, <2>4 DEF ShownOK, FlipOK, Age
<1>4. ScheduledOK'
  <2>1. PICK f : f = Flip(retire.index, TRUE, retire.gen)
    OBVIOUS
  <2>2. f \in Flips /\ (retire.active => FlipOK(f, 0))
    BY <2>1, ShownTypes DEF Live, ScheduledOK
  <2>3. retire.active => FlipOK(f, 0)'
    BY <2>2, PushFlips
  <2>4. f = Flip(retire'.index, TRUE, retire'.gen)
    BY <2>1
  <2> QED
    BY <2>3, <2>4 DEF ScheduledOK, FlipOK, Age, Flip
<1> QED
  BY <1>2, <1>3, <1>4 DEF LabelsOK

LEMMA LabelsCommand ==
  ASSUME Live, GpuCommand, ~aborted'
  PROVE  LabelsOK'
<1> DEFINE q == Flip(Head(commands), FALSE, 0)
<1>1. q \in Flips
  <2>1. Head(commands) \in Slot
    BY DEF GpuCommand, Live, DriverTypes, QueueTypes
  <2> QED
    BY <2>1, TypeFacts DEF Flip, Flips
<1>a. SubmitFlipInternal(q) /\ prep = NoFlip /\ UNCHANGED <<requests, gens, gpu, present, retire>>
  BY DEF GpuCommand, labelVars
<1>2. queue' = Append(queue, q) /\ UNCHANGED <<gens, gpu, present, retire>> /\ q.eop = FALSE
  <2>1. q.eop = FALSE
    BY DEF Flip
  <2> HIDE DEF q
  <2> QED
    BY <1>1, <1>a, <2>1, SubmitQueue DEF Live
<1> HIDE DEF q
<1>3. SameLocks /\ LockOK'
  BY <1>2, SameGpu DEF Live
<1>4. LockBegun <= LockBegun' + 1 /\ LockBegun' \in Nat
  BY <1>2 DEF LockBegun
<1>5. Pushes(q)
  BY <1>2, <1>3, <1>4 DEF Pushes, SameLocks
<1> QED
  BY <1>1, <1>2, <1>3, <1>5, LabelsPush

LEMMA LabelsEopPush ==
  ASSUME Live, EopPush, ~aborted'
  PROVE  LabelsOK'
<1> DEFINE q == Flip(gpu.buf, TRUE, gpu.gen)
<1>1. q \in Flips
  BY DEF Flip, Flips, Live, DriverTypes, GpuOK, GpuType
<1>a. SubmitFlipInternal(q) /\ prep = NoFlip /\ UNCHANGED requests
  BY DEF EopPush, Live, DriverTypes, PrepOK
<1>2. /\ queue' = Append(queue, q) /\ UNCHANGED <<gens, present, retire>>
      /\ gpu.pc = "push" /\ gpu'.pc = "idle"
  <2>1. UNCHANGED <<gens, present, retire>> /\ gpu.pc = "push" /\ gpu'.pc = "idle"
    BY DEF EopPush, labelVars
  <2> HIDE DEF q
  <2> QED
    BY <1>1, <1>a, <2>1, SubmitQueue DEF Live
<1>3. /\ gpu.buf \in Buffers /\ gpu.gen = gens[gpu.buf] /\ gens[gpu.buf] # 0
      /\ GpuLocked(gpu.buf) /\ \A b : ~GpuLocked(b)'
  BY <1>2 DEF Live, DriverTypes, GpuOK, LockOK, GpuLocked, Locking
<1>4. q.eop /\ q.index = gpu.buf /\ q.gen = gpu.gen
  BY DEF Flip
<1> HIDE DEF q
<1>5. LockBegun <= LockBegun' + 1 /\ LockBegun' \in Nat
  BY <1>2 DEF LockBegun, Locking
<1>6. Pushes(q)
  BY <1>2, <1>3, <1>4, <1>5 DEF Pushes
<1>7. LockOK'
  BY <1>2 DEF LockOK, Locking
<1> QED
  BY <1>1, <1>2, <1>6, <1>7, LabelsPush

\* The other steps of the GPU thread.
LEMMA LabelsGpu ==
  ASSUME Live, GpuStep, ~aborted'
  PROVE  LabelsOK'
<1>1. CASE GpuPass \/ GpuSleep \/ \E b \in Buffers : GpuFrame(b)
  <2>1. UNCHANGED <<queue, gens, present, retire>>
    BY <1>1 DEF GpuPass, GpuSleep, GpuFrame, labelVars, queueVars, queue
  <2>2. gpu.pc \notin Locking /\ gpu'.pc \notin Locking
    BY <1>1 DEF GpuPass, GpuSleep, GpuFrame, GpuGoto, Live, DriverTypes, GpuOK, GpuType, Locking
  <2>3. Steady
    BY <2>1, <2>2 DEF Steady, SameLocks, LockBegun, GpuLocked
  <2>4. LockOK'
    BY <2>2 DEF LockOK, Locking
  <2>5. SameShown
    BY <2>1 DEF SameShown, Showing
  <2> QED
    BY <2>3, <2>4, <2>5, LabelsSteady DEF Live
<1>2. CASE GpuWrite \/ EopGeneration \/ EopCount
  <2>1. UNCHANGED <<queue, gens, present, retire>>
    BY <1>2 DEF GpuWrite, EopGeneration, EopCount, labelVars, queueVars, queue
  <2>2. gpu.pc \in Locking /\ gpu'.pc \in Locking /\ gpu'.buf = gpu.buf
    BY <1>2 DEF GpuWrite, EopGeneration, EopCount, GpuGoto, Live, DriverTypes, GpuOK, GpuType,
                Locking
  <2>3. Steady
    BY <2>1, <2>2 DEF Steady, SameLocks, LockBegun, GpuLocked
  <2>4. LockOK'
    <3>1. gens'[gpu'.buf] # 0
      BY <2>1, <2>2 DEF Live, LockOK
    <3>2. gpu'.pc \in {"count", "push"} => gpu'.gen = gens'[gpu'.buf]
      <4>1. CASE GpuWrite
        BY <4>1 DEF GpuWrite, GpuGoto, Live, DriverTypes, GpuOK, GpuType
      <4>2. CASE EopGeneration
        BY <2>1, <2>2, <4>2 DEF EopGeneration, Live, DriverTypes, GpuOK, GpuType
      <4>3. CASE EopCount
        <5>1. gpu'.gen = gpu.gen /\ gpu.pc = "count"
          BY <4>3 DEF EopCount, GpuGoto, Live, DriverTypes, GpuOK, GpuType
        <5> QED
          BY <2>1, <2>2, <5>1 DEF Live, LockOK
      <4> QED
        BY <1>2, <4>1, <4>2, <4>3
    <3> QED
      BY <3>1, <3>2 DEF LockOK
  <2>5. SameShown
    BY <2>1 DEF SameShown, Showing
  <2> QED
    BY <2>3, <2>4, <2>5, LabelsSteady DEF Live
<1>3. CASE GpuCommand
  BY <1>3, LabelsCommand
<1>4. CASE RecordGpuLock
  BY <1>4, LabelsRecord
<1>5. CASE EopPush
  BY <1>5, LabelsEopPush
<1>6. CASE PrepareFrame
  <2>1. UNCHANGED <<queue, gens, gpu, present, retire>>
    BY <1>6, PreparedQueue DEF PrepareFrame, labelVars, Live
  <2>2. SameShown
    BY <2>1 DEF SameShown, Showing
  <2> QED
    BY <2>1, <2>2, SameGpu, LabelsSteady DEF Live, Steady
<1> QED
  BY <1>1, <1>2, <1>3, <1>4, <1>5, <1>6 DEF GpuStep, GpuLock

\* The present thread: the flip it takes is the oldest one.
LEMMA TakenFlips ==
  ASSUME Live, SameLocks, queue # <<>>, queue' = Tail(queue),
         NEW f \in Flips, NEW i \in Nat, FlipOK(f, i + 1)
  PROVE  FlipOK(f, i)'
<1> SUFFICES ASSUME f.eop PROVE FlipOK(f, i)'
  BY DEF FlipOK
<1>1. /\ f.index \in Buffers /\ f.gen # 0 /\ gens[f.index] # 0
      /\ Age(f) <= Len(queue) - (i + 1) + LockBegun
      /\ GpuLocked(f.index) => Age(f) > 0
      /\ \A j \in DOMAIN queue :
           j > i + 1 /\ queue[j].eop /\ queue[j].index = f.index
             => Age(queue[j]) < Age(f)
  BY DEF FlipOK
<1>2. Age(f) \in Nat /\ LockBegun \in Nat
  BY <1>1, AgeType DEF Live, LockBegun
<1>3. Age(f)' = Age(f) /\ gens' = gens /\ LockBegun' = LockBegun
  BY DEF SameLocks, Age
<1>4. /\ Len(queue) \in Nat /\ Len(queue') = Len(queue) - 1
      /\ DOMAIN queue = 1..Len(queue) /\ DOMAIN queue' = 1..(Len(queue) - 1)
      /\ \A j \in 1..(Len(queue) - 1) : queue'[j] = queue[j + 1]
  BY DEF Live, DriverTypes, QueueTypes
<1>5. Age(f)' <= Len(queue') - i + LockBegun'
  <2>1. PICK a \in Nat, m \in Nat, k \in Nat : a = Age(f) /\ m = Len(queue) /\ k = LockBegun
    BY <1>2, <1>4
  <2>2. a <= (m - 1) - i + k
    BY <1>1, <2>1
  <2>3. Age(f)' = a /\ Len(queue') = m - 1 /\ LockBegun' = k
    BY <1>3, <1>4, <2>1
  <2> QED
    BY <2>2, <2>3
<1>6. GpuLocked(f.index)' => Age(f)' > 0
  BY <1>1, <1>3 DEF SameLocks
<1>7. ASSUME NEW j \in DOMAIN queue', j > i, queue'[j].eop, queue'[j].index = f.index
      PROVE  Age(queue[j])' < Age(f)'
  <2>1. j + 1 \in DOMAIN queue /\ j + 1 > i + 1 /\ queue'[j] = queue[j + 1]
    BY <1>4, <1>7
  <2>2. Age(queue[j + 1]) < Age(f)
    BY <1>1, <1>7, <2>1
  <2> QED
    BY <1>3, <2>1, <2>2 DEF Age
<1>8. \A j \in DOMAIN queue' :
         j > i /\ queue'[j].eop /\ queue'[j].index = f.index => Age(queue[j])' < Age(f)'
  BY <1>7
<1> QED
  BY <1>1, <1>3, <1>5, <1>6, <1>8 DEF FlipOK

LEMMA LabelsTake ==
  ASSUME Live, TakeRequest, ~aborted'
  PROVE  LabelsOK'
<1>0. /\ UNCHANGED <<gens, gpu, retire>> /\ present.pc = "take"
      /\ present = [pc |-> present.pc, req |-> present.req, key |-> present.key]
  BY DEF TakeRequest, labelVars, Live, DriverTypes, PresentOK, PresentType
<1>1. SameLocks /\ LockOK'
  BY <1>0, SameGpu DEF Live
<1>3. CASE /\ queue # <<>> /\ queue' = Tail(queue)
           /\ present' = [present EXCEPT !.pc = "show", !.req = Head(queue)]
  <2>1. /\ Len(queue) \in Nat /\ Len(queue) > 0
        /\ DOMAIN queue = 1..Len(queue) /\ DOMAIN queue' = 1..(Len(queue) - 1)
        /\ \A j \in 1..(Len(queue) - 1) : queue'[j] = queue[j + 1]
        /\ \A j \in 1..Len(queue) : queue[j] \in Flips
        /\ Head(queue) = queue[1]
    BY <1>3 DEF Live, DriverTypes, QueueTypes
  <2>2. QueueOK'
    <3>1. ASSUME NEW i \in DOMAIN queue' PROVE FlipOK(queue[i], i)'
      <4>1. PICK f : f = queue'[i]
        OBVIOUS
      <4>2. f = queue[i + 1] /\ i + 1 \in DOMAIN queue /\ f \in Flips /\ i \in Nat
        BY <2>1, <4>1
      <4>3. FlipOK(f, i + 1)
        BY <4>2 DEF Live, QueueOK
      <4>4. FlipOK(f, i)'
        BY <1>1, <1>3, <4>2, <4>3, TakenFlips
      <4> QED
        BY <4>1, <4>4 DEF FlipOK, Age
    <3> QED
      BY <3>1 DEF QueueOK
  <2>3. ShownOK'
    <3>1. PICK f : f = queue[1]
      OBVIOUS
    <3>2. f \in Flips /\ 1 \in DOMAIN queue
      BY <2>1, <3>1
    <3>3. FlipOK(f, 0 + 1)
      BY <3>1, <3>2 DEF Live, QueueOK
    <3>4. FlipOK(f, 0)'
      BY <1>1, <1>3, <3>2, <3>3, TakenFlips
    <3>5. present'.req = f
      BY <1>0, <1>3, <2>1, <3>1
    <3> QED
      BY <3>4, <3>5 DEF ShownOK, FlipOK, Age
  <2>4. ~retire'.active
    BY <1>0 DEF Live, RetireOK
  <2> QED
    BY <1>1, <2>2, <2>3, <2>4 DEF LabelsOK, ScheduledOK
<1>4. CASE /\ requests # <<>> /\ requests' = Tail(requests) /\ prep' = prep
           /\ present' = [present EXCEPT !.pc = "show", !.req = Head(requests)]
  BY <1>3, <1>4, TakenQueue DEF Live
<1>5. CASE /\ UNCHANGED <<requests, prep>>
           /\ \/ present' = [present EXCEPT !.pc = "trigger", !.key = "vblank"]
              \/ PresentGoto("blank")
  <2>1. present'.pc = "trigger" => present'.key = "vblank"
    BY <1>0, <1>5 DEF PresentGoto
  <2>2. present'.pc \in {"trigger", "blank"}
    BY <1>0, <1>5 DEF PresentGoto
  <2>3. UNCHANGED queue
    BY <1>5, QueueStays
  <2> QED
    BY <1>0, <1>1, <2>1, <2>2, <2>3, LabelsSteady DEF Live, Steady, SameShown, Showing
<1> QED
  BY <1>4, <1>5 DEF TakeRequest

LEMMA LabelsSave ==
  ASSUME Live, SavePrev
  PROVE  LabelsOK'
<1>0. /\ UNCHANGED <<gens, gpu, queue>> /\ present.pc = "save" /\ present'.pc = "trigger"
      /\ present'.key = "vblank" /\ retire' = ScheduleRetirement(present.req)
  BY DEF SavePrev, queueVars, queue
<1>1. SameLocks /\ LockOK' /\ Steady
  BY <1>0, SameGpu DEF Live, Steady
<1>2. QueueOK' /\ ShownOK'
  BY <1>0, <1>1, QueueSteady DEF Live, ShownOK, Showing
<1>3. ScheduledOK'
  <2>1. ~retire.active
    BY <1>0 DEF Live, RetireOK
  <2>2. ASSUME retire'.active PROVE FlipOK(Flip(retire.index, TRUE, retire.gen), 0)'
    <3>1. /\ present.req.eop = TRUE /\ retire'.index = present.req.index
          /\ retire'.gen = present.req.gen
      BY <1>0, <2>1, <2>2, ShownTypes DEF ScheduleRetirement, Live, Flips
    <3>2. PICK f : f = present.req
      OBVIOUS
    <3>3. FlipOK(f, 0)
      BY <1>0, <3>2 DEF Live, ShownOK, Showing
    <3>4. FlipOK(f, 0)'
      BY <1>1, <3>3, FlipSteady
    <3>5. f = Flip(retire'.index, TRUE, retire'.gen)
      BY <3>1, <3>2, ShownTypes DEF Live, Flips, Flip
    <3> QED
      BY <3>4, <3>5 DEF FlipOK, Age, Flip
  <2> QED
    BY <2>2 DEF ScheduledOK
<1> QED
  BY <1>1, <1>2, <1>3 DEF LabelsOK

LEMMA LabelsPresent ==
  ASSUME Live, PresentStep, ~aborted'
  PROVE  LabelsOK'
<1>p. present = [pc |-> present.pc, req |-> present.req, key |-> present.key]
  BY DEF Live, DriverTypes, PresentOK, PresentType
<1>r. retire = [index |-> retire.index, gen |-> retire.gen, left |-> retire.left,
                active |-> retire.active]
  BY DEF Live, DriverTypes, LabelTypes, RetireType
<1>n. NoRetirement.active = FALSE
  BY DEF NoRetirement
<1>g. ASSUME UNCHANGED <<gens, gpu, queue>>, SameShown PROVE LabelsOK'
  BY <1>g, SameGpu, LabelsSteady DEF Live, Steady
<1>1. CASE ApplyDueLabelRetirement
  <2>1. UNCHANGED <<gens, gpu, queue>> /\ ~Showing'
    BY <1>1, <1>p DEF ApplyDueLabelRetirement, Showing, queueVars, queue
  <2>2. SameShown
    BY <1>1, <1>n, <2>1 DEF ApplyDueLabelRetirement, SameShown
  <2> QED
    BY <2>1, <2>2, <1>g
<1>2. CASE RetireLabel
  <2>1. UNCHANGED <<gens, gpu, queue, retire>> /\ ~Showing'
    BY <1>2, <1>p DEF RetireLabel, Showing, queueVars, queue
  <2> QED
    BY <2>1, <1>g DEF SameShown
<1>3. CASE FlipStatus \/ Present
  <2>1. UNCHANGED <<gens, gpu, queue, retire>> /\ present'.req = present.req
    BY <1>3, <1>p DEF FlipStatus, Present, PresentGoto, queueVars, queue, labelVars
  <2>2. Showing
    BY <1>3 DEF FlipStatus, Present, Showing
  <2> QED
    BY <2>1, <2>2, <1>g DEF SameShown
<1>9. CASE DrawBlankFrame
  <2>1. UNCHANGED <<gens, gpu, queue, retire>> /\ ~Showing'
    BY <1>9, <1>p DEF DrawBlankFrame, Showing, queueVars, queue, labelVars
  <2> QED
    BY <2>1, <1>g DEF SameShown
<1>4. CASE TriggerEvent \/ NotifyEvent
  <2>1. UNCHANGED <<gens, gpu, queue, retire>> /\ present.pc \in {"trigger", "notify"}
    BY <1>4 DEF TriggerEvent, NotifyEvent, queueVars, queue, labelVars
  <2>2. /\ present'.key = present.key /\ (present'.pc = "notify" \/ present'.pc = present.key)
        /\ present'.req = present.req
    BY <1>4, <1>p DEF TriggerEvent, NotifyEvent, PresentGoto
  <2>3. present.key \in {"flip", "vblank"}
    BY <2>1 DEF Live, DriverTypes, PresentOK
  <2>4. SameShown
    BY <2>1, <2>2, <2>3 DEF SameShown, Showing
  <2> QED
    BY <2>1, <2>4, <1>g
<1>5. CASE ResetPrevLabel \/ CancelRetirement
  <2>1. UNCHANGED <<gens, gpu, queue>> /\ present.pc \in {"flip", "cancel"}
    BY <1>5 DEF ResetPrevLabel, CancelRetirement, queueVars, queue
  <2>2. present'.req = present.req
    BY <1>5, <1>p DEF ResetPrevLabel, CancelRetirement, PresentGoto
  <2>3. retire' = retire \/ retire' = NoRetirement
    BY <1>5 DEF ResetPrevLabel, CancelRetirement, CancelRetirementForIndex
  <2>4. SameShown
    BY <1>n, <2>1, <2>2, <2>3 DEF SameShown, Showing
  <2> QED
    BY <2>1, <2>4, <1>g
<1>6. CASE PresentSignal
  <2>1. UNCHANGED <<gens, queue, retire>>
    BY <1>6 DEF PresentSignal, queueVars, queue, labelVars
  <2>2. gpu' = gpu \/ (gpu.pc = "asleep" /\ gpu'.pc = "woken")
    BY <1>6 DEF PresentSignal, SignalVoLabel, Live, DriverTypes, GpuOK, GpuType
  <2>3. Steady /\ LockOK'
    <3>1. CASE gpu' = gpu
      BY <2>1, <3>1, SameGpu DEF Live, Steady
    <3>2. CASE gpu.pc = "asleep" /\ gpu'.pc = "woken"
      BY <2>1, <3>2 DEF Steady, SameLocks, LockBegun, GpuLocked, LockOK, Locking
    <3> QED
      BY <2>2, <3>1, <3>2
  <2>4. /\ present.pc \in {"retired", "signal"} /\ present'.req = present.req
        /\ present'.pc = IF present.pc = "signal" THEN "save" ELSE "take"
    BY <1>6, <1>p DEF PresentSignal, PresentGoto
  <2>5. SameShown
    BY <2>1, <2>4 DEF SameShown, Showing
  <2> QED
    BY <2>3, <2>5, LabelsSteady DEF Live
<1>7. CASE Vblank
  <2>1. UNCHANGED <<gens, gpu, queue>> /\ ~Showing'
    BY <1>7, <1>p DEF Vblank, Showing, queueVars, queue
  <2>2. /\ retire'.active = retire.active /\ retire'.index = retire.index
        /\ retire'.gen = retire.gen
    BY <1>7, <1>r DEF Vblank
  <2> QED
    BY <2>1, <2>2, <1>g DEF SameShown
<1>8. CASE TakeRequest \/ SavePrev
  BY <1>8, LabelsTake, LabelsSave
<1> QED
  BY <1>1, <1>2, <1>3, <1>4, <1>5, <1>6, <1>7, <1>8, <1>9 DEF PresentStep

\* The calls of guest threads, of a program that does not reset the port.
LEMMA LabelsGuest ==
  ASSUME Live, GuestCall \/ SubmitCount \/ SubmitSend
  PROVE  LabelsOK'
<1>1. UNCHANGED <<gens, gpu, queue, retire, present>>
  BY DEF Live, GuestCall, SubmitFlip, SetFlipRate, Open, Close, UnregisterBuffers,
         RegisterBuffers, AddPortEvent, DeletePortEvent, SubmitCount, SubmitSend, labelVars,
         queueVars, queue
<1> QED
  BY <1>1, SameGpu, LabelsSteady DEF Live, Steady, SameShown, Showing

LEMMA LabelsInit == Init => RetireOK /\ LabelsOK
<1> SUFFICES ASSUME Init PROVE RetireOK /\ LabelsOK
  OBVIOUS
<1>1. ~retire.active /\ queue = <<>> /\ gpu.pc = "idle" /\ present.pc = "start"
  BY DEF Init, NoRetirement, queue, Join
<1>2. DOMAIN queue = {}
  BY <1>1
<1>3. RetireOK /\ QueueOK /\ ScheduledOK
  BY <1>1, <1>2 DEF RetireOK, QueueOK, ScheduledOK
<1>4. ShownOK /\ LockOK
  BY <1>1 DEF ShownOK, Showing, LockOK, Locking
<1> QED
  BY <1>3, <1>4 DEF LabelsOK

LEMMA LabelsNext ==
  ASSUME WideGenerations, Counters, Labels, [Next]_vars
  PROVE  LabelsOK'
<1>1. CASE UNCHANGED vars
  <2>1. /\ UNCHANGED <<calls, gens, gpu, queue, retire, present, aborted>>
        /\ "reset" \notin calls /\ ~aborted => LockOK /\ QueueOK /\ ShownOK /\ ScheduledOK
    BY <1>1 DEF vars, labelVars, queueVars, queue, endVars, Labels, LabelsOK
  <2>2. CASE "reset" \notin calls /\ ~aborted
    BY <2>1, <2>2, SameGpu, LabelsSteady DEF Steady, SameShown, Showing
  <2>3. CASE ~("reset" \notin calls /\ ~aborted)
    BY <2>1, <2>3 DEF LabelsOK
  <2> QED
    BY <2>2, <2>3
<1>2. CASE Running(QueueStep \/ GuestCall \/ SubmitCount \/ SubmitSend \/ GpuStep \/ PresentStep)
  <2>0. ~aborted /\ UNCHANGED calls
    BY <1>2 DEF Running
  <2>1. CASE "reset" \in calls \/ aborted'
    BY <2>0, <2>1 DEF LabelsOK
  <2>2. CASE "reset" \notin calls /\ ~aborted'
    <3>1. Live
      BY <2>0, <2>2 DEF Live, Counters, Labels, LabelsOK
    <3>2. CASE QueueStep
      <4>1. UNCHANGED <<gens, gpu, queue, retire, present>>
        BY <3>2, QueueStays, QueueStepAlone DEF driver
      <4> QED
        BY <3>1, <4>1, SameGpu, LabelsSteady DEF Live, Steady, SameShown, Showing
    <3> QED
      BY <1>2, <2>2, <3>1, <3>2, LabelsGuest, LabelsGpu, LabelsPresent DEF Running
  <2> QED
    BY <2>1, <2>2
<1> QED
  BY <1>1, <1>2 DEF Next, Ended

\* A retirement is granted only if no lock of the buffer came since its own.
LEMMA GrantIsSafe ==
  ASSUME Counters, Labels, [Next]_vars, "reset" \notin calls, present.pc = "start",
         present'.pc = "retire"
  PROVE  ~Locked(present'.req.index)
<1>p. present = [pc |-> present.pc, req |-> present.req, key |-> present.key]
  BY DEF Counters, DriverTypes, PresentOK, PresentType
<1>0. present' # present
  OBVIOUS
<1>1. ~aborted /\ PresentStep
  <2>1. ~UNCHANGED vars
    BY <1>0 DEF vars
  <2>2. ~QueueStep
    BY <1>0, QueueStepAlone DEF driver
  <2>3. ~GuestCall /\ ~SubmitCount /\ ~SubmitSend
    BY <1>0 DEF GuestCall, SubmitFlip, SetFlipRate, Open, Close, UnregisterBuffers,
                RegisterBuffers, AddPortEvent, DeletePortEvent, SubmitCount, SubmitSend
  <2>4. ~GpuStep
    BY <1>0 DEF GpuStep, GpuLock, GpuCommand, GpuPass, GpuSleep, GpuFrame, RecordGpuLock, GpuWrite,
                EopGeneration, EopCount, EopPush, PrepareFrame
  <2> QED
    BY <2>1, <2>2, <2>3, <2>4 DEF Next, Running, Ended
<1>2. ApplyDueLabelRetirement
  BY <1>1 DEF PresentStep, RetireLabel, TakeRequest, DrawBlankFrame, Present, PresentGoto,
              FlipStatus, TriggerEvent, NotifyEvent,
              ResetPrevLabel, CancelRetirement, PresentSignal, SavePrev, Vblank
<1>3. retire.active /\ gens[retire.index] = retire.gen
  BY <1>2, <1>p DEF ApplyDueLabelRetirement, Retires, Due
<1>4. present'.req.index = retire.index
  <2>1. present.req = [index |-> present.req.index, eop |-> present.req.eop, gen |-> present.req.gen]
    BY DEF Counters, DriverTypes, PresentOK, PresentType, Flips
  <2> QED
    BY <1>2, <1>p, <2>1 DEF ApplyDueLabelRetirement
<1> DEFINE f == Flip(retire.index, TRUE, retire.gen)
<1>5. QueueOK /\ FlipOK(f, 0)
  BY <1>1, <1>3 DEF Labels, LabelsOK, ScheduledOK
<1>6. f \in Flips /\ f.eop /\ f.index = retire.index /\ f.gen = retire.gen
  BY ShownTypes DEF Counters, Flip
<1> HIDE DEF f
<1>7. /\ f.index \in Buffers /\ f.gen # 0 /\ gens[f.index] # 0
      /\ GpuLocked(f.index) => Age(f) > 0
      /\ \A j \in DOMAIN queue :
           j > 0 /\ queue[j].eop /\ queue[j].index = f.index => Age(queue[j]) < Age(f)
  BY <1>5, <1>6 DEF FlipOK
<1>8. Age(f) = 0
  BY <1>3, <1>6, <1>7, AgeType DEF Counters
<1>9. ~GpuLocked(retire.index)
  BY <1>6, <1>7, <1>8
<1>10. ASSUME NEW j \in DOMAIN queue, queue[j].eop, queue[j].index = retire.index
       PROVE  FALSE
  <2>1. queue[j] \in Flips /\ j > 0
    BY DEF Counters, DriverTypes, QueueTypes
  <2>2. queue[j].gen # 0 /\ queue[j].index \in Buffers /\ gens[queue[j].index] # 0
    BY <1>5, <1>10 DEF QueueOK, FlipOK
  <2>3. Age(queue[j]) \in Nat
    BY <2>1, <2>2, AgeType DEF Counters
  <2> QED
    BY <1>6, <1>7, <1>8, <1>10, <2>1, <2>3
<1>11. ASSUME NEW x \in Flips, x.eop, x.index = retire.index,
              x = prep \/ \E i \in DOMAIN requests : x = requests[i]
       PROVE  FALSE
  <2>1. x # NoFlip /\ requests \in Seq(Flips)
    BY <1>11 DEF NoFlip, Flip, Counters, DriverTypes, QueueTypes
  <2>2. CASE x = prep
    <3>1. queue = Append(requests, x)
      BY <2>1, <2>2, JoinFacts DEF queue
    <3>2. Len(requests) + 1 \in DOMAIN queue /\ queue[Len(requests) + 1] = x
      BY <2>1, <3>1
    <3> QED
      BY <1>10, <1>11, <3>2
  <2>3. ASSUME NEW i \in DOMAIN requests, x = requests[i] PROVE FALSE
    <3>1. queue = requests \/ queue = Append(requests, prep)
      BY DEF queue, Join
    <3>2. prep \in Flips
      BY DEF Counters, DriverTypes, QueueTypes
    <3>3. i \in DOMAIN queue /\ queue[i] = x
      BY <2>1, <2>3, <3>1, <3>2
    <3> QED
      BY <1>10, <1>11, <3>3
  <2> QED
    BY <1>11, <2>2, <2>3
<1>12. prep \in Flips /\ \A i \in DOMAIN requests : requests[i] \in Flips
  BY DEF Counters, DriverTypes, QueueTypes
<1>13. ~(prep.eop /\ prep.index = retire.index)
  BY <1>11, <1>12
<1>14. \A i \in DOMAIN requests : ~(requests[i].eop /\ requests[i].index = retire.index)
  BY <1>11, <1>12
<1> QED
  BY <1>4, <1>9, <1>13, <1>14 DEF Locked, GpuLocked, Locking

\* A retirement (driver.cpp:485-497) is never granted for a buffer that the GPU has
\* locked for a flip not shown yet: for any buffers, programs and limits, when the
\* 64-bit generation cannot wrap around within the flips that are on their way.
THEOREM RetirementIsSafe ==
  ASSUME MaxGeneration > MaxOutstanding + MaxPending + 3
  PROVE  Spec => RetireSafe
<1>0. WideGenerations
  BY DEF WideGenerations
<1>1. Init => Counters /\ Labels
  BY TypesInit, AccountsInit, LabelsInit DEF Counters, Labels
<1>2. Counters /\ Labels /\ [Next]_vars => (Counters /\ Labels)'
  <2> SUFFICES ASSUME Counters, Labels, [Next]_vars PROVE Counters' /\ Labels'
    OBVIOUS
  <2>1. DriverTypes' /\ AccountsOK'
    BY TypesNext, AccountsNext DEF Counters
  <2>2. RetireOK'
    BY RetireNext DEF Counters, Labels
  <2>3. LabelsOK'
    BY <1>0, LabelsNext
  <2> QED
    BY <2>1, <2>2, <2>3 DEF Counters, Labels
<1>3. Counters /\ Labels /\ [Next]_vars =>
        [("reset" \notin calls /\ present.pc = "start" /\ present'.pc = "retire")
           => ~Locked(present'.req.index)]_vars
  BY GrantIsSafe
<1> QED
  BY <1>1, <1>2, <1>3, PTL DEF Spec, RetireSafe

-----------------------------------------------------------------------------
(***************************************************************************)
(* The event queue.  What is left to be delivered is counted by the keys   *)
(* of the triggered events (an event of a kind is on the queue once), and  *)
(* what will deliver it by the notifications on their way and the waiters  *)
(* that were woken.                                                        *)
(***************************************************************************)
EventType == [key : Keys, clear : BOOLEAN, trig : BOOLEAN]
ThrType ==
  [pc : {"idle", "schedule", "delsmall", "delete", "notify", "check", "woken", "asleep", "spin",
         "polled"},
   num : Nat \ {0}, keys : SUBSET Keys]

\* A queue of a program with calls c: no key twice, and without a level event a
\* delivered event is always cleared.
IsQueue(c, s) ==
  /\ s \in Seq(EventType)
  /\ \A i, j \in DOMAIN s : s[i].key = s[j].key => i = j
  /\ "level" \notin c => \A i \in DOMAIN s : s[i].clear

Pending(s) == {s[i].key : i \in Ready(s)}

\* The threads of f at pc, and how many wake-ups they stand for.
InPc(f, pc) == {t \in Threads : f[t].pc = pc}
Credit(f) == Cardinality(InPc(f, "notify")) + Cardinality(InPc(f, "woken"))

\* NoLostEvent, with n notifications of the service and present threads.
Covered(c, s, f, n) ==
  "level" \notin c /\ InPc(f, "asleep") # {} => Cardinality(Pending(s)) <= Credit(f) + n

Notices == At(service, "notify") + At(present, "notify")
EventInv ==
  /\ IsQueue(calls, events) /\ thr \in [Threads -> ThrType]
  /\ Covered(calls, events, thr, Notices)

\* r has the entries of s, each of them once, and none that is triggered only in r.
Thinner(r, s) ==
  /\ r \in Seq(EventType)
  /\ \A i, j \in DOMAIN r : r[i].key = r[j].key => i = j
  /\ \A j \in DOMAIN r : \E i \in DOMAIN s :
       r[j].key = s[i].key /\ r[j].clear = s[i].clear /\ (r[j].trig => s[i].trig)

LEMMA ThinnerQueue ==
  ASSUME NEW c, NEW s, NEW r, IsQueue(c, s), Thinner(r, s)
  PROVE  IsQueue(c, r) /\ Pending(r) \subseteq Pending(s)
<1>1. IsQueue(c, r)
  BY DEF IsQueue, Thinner
<1>2. ASSUME NEW k \in Pending(r) PROVE k \in Pending(s)
  <2>1. PICK j \in DOMAIN r : r[j].trig /\ r[j].key = k
    BY <1>2 DEF Pending, Ready
  <2>2. PICK i \in DOMAIN s : r[j].key = s[i].key /\ (r[j].trig => s[i].trig)
    BY <2>1 DEF Thinner
  <2> QED
    BY <2>1, <2>2 DEF Pending, Ready
<1> QED
  BY <1>1, <1>2

LEMMA WithoutThinner ==
  ASSUME NEW c, NEW s, NEW k, IsQueue(c, s)
  PROVE  Thinner(s, s) /\ Thinner(Without(s, k), s)
<1>1. Thinner(s, s)
  BY DEF IsQueue, Thinner
<1>2. CASE \E i \in DOMAIN s : s[i].key = k
  <2> DEFINE it == CHOOSE i \in DOMAIN s : s[i].key = k
             r == [j \in 1 .. Len(s) - 1 |-> IF j < it THEN s[j] ELSE s[j + 1]]
  <2>1. it \in DOMAIN s /\ Without(s, k) = r
    BY <1>2 DEF Without
  <2>2. DOMAIN s = 1 .. Len(s) /\ Len(s) \in Nat /\ \A i \in 1 .. Len(s) : s[i] \in EventType
    BY DEF IsQueue
  <2> HIDE DEF it
  <2>3. it \in 1 .. Len(s) /\ Len(s) - 1 \in Nat
    BY <2>1, <2>2
  <2>4. r \in Seq(EventType) /\ DOMAIN r = 1 .. Len(s) - 1
    BY <2>2, <2>3
  <2>5. ASSUME NEW i \in DOMAIN r, NEW j \in DOMAIN r, r[i].key = r[j].key PROVE i = j
    <3>1. PICK a \in DOMAIN s, b \in DOMAIN s :
            /\ a = IF i < it THEN i ELSE i + 1
            /\ b = IF j < it THEN j ELSE j + 1
      BY <2>2, <2>3, <2>4
    <3>2. s[a].key = s[b].key
      BY <2>4, <2>5, <3>1
    <3>3. a = b
      BY <3>2 DEF IsQueue
    <3> QED
      BY <2>3, <2>4, <3>1, <3>3
  <2>6. ASSUME NEW j \in DOMAIN r PROVE \E i \in DOMAIN s : r[j] = s[i]
    BY <2>2, <2>3, <2>4
  <2> HIDE DEF r
  <2> QED
    BY <1>1, <2>1, <2>4, <2>5, <2>6 DEF Thinner
<1>3. CASE ~\E i \in DOMAIN s : s[i].key = k
  BY <1>1, <1>3 DEF Without
<1> QED
  BY <1>2, <1>3

LEMMA ClearedThinner ==
  ASSUME NEW c, NEW s, NEW K, IsQueue(c, s)
  PROVE  /\ IsQueue(c, Cleared(s, K)) /\ Thinner(Cleared(s, K), s)
         /\ "level" \notin c => Pending(Cleared(s, K)) \subseteq Pending(s) \ K
<1> DEFINE r == Cleared(s, K)
<1>1. DOMAIN s = 1 .. Len(s) /\ Len(s) \in Nat /\ \A i \in 1 .. Len(s) : s[i] \in EventType
  BY DEF IsQueue
<1>2. /\ DOMAIN r = 1 .. Len(s)
      /\ \A i \in 1 .. Len(s) :
           /\ r[i] \in EventType /\ r[i].key = s[i].key /\ r[i].clear = s[i].clear
           /\ r[i].trig = (s[i].trig /\ ~(s[i].key \in K /\ s[i].clear))
  <2>1. DOMAIN r = 1 .. Len(s)
    BY <1>1 DEF Cleared
  <2>2. ASSUME NEW i \in 1 .. Len(s)
        PROVE  /\ r[i] \in EventType /\ r[i].key = s[i].key /\ r[i].clear = s[i].clear
               /\ r[i].trig = (s[i].trig /\ ~(s[i].key \in K /\ s[i].clear))
    <3>1. r[i] = [s[i] EXCEPT !.trig = @ /\ ~(s[i].key \in K /\ s[i].clear)]
      BY <1>1 DEF Cleared
    <3>2. s[i] \in EventType
      BY <1>1
    <3> QED
      BY <3>1, <3>2 DEF EventType
  <2> QED
    BY <2>1, <2>2
<1>3. r \in Seq(EventType)
  <2>1. r = [i \in 1 .. Len(s) |-> r[i]]
    BY <1>1 DEF Cleared
  <2> HIDE DEF r
  <2> QED
    BY <1>1, <1>2, <2>1
<1> HIDE DEF r
<1>4. Thinner(r, s)
  BY <1>1, <1>2, <1>3 DEF Thinner, IsQueue
<1>5. IsQueue(c, r) /\ Pending(r) \subseteq Pending(s)
  BY <1>4, ThinnerQueue
<1>6. ASSUME "level" \notin c, NEW k \in Pending(r) PROVE k \notin K
  <2>1. PICK j \in DOMAIN r : r[j].trig /\ r[j].key = k
    BY <1>6 DEF Pending, Ready
  <2>2. s[j].clear
    BY <1>1, <1>2, <1>6, <2>1 DEF IsQueue
  <2> QED
    BY <1>2, <2>1, <2>2
<1>7. "level" \notin c => Pending(r) \subseteq Pending(s) \ K
  BY <1>5, <1>6
<1> QED
  BY <1>4, <1>5, <1>7 DEF r

\* GetTriggeredEvents delivers the events of K, and clears them if it can.
LEMMA TakingFacts ==
  ASSUME NEW c, NEW s, NEW K, IsQueue(c, s)
  PROVE  /\ IsQueue(c, AfterTaking(s, K)) /\ Pending(AfterTaking(s, K)) \subseteq Pending(s)
         /\ "level" \notin c => Pending(AfterTaking(s, K)) \subseteq Pending(s) \ K
<1> DEFINE r == Cleared(s, K)
<1>1. /\ IsQueue(c, r) /\ Thinner(r, s)
      /\ "level" \notin c => Pending(r) \subseteq Pending(s) \ K
  BY ClearedThinner
<1>2. Thinner(r, r) /\ Thinner(Without(r, OneShot), r)
  BY <1>1, WithoutThinner
<1>3. Thinner(AfterTaking(s, K), r)
  BY <1>2 DEF AfterTaking
<1>4. IsQueue(c, AfterTaking(s, K)) /\ Pending(AfterTaking(s, K)) \subseteq Pending(r)
  BY <1>1, <1>3, ThinnerQueue
<1>5. Pending(r) \subseteq Pending(s)
  BY <1>1, ThinnerQueue
<1> QED
  BY <1>1, <1>4, <1>5

\* AddEvent adds an event that is not triggered, of a key that is not there.
LEMMA AddedFacts ==
  ASSUME NEW k \in Keys, IsQueue(calls, events), k = "level" => "level" \in calls
  PROVE  IsQueue(calls, Added(k)) /\ Pending(Added(k)) \subseteq Pending(events)
<1>1. CASE Has(k)
  BY <1>1 DEF Added
<1>2. CASE ~Has(k)
  <2> DEFINE e == NewEvent(k)
             r == Append(events, e)
  <2>1. e \in EventType /\ e.key = k /\ ~e.trig /\ ("level" \notin calls => e.clear)
    BY DEF NewEvent, EventType
  <2> HIDE DEF e
  <2>2. DOMAIN events = 1 .. Len(events) /\ Len(events) \in Nat /\ events \in Seq(EventType)
    BY DEF IsQueue
  <2>3. /\ r \in Seq(EventType) /\ DOMAIN r = 1 .. Len(events) + 1
        /\ r[Len(events) + 1] = e /\ \A i \in 1 .. Len(events) : r[i] = events[i]
    BY <2>1, <2>2
  <2>4. Added(k) = r
    BY <1>2 DEF Added, e
  <2>5. \A i \in 1 .. Len(events) : events[i].key # k
    BY <1>2, <2>2 DEF Has
  <2> HIDE DEF r
  <2>6. ASSUME NEW i \in DOMAIN r, NEW j \in DOMAIN r, r[i].key = r[j].key PROVE i = j
    <3>1. i \in 1 .. Len(events) \/ i = Len(events) + 1
      BY <2>2, <2>3
    <3>2. j \in 1 .. Len(events) \/ j = Len(events) + 1
      BY <2>2, <2>3
    <3> QED
      BY <2>1, <2>2, <2>3, <2>5, <2>6, <3>1, <3>2 DEF IsQueue
  <2>7. ASSUME "level" \notin calls, NEW i \in DOMAIN r PROVE r[i].clear
    <3>1. i \in 1 .. Len(events) \/ i = Len(events) + 1
      BY <2>2, <2>3
    <3> QED
      BY <2>1, <2>2, <2>3, <2>7, <3>1 DEF IsQueue
  <2>8. ASSUME NEW x \in Pending(r) PROVE x \in Pending(events)
    <3>1. PICK j \in DOMAIN r : r[j].trig /\ r[j].key = x
      BY <2>8 DEF Pending, Ready
    <3>2. j \in 1 .. Len(events) \/ j = Len(events) + 1
      BY <2>2, <2>3
    <3> QED
      BY <2>1, <2>2, <2>3, <3>1, <3>2 DEF Pending, Ready
  <2> QED
    BY <2>3, <2>4, <2>6, <2>7, <2>8 DEF IsQueue
<1> QED
  BY <1>1, <1>2

\* TriggerEvent adds a key to what is to be delivered, at most.
LEMMA TriggeredFacts ==
  ASSUME NEW k, IsQueue(calls, events)
  PROVE  IsQueue(calls, Triggered(k)) /\ Pending(Triggered(k)) \subseteq Pending(events) \union {k}
<1> DEFINE r == Triggered(k)
<1>1. /\ DOMAIN events = 1 .. Len(events) /\ Len(events) \in Nat
      /\ \A i \in 1 .. Len(events) : events[i] \in EventType
  BY DEF IsQueue
<1>2. /\ DOMAIN r = 1 .. Len(events)
      /\ \A i \in 1 .. Len(events) :
           /\ r[i] \in EventType /\ r[i].key = events[i].key /\ r[i].clear = events[i].clear
           /\ r[i].trig = (events[i].trig \/ events[i].key = k)
  <2>1. DOMAIN r = 1 .. Len(events)
    BY <1>1 DEF Triggered
  <2>2. ASSUME NEW i \in 1 .. Len(events)
        PROVE  /\ r[i] \in EventType /\ r[i].key = events[i].key /\ r[i].clear = events[i].clear
               /\ r[i].trig = (events[i].trig \/ events[i].key = k)
    <3>1. r[i] = [events[i] EXCEPT !.trig = @ \/ events[i].key = k]
      BY <1>1 DEF Triggered
    <3>2. events[i] \in EventType
      BY <1>1
    <3> QED
      BY <3>1, <3>2 DEF EventType
  <2> QED
    BY <2>1, <2>2
<1>3. r \in Seq(EventType)
  <2>1. r = [i \in 1 .. Len(events) |-> r[i]]
    BY <1>1 DEF Triggered
  <2> HIDE DEF r
  <2> QED
    BY <1>1, <1>2, <2>1
<1> HIDE DEF r
<1>4. IsQueue(calls, r)
  BY <1>1, <1>2, <1>3 DEF IsQueue
<1>5. ASSUME NEW x \in Pending(r) PROVE x \in Pending(events) \union {k}
  <2>1. PICK j \in DOMAIN r : r[j].trig /\ r[j].key = x
    BY <1>5 DEF Pending, Ready
  <2> QED
    BY <1>1, <1>2, <2>1 DEF Pending, Ready
<1> QED
  BY <1>4, <1>5 DEF r

\* There are as many keys to be delivered as triggered events.
LEMMA KeysFinite == IsFiniteSet(Keys)
<1>1. IsFiniteSet({"flip"})
  BY FS_Singleton
<1>2. IsFiniteSet({"flip"} \union {"vblank"})
  BY <1>1, FS_AddElement
<1>3. IsFiniteSet({"flip", "vblank"} \union {"edge"})
  <2>1. {"flip", "vblank"} = {"flip"} \union {"vblank"}
    OBVIOUS
  <2> QED
    BY <1>2, <2>1, FS_AddElement
<1>4. IsFiniteSet({"flip", "vblank", "edge"} \union {"level"})
  <2>1. {"flip", "vblank", "edge"} = {"flip", "vblank"} \union {"edge"}
    OBVIOUS
  <2> QED
    BY <1>3, <2>1, FS_AddElement
<1>5. IsFiniteSet({"flip", "vblank", "edge", "level"} \union {"timer"})
  <2>1. {"flip", "vblank", "edge", "level"} = {"flip", "vblank", "edge"} \union {"level"}
    OBVIOUS
  <2> QED
    BY <1>4, <2>1, FS_AddElement
<1>6. IsFiniteSet({"flip", "vblank", "edge", "level", "timer"} \union {"hrtimer"})
  <2>1. {"flip", "vblank", "edge", "level", "timer"}
          = {"flip", "vblank", "edge", "level"} \union {"timer"}
    OBVIOUS
  <2> QED
    BY <1>5, <2>1, FS_AddElement
<1>7. Keys = {"flip", "vblank", "edge", "level", "timer"} \union {"hrtimer"}
  BY DEF Keys
<1> QED
  BY <1>6, <1>7

LEMMA PendingCount ==
  ASSUME NEW c, NEW s, IsQueue(c, s)
  PROVE  /\ IsFiniteSet(Pending(s)) /\ Cardinality(Pending(s)) \in Nat
         /\ IsFiniteSet(Ready(s)) /\ Cardinality(Ready(s)) <= Cardinality(Pending(s))
<1>1. Pending(s) \in SUBSET Keys
  <2>1. \A i \in DOMAIN s : s[i] \in EventType
    BY DEF IsQueue
  <2>2. \A i \in DOMAIN s : s[i].key \in Keys
    BY <2>1 DEF EventType
  <2> QED
    BY <2>2 DEF Pending, Ready
<1>2. IsFiniteSet(Pending(s))
  BY <1>1, KeysFinite, FS_Subset
<1> DEFINE f == [i \in Ready(s) |-> s[i].key]
<1>3. f \in Injection(Ready(s), Pending(s))
  BY DEF Injection, IsInjective, Pending, Ready, IsQueue
<1>4. IsFiniteSet(Ready(s)) /\ Cardinality(Ready(s)) <= Cardinality(Pending(s))
  BY <1>2, <1>3, FS_Injection
<1> QED
  BY <1>2, <1>4, FS_CardinalityType

\* The first triggered event is always among those that are taken.
LEMMA TakenFacts ==
  ASSUME NEW num \in Nat \ {0}, IsQueue(calls, events)
  PROVE  /\ Taken(num) \subseteq Pending(events)
         /\ Taken(num) = {} => Pending(events) = {}
<1>1. Taken(num) \subseteq Pending(events)
  BY DEF Taken, Pending
<1>2. ASSUME Pending(events) # {} PROVE Taken(num) # {}
  <2>1. Ready(events) # {} /\ Ready(events) \subseteq Nat
    BY <1>2 DEF Pending, Ready, IsQueue
  <2>2. PICK j \in Ready(events) : \A h \in Ready(events) : ~(<<h, j>> \in OpToRel(<, Nat))
    BY <2>1, WFMin, NatLessThanWellFounded, Zenon
  <2>3. ASSUME NEW h \in Ready(events), h <= j PROVE h = j
    <3>1. ~(<<h, j>> \in OpToRel(<, Nat))
      BY <2>2
    <3>2. ~(h < j)
      BY <2>1, <3>1 DEF OpToRel
    <3> QED
      BY <2>1, <2>3, <3>2
  <2>4. {h \in Ready(events) : h <= j} = {j}
    BY <2>1, <2>3
  <2>5. Cardinality({h \in Ready(events) : h <= j}) = 1
    BY <2>4, FS_Singleton
  <2>6. Cardinality({h \in Ready(events) : h <= j}) <= num
    BY <2>5
  <2>7. events[j].key \in Taken(num)
    BY <2>6 DEF Taken
  <2> QED
    BY <2>7
<1> QED
  BY <1>1, <1>2

\* A step moves the thread t, at most, from one pc to another.
Moves(f, g, t) == \A u \in Threads : u # t => g[u].pc = f[u].pc
CreditOf(pc) == IF pc \in {"notify", "woken"} THEN 1 ELSE 0

LEMMA PcCount ==
  ASSUME NEW f, NEW pc
  PROVE  IsFiniteSet(InPc(f, pc)) /\ Cardinality(InPc(f, pc)) \in Nat
<1>1. InPc(f, pc) \in SUBSET Threads
  BY DEF InPc
<1>2. IsFiniteSet(InPc(f, pc))
  BY <1>1, EqueueAssumption, FS_Subset
<1> QED
  BY <1>2, FS_CardinalityType

LEMMA PcMoves ==
  ASSUME NEW f, NEW g, NEW t \in Threads, Moves(f, g, t), NEW pc
  PROVE  Cardinality(InPc(g, pc)) =
           Cardinality(InPc(f, pc)) - (IF f[t].pc = pc THEN 1 ELSE 0)
                                    + (IF g[t].pc = pc THEN 1 ELSE 0)
<1> DEFINE F == InPc(f, pc)
           G == InPc(g, pc)
<1>1. IsFiniteSet(F) /\ IsFiniteSet(G) /\ Cardinality(F) \in Nat /\ Cardinality(G) \in Nat
  BY PcCount
<1>2. F \ {t} = G \ {t}
  BY DEF InPc, Moves
<1>3. (t \in F <=> f[t].pc = pc) /\ (t \in G <=> g[t].pc = pc)
  BY DEF InPc
<1> HIDE DEF F, G
<1>4. /\ Cardinality(F \ {t}) = IF t \in F THEN Cardinality(F) - 1 ELSE Cardinality(F)
      /\ Cardinality(G \ {t}) = IF t \in G THEN Cardinality(G) - 1 ELSE Cardinality(G)
  BY <1>1, FS_RemoveElement
<1>5. Cardinality(F \ {t}) = Cardinality(G \ {t})
  BY <1>2
<1>6. Cardinality(G) = Cardinality(F) - (IF t \in F THEN 1 ELSE 0) + (IF t \in G THEN 1 ELSE 0)
  BY <1>1, <1>4, <1>5
<1> QED
  BY <1>3, <1>6 DEF F, G

LEMMA CreditMoves ==
  ASSUME NEW f, NEW g, NEW t \in Threads, Moves(f, g, t)
  PROVE  /\ Credit(f) \in Nat /\ Credit(g) \in Nat
         /\ Credit(g) = Credit(f) - CreditOf(f[t].pc) + CreditOf(g[t].pc)
<1>1. /\ Cardinality(InPc(f, "notify")) \in Nat /\ Cardinality(InPc(f, "woken")) \in Nat
      /\ Cardinality(InPc(g, "notify")) \in Nat /\ Cardinality(InPc(g, "woken")) \in Nat
  BY PcCount
<1>2. Cardinality(InPc(g, "notify")) =
        Cardinality(InPc(f, "notify")) - (IF f[t].pc = "notify" THEN 1 ELSE 0)
                                       + (IF g[t].pc = "notify" THEN 1 ELSE 0)
  BY PcMoves
<1>3. Cardinality(InPc(g, "woken")) =
        Cardinality(InPc(f, "woken")) - (IF f[t].pc = "woken" THEN 1 ELSE 0)
                                      + (IF g[t].pc = "woken" THEN 1 ELSE 0)
  BY PcMoves
<1> QED
  BY <1>1, <1>2, <1>3 DEF Credit, CreditOf

\* What is to be delivered changes by d at most, and what delivers it by d at least.
LEMMA StillCovered ==
  ASSUME NEW c, NEW s, NEW r, NEW f, NEW n \in Nat, NEW m \in Nat, NEW d \in Int,
         IsQueue(c, s), IsQueue(c, r), Covered(c, s, f, n),
         "level" \notin c => Cardinality(Pending(r)) <= Cardinality(Pending(s)) + d,
         m >= n + d
  PROVE  Covered(c, r, f, m)
<1>1. Cardinality(Pending(s)) \in Nat /\ Cardinality(Pending(r)) \in Nat
  BY PendingCount
<1>2. Credit(f) \in Nat
  BY PcCount DEF Credit
<1> QED
  BY <1>1, <1>2 DEF Covered

LEMMA MovesCovered ==
  ASSUME NEW c, NEW s, NEW r, NEW f, NEW g, NEW t \in Threads, Moves(f, g, t),
         NEW n \in Nat, NEW m \in Nat, NEW d \in Int,
         IsQueue(c, s), IsQueue(c, r), Covered(c, s, f, n), g[t].pc # "asleep",
         "level" \notin c => Cardinality(Pending(r)) <= Cardinality(Pending(s)) + d,
         CreditOf(g[t].pc) + m >= CreditOf(f[t].pc) + n + d
  PROVE  Covered(c, r, g, m)
<1>1. Cardinality(Pending(s)) \in Nat /\ Cardinality(Pending(r)) \in Nat
  BY PendingCount
<1>2. /\ Credit(f) \in Nat /\ Credit(g) \in Nat
      /\ Credit(g) = Credit(f) - CreditOf(f[t].pc) + CreditOf(g[t].pc)
  BY CreditMoves
<1>3. InPc(g, "asleep") # {} => InPc(f, "asleep") # {}
  BY DEF InPc, Moves
<1>4. CreditOf(f[t].pc) \in Nat /\ CreditOf(g[t].pc) \in Nat
  BY DEF CreditOf
<1> QED
  BY <1>1, <1>2, <1>3, <1>4 DEF Covered

\* notify_one turns a notification into a waiter that is awake, if one sleeps.
Notifies(f, g) ==
  \/ \E u \in InPc(f, "asleep") : g = [f EXCEPT ![u].pc = "woken"]
  \/ InPc(f, "asleep") = {} /\ g = f

LEMMA NotifyCovered ==
  ASSUME NEW c, NEW s, NEW f \in [Threads -> ThrType], NEW g, NEW n \in Nat,
         IsQueue(c, s), Covered(c, s, f, n + 1), Notifies(f, g)
  PROVE  g \in [Threads -> ThrType] /\ Covered(c, s, g, n)
<1>1. CASE InPc(f, "asleep") = {} /\ g = f
  BY <1>1 DEF Covered
<1>2. ASSUME NEW u \in InPc(f, "asleep"), g = [f EXCEPT ![u].pc = "woken"]
      PROVE  g \in [Threads -> ThrType] /\ Covered(c, s, g, n)
  <2>1. u \in Threads /\ f[u].pc = "asleep" /\ f[u] \in ThrType
    BY DEF InPc
  <2>2. g[u] = [f[u] EXCEPT !.pc = "woken"] /\ \A v \in Threads : v # u => g[v] = f[v]
    BY <1>2, <2>1
  <2>3. g[u] \in ThrType /\ g[u].pc = "woken"
    BY <2>1, <2>2 DEF ThrType
  <2>4. Moves(f, g, u)
    BY <2>2 DEF Moves
  <2>5. CreditOf(g[u].pc) = 1 /\ CreditOf(f[u].pc) = 0
    BY <2>1, <2>3 DEF CreditOf
  <2>6. Cardinality(Pending(s)) \in Nat
    BY PendingCount
  <2>7. Covered(c, s, g, n)
    <3>1. CreditOf(g[u].pc) + n >= CreditOf(f[u].pc) + (n + 1) + 0
      BY <2>5
    <3>2. Cardinality(Pending(s)) <= Cardinality(Pending(s)) + 0 /\ g[u].pc # "asleep"
      BY <2>3, <2>6
    <3> QED
      BY <2>1, <2>4, <3>1, <3>2, MovesCovered
  <2>8. g \in [Threads -> ThrType]
    BY <1>2, <2>1, <2>3
  <2> QED
    BY <2>7, <2>8
<1> QED
  BY <1>1, <1>2 DEF Notifies

LEMMA NoticesType == Notices \in Nat /\ Notices' \in Nat
BY DEF Notices, At

\* Steps that trigger no event, or one; of no guest thread, or of t.
LEMMA PendingGrows ==
  ASSUME NEW c, NEW s, NEW r, NEW k, IsQueue(c, s), Pending(r) \subseteq Pending(s) \union {k}
  PROVE  Cardinality(Pending(r)) <= Cardinality(Pending(s)) + 1
<1>1. IsFiniteSet(Pending(s)) /\ Cardinality(Pending(s)) \in Nat
  BY PendingCount
<1>2. /\ IsFiniteSet(Pending(s) \union {k})
      /\ Cardinality(Pending(s) \union {k}) <= Cardinality(Pending(s)) + 1
  <2>1. /\ IsFiniteSet(Pending(s) \union {k})
        /\ Cardinality(Pending(s) \union {k}) =
             IF k \in Pending(s) THEN Cardinality(Pending(s)) ELSE Cardinality(Pending(s)) + 1
    BY <1>1, FS_AddElement
  <2> QED
    BY <1>1, <2>1
<1>3. /\ Cardinality(Pending(r)) <= Cardinality(Pending(s) \union {k})
      /\ IsFiniteSet(Pending(r))
  BY <1>2, FS_Subset
<1> QED
  BY <1>1, <1>2, <1>3, FS_CardinalityType

LEMMA PendingShrinks ==
  ASSUME NEW c, NEW s, NEW r, IsQueue(c, s), Pending(r) \subseteq Pending(s)
  PROVE  Cardinality(Pending(r)) <= Cardinality(Pending(s)) + 0
<1>1. IsFiniteSet(Pending(s)) /\ Cardinality(Pending(s)) \in Nat
  BY PendingCount
<1>2. Cardinality(Pending(r)) <= Cardinality(Pending(s))
  BY <1>1, FS_Subset
<1> QED
  BY <1>1, <1>2

LEMMA EventQuiet ==
  ASSUME EventInv, UNCHANGED <<calls, thr>>, IsQueue(calls, events'),
         Pending(events') \subseteq Pending(events), Notices' >= Notices
  PROVE  EventInv'
<1>1. PICK n \in Nat, m \in Nat : n = Notices /\ m = Notices'
  BY NoticesType
<1>2. PICK r : r = events'
  OBVIOUS
<1>3. Cardinality(Pending(r)) <= Cardinality(Pending(events)) + 0
  BY <1>2, PendingShrinks DEF EventInv
<1>4. Covered(calls, r, thr, m)
  <2>1. m >= n + 0
    BY <1>1
  <2>2. IsQueue(calls, events) /\ IsQueue(calls, r) /\ Covered(calls, events, thr, n)
    BY <1>1, <1>2 DEF EventInv
  <2> QED
    BY <1>3, <2>1, <2>2, StillCovered
<1> QED
  BY <1>1, <1>2, <1>4 DEF EventInv

LEMMA EventTriggered ==
  ASSUME EventInv, UNCHANGED <<calls, thr>>, NEW k, events' = Triggered(k), Notices' >= Notices + 1
  PROVE  EventInv'
<1>1. PICK n \in Nat, m \in Nat : n = Notices /\ m = Notices'
  BY NoticesType
<1>2. PICK r : r = events'
  OBVIOUS
<1>3. IsQueue(calls, r) /\ Pending(r) \subseteq Pending(events) \union {k}
  BY <1>2, TriggeredFacts DEF EventInv
<1>4. Cardinality(Pending(r)) <= Cardinality(Pending(events)) + 1
  BY <1>3, PendingGrows DEF EventInv
<1>5. Covered(calls, r, thr, m)
  <2>1. m >= n + 1
    BY <1>1
  <2>2. IsQueue(calls, events) /\ IsQueue(calls, r) /\ Covered(calls, events, thr, n)
    BY <1>1, <1>3 DEF EventInv
  <2> QED
    BY <1>4, <2>1, <2>2, StillCovered
<1> QED
  BY <1>1, <1>2, <1>3, <1>5 DEF EventInv

LEMMA EventMoved ==
  ASSUME EventInv, UNCHANGED <<calls>>, NEW t \in Threads, thr' \in [Threads -> ThrType],
         Moves(thr, thr', t), thr'[t].pc # "asleep", Notices' = Notices,
         IsQueue(calls, events'), Pending(events') \subseteq Pending(events),
         CreditOf(thr'[t].pc) >= CreditOf(thr[t].pc)
  PROVE  EventInv'
<1>1. PICK n \in Nat : n = Notices /\ n = Notices'
  BY NoticesType
<1>2. PICK r, f, g : r = events' /\ f = thr /\ g = thr'
  OBVIOUS
<1>3. Cardinality(Pending(r)) <= Cardinality(Pending(events)) + 0
  BY <1>2, PendingShrinks DEF EventInv
<1>4. Covered(calls, r, g, n)
  <2>1. CreditOf(g[t].pc) + n >= CreditOf(f[t].pc) + n + 0
    BY <1>2 DEF CreditOf
  <2>2. IsQueue(calls, events) /\ IsQueue(calls, r) /\ Covered(calls, events, f, n)
    BY <1>1, <1>2 DEF EventInv
  <2>3. Moves(f, g, t) /\ g[t].pc # "asleep"
    BY <1>2
  <2> QED
    BY <1>3, <2>1, <2>2, <2>3, MovesCovered
<1> QED
  BY <1>1, <1>2, <1>4 DEF EventInv

\* notify_one by the service or the present thread, which then has none to give.
LEMMA EventNotified ==
  ASSUME EventInv, UNCHANGED <<calls, events>>, NotifyOne(thr), Notices' >= Notices - 1
  PROVE  EventInv'
<1>1. PICK n \in Nat, m \in Nat : n = Notices /\ m = Notices'
  BY NoticesType
<1>2. PICK g : g = thr'
  OBVIOUS
<1>3. Notifies(thr, g)
  BY <1>2 DEF NotifyOne, Notifies, Asleep, InPc
<1>4. Covered(calls, events, thr, m + 1)
  <2>0. m >= n - 1
    BY <1>1
  <2>1. m + 1 >= n + 0 /\ m + 1 \in Nat
    BY <2>0
  <2>2. IsQueue(calls, events) /\ Covered(calls, events, thr, n)
    BY <1>1 DEF EventInv
  <2>3. Cardinality(Pending(events)) <= Cardinality(Pending(events)) + 0
    BY <2>2, PendingShrinks
  <2> QED
    BY <2>1, <2>2, <2>3, StillCovered
<1>5. g \in [Threads -> ThrType] /\ Covered(calls, events, g, m)
  BY <1>3, <1>4, NotifyCovered DEF EventInv
<1> QED
  BY <1>1, <1>2, <1>5 DEF EventInv

LEMMA EventService ==
  ASSUME EventInv, EqServiceStep, UNCHANGED <<calls, present>>
  PROVE  EventInv'
<1>0. At(present, "notify")' = At(present, "notify") /\ At(present, "notify") \in Nat
  BY DEF At
<1>1. ASSUME UNCHANGED <<events, thr>>, service.pc # "notify" PROVE EventInv'
  <2>1. Notices' >= Notices
    BY <1>0, <1>1 DEF Notices, At
  <2> QED
    BY <1>1, <2>1, EventQuiet DEF EventInv
<1>2. CASE CallbackTrigger
  <2>1. /\ service.pc = "trigger" /\ UNCHANGED thr
        /\ events' = Triggered(service.key) /\ service'.pc = "notify"
    BY <1>2 DEF CallbackTrigger, ServiceGoto
  <2>2. Notices' >= Notices + 1
    BY <1>0, <2>1 DEF Notices, At
  <2> QED
    BY <2>1, <2>2, EventTriggered
<1>3. CASE CallbackNotify
  <2>1. NotifyOne(thr) /\ UNCHANGED events /\ service.pc = "notify"
    BY <1>3 DEF CallbackNotify
  <2>2. Notices' >= Notices - 1
    BY <1>0, <2>1 DEF Notices, At
  <2> QED
    BY <2>1, <2>2, EventNotified
<1> QED
  BY <1>1, <1>2, <1>3
     DEF EqServiceStep, ServiceRun, Callback, Reschedule, ServiceStop, ServiceForget, Expire

\* What the assignments of the calls do to a thread.
LEMMA ThrFields ==
  ASSUME NEW f \in [Threads -> ThrType], NEW t \in Threads
  PROVE  f[t] \in ThrType /\ f[t].num \in Nat \ {0} /\ f[t].keys \subseteq Keys
BY DEF ThrType

LEMMA IdleType == Idle \in ThrType /\ Idle.pc = "idle"
BY DEF Idle, ThrType

Pcs == {"idle", "schedule", "delsmall", "delete", "notify", "check", "woken", "asleep", "spin",
        "polled"}

Assigned(f, g, t, p, n, K) ==
  \/ g = [f EXCEPT ![t].pc = p]
  \/ g = [f EXCEPT ![t].pc = p, ![t].keys = K]
  \/ g = [f EXCEPT ![t].pc = p, ![t].num = n]
  \/ g = [f EXCEPT ![t] = Idle] /\ p = "idle"

LEMMA ThrAssigned ==
  ASSUME NEW f \in [Threads -> ThrType], NEW t \in Threads, NEW p \in Pcs,
         NEW n \in Nat \ {0}, NEW K \in SUBSET Keys, NEW g, Assigned(f, g, t, p, n, K)
  PROVE  g \in [Threads -> ThrType] /\ Moves(f, g, t) /\ g[t].pc = p
<1>1. f[t] \in ThrType
  OBVIOUS
<1>2. /\ [f[t] EXCEPT !.pc = p] \in ThrType
      /\ [f[t] EXCEPT !.pc = p, !.keys = K] \in ThrType
      /\ [f[t] EXCEPT !.pc = p, !.num = n] \in ThrType
      /\ [f[t] EXCEPT !.pc = p].pc = p
      /\ [f[t] EXCEPT !.pc = p, !.keys = K].pc = p
      /\ [f[t] EXCEPT !.pc = p, !.num = n].pc = p
  BY <1>1 DEF ThrType, Pcs
<1>3. CASE g = [f EXCEPT ![t].pc = p]
  BY <1>2, <1>3 DEF Moves
<1>4. CASE g = [f EXCEPT ![t].pc = p, ![t].keys = K]
  BY <1>2, <1>4 DEF Moves
<1>5. CASE g = [f EXCEPT ![t].pc = p, ![t].num = n]
  BY <1>2, <1>5 DEF Moves
<1>6. CASE g = [f EXCEPT ![t] = Idle] /\ p = "idle"
  BY <1>6, IdleType DEF Moves
<1> QED
  BY <1>3, <1>4, <1>5, <1>6 DEF Assigned

\* A thread that was not to wake another goes on, or returns.
LEMMA EventGoesOn ==
  ASSUME EventInv, UNCHANGED <<calls, service, present>>, NEW t \in Threads,
         thr' \in [Threads -> ThrType], Moves(thr, thr', t), thr'[t].pc # "asleep",
         thr[t].pc \notin {"notify", "woken"},
         IsQueue(calls, events'), Pending(events') \subseteq Pending(events)
  PROVE  EventInv'
<1>2. Notices' = Notices
  BY DEF Notices, At
<1>3. CreditOf(thr'[t].pc) >= CreditOf(thr[t].pc)
  BY DEF CreditOf
<1> QED
  BY <1>2, <1>3, EventMoved

LEMMA EventCalls ==
  ASSUME EventInv, NEW t \in Threads, EqCall(t), UNCHANGED <<calls, present>>
  PROVE  EventInv'
<1>0. IsQueue(calls, events) /\ thr \in [Threads -> ThrType]
  BY DEF EventInv
<1>a. ASSUME UNCHANGED <<thr, service>>, IsQueue(calls, events'),
             Pending(events') \subseteq Pending(events)
      PROVE  EventInv'
  <2>1. Notices' >= Notices
    BY <1>a DEF Notices, At
  <2> QED
    BY <1>a, <2>1, EventQuiet
<1>1. ASSUME NEW k \in UserKeys \union TimerKeys, AddEvent(t, k) PROVE EventInv'
  <2>1. k \in Keys /\ (k = "level" => "level" \in calls) /\ UNCHANGED service
    BY <1>1 DEF AddEvent, UserKeys, TimerKeys, Keys
  <2>2. IsQueue(calls, events') /\ Pending(events') \subseteq Pending(events)
    BY <1>0, <1>1, <2>1, AddedFacts DEF AddEvent
  <2>3. CASE UNCHANGED thr
    BY <1>a, <2>1, <2>2, <2>3
  <2>4. CASE thr' = [thr EXCEPT ![t].pc = "schedule", ![t].keys = {k}]
    <3>1. PICK K \in SUBSET Keys, p \in Pcs : K = {k} /\ p = "schedule"
      BY <2>1 DEF Pcs
    <3>2. Assigned(thr, thr', t, p, 1, K)
      BY <2>4, <3>1 DEF Assigned
    <3>3. thr' \in [Threads -> ThrType] /\ Moves(thr, thr', t) /\ thr'[t].pc = "schedule"
      BY <1>0, <3>1, <3>2, ThrAssigned
    <3>4. thr[t].pc = "idle"
      BY <1>1 DEF AddEvent
    <3> QED
      BY <2>1, <2>2, <3>3, <3>4, EventGoesOn
  <2> QED
    BY <1>1, <2>3, <2>4 DEF AddEvent
<1>2. ASSUME NEW k \in UserKeys \union TimerKeys, DeleteEvent(t, k) PROVE EventInv'
  <2>1. events' = Without(events, k)
    BY <1>2 DEF DeleteEvent, Remove
  <2>2. IsQueue(calls, events') /\ Pending(events') \subseteq Pending(events)
    BY <1>0, <2>1, WithoutThinner, ThinnerQueue
  <2> QED
    BY <1>2, <1>a, <2>2 DEF DeleteEvent
<1>3. ASSUME NEW k, TriggerUserEvent(t, k) PROVE EventInv'
  <2>1. /\ thr[t].pc = "idle" /\ events' = Triggered(k) /\ UNCHANGED service
        /\ thr' = [thr EXCEPT ![t].pc = "notify"]
    BY <1>3 DEF TriggerUserEvent, Goto
  <2>4. thr' \in [Threads -> ThrType] /\ Moves(thr, thr', t) /\ thr'[t].pc = "notify"
    <3>1. "notify" \in Pcs
      BY DEF Pcs
    <3>2. Assigned(thr, thr', t, "notify", 1, {})
      BY <2>1 DEF Assigned
    <3> QED
      BY <1>0, <3>1, <3>2, ThrAssigned
  <2>5. PICK n \in Nat : n = Notices /\ n = Notices'
    <3>1. Notices' = Notices
      BY <2>1 DEF Notices, At
    <3> QED
      BY <3>1, NoticesType
  <2>6. PICK r, g : r = events' /\ g = thr'
    OBVIOUS
  <2>7. IsQueue(calls, r) /\ Pending(r) \subseteq Pending(events) \union {k}
    BY <1>0, <2>1, <2>6, TriggeredFacts
  <2>8. Cardinality(Pending(r)) <= Cardinality(Pending(events)) + 1
    BY <1>0, <2>7, PendingGrows
  <2>9. Covered(calls, r, g, n)
    <3>1. CreditOf(g[t].pc) + n >= CreditOf(thr[t].pc) + n + 1
      BY <2>1, <2>4, <2>6 DEF CreditOf
    <3>2. Moves(thr, g, t) /\ g[t].pc # "asleep" /\ Covered(calls, events, thr, n)
      BY <2>4, <2>5, <2>6 DEF EventInv
    <3> QED
      BY <1>0, <2>7, <2>8, <3>1, <3>2, MovesCovered
  <2> QED
    BY <2>4, <2>5, <2>6, <2>7, <2>9 DEF EventInv
<1>4. CASE AddSmallTimer(t)
  BY <1>0, <1>4, <1>a DEF AddSmallTimer
<1>5. ASSUME NEW num \in Nums, Poll(t, num) PROVE EventInv'
  <2>1. /\ thr[t].pc = "idle" /\ UNCHANGED <<events, service>>
        /\ thr' = [thr EXCEPT ![t].pc = "polled", ![t].keys = Taken(num)]
    BY <1>5 DEF Poll
  <2>2. Taken(num) \subseteq Keys
    <3>1. \A i \in DOMAIN events : events[i] \in EventType
      BY <1>0 DEF IsQueue
    <3> QED
      BY <3>1 DEF Taken, Ready, EventType
  <2>3. "polled" \in Pcs
    BY DEF Pcs
  <2>a. Assigned(thr, thr', t, "polled", 1, Taken(num))
    BY <2>1 DEF Assigned
  <2>4. thr' \in [Threads -> ThrType] /\ Moves(thr, thr', t) /\ thr'[t].pc = "polled"
    BY <1>0, <2>a, <2>2, <2>3, ThrAssigned
  <2> QED
    BY <1>0, <2>1, <2>4, EventGoesOn
<1>6. ASSUME NEW num \in Nums, WaitForEvents(t, num) PROVE EventInv'
  <2>1. PICK p \in {"spin", "check"} :
          thr' = [thr EXCEPT ![t].pc = p, ![t].num = num]
    BY <1>6 DEF WaitForEvents
  <2>2. thr[t].pc = "idle" /\ UNCHANGED <<events, service>>
    BY <1>6 DEF WaitForEvents
  <2>3. p \in Pcs /\ num \in Nat \ {0}
    BY EqueueAssumption DEF Pcs
  <2>a. Assigned(thr, thr', t, p, num, {})
    BY <2>1 DEF Assigned
  <2>4. thr' \in [Threads -> ThrType] /\ Moves(thr, thr', t) /\ thr'[t].pc = p
    BY <1>0, <2>a, <2>3, ThrAssigned
  <2> QED
    BY <1>0, <2>2, <2>4, EventGoesOn
<1>7. CASE DeleteHRTimerEvent(t)
  <2>1. PICK p \in {"delsmall", "delete"} : thr' = [thr EXCEPT ![t].pc = p]
    BY <1>7 DEF DeleteHRTimerEvent, Goto
  <2>2. thr[t].pc = "idle" /\ UNCHANGED <<events, service>>
    BY <1>7 DEF DeleteHRTimerEvent
  <2>3. p \in Pcs /\ Assigned(thr, thr', t, p, 1, {})
    BY <2>1 DEF Pcs, Assigned
  <2>4. thr' \in [Threads -> ThrType] /\ Moves(thr, thr', t) /\ thr'[t].pc = p
    BY <1>0, <2>3, ThrAssigned
  <2> QED
    BY <1>0, <2>2, <2>4, EventGoesOn
<1> QED
  BY <1>1, <1>2, <1>3, <1>4, <1>5, <1>6, <1>7 DEF EqCall

\* The thread of a call that returns.
LEMMA Returned ==
  ASSUME EventInv, NEW t \in Threads, Return(t)
  PROVE  thr' \in [Threads -> ThrType] /\ Moves(thr, thr', t) /\ thr'[t].pc = "idle"
<1>1. "idle" \in Pcs
  BY DEF Pcs
<1>2. Assigned(thr, thr', t, "idle", 1, {})
  BY DEF Assigned, Return
<1> QED
  BY <1>1, <1>2, ThrAssigned DEF EventInv

\* A woken waiter uses its wake-up, and delivers an event at least; or it finds none,
\* and no event is left behind.
LEMMA EventChecked ==
  ASSUME EventInv, NEW t \in Threads, Check(t), UNCHANGED <<calls, present>>
  PROVE  EventInv'
<1> DEFINE K == Taken(thr[t].num)
<1>0. /\ IsQueue(calls, events) /\ thr \in [Threads -> ThrType]
      /\ thr[t].pc \in {"check", "woken"} /\ UNCHANGED service
  BY DEF EventInv, Check
<1>1. K \subseteq Pending(events) /\ (K = {} => Pending(events) = {})
  BY <1>0, ThrFields, TakenFacts
<1>2. PICK n \in Nat : n = Notices /\ n = Notices'
  <2>1. Notices' = Notices
    BY <1>0 DEF Notices, At
  <2> QED
    BY <2>1, NoticesType
<1>3. PICK r, g : r = events' /\ g = thr'
  OBVIOUS
<1>4. IsFiniteSet(Pending(events)) /\ Cardinality(Pending(events)) \in Nat
  BY <1>0, PendingCount
<1>5. CASE K # {} /\ events' = AfterTaking(events, K) /\ Return(t)
  <2>1. thr' \in [Threads -> ThrType] /\ Moves(thr, thr', t) /\ thr'[t].pc = "idle"
    BY <1>5, Returned
  <2>2. /\ IsQueue(calls, r) /\ Pending(r) \subseteq Pending(events)
        /\ "level" \notin calls => Pending(r) \subseteq Pending(events) \ K
    BY <1>0, <1>3, <1>5, TakingFacts
  <2>3. ASSUME "level" \notin calls PROVE Cardinality(Pending(r)) <= Cardinality(Pending(events)) - 1
    <3>1. PICK k \in K : TRUE
      BY <1>5
    <3>2. k \in Pending(events) /\ Pending(r) \subseteq Pending(events) \ {k}
      BY <1>1, <2>2, <2>3, <3>1
    <3>3. /\ IsFiniteSet(Pending(events) \ {k})
          /\ Cardinality(Pending(events) \ {k}) = Cardinality(Pending(events)) - 1
      BY <1>4, <3>2, FS_RemoveElement
    <3>4. Cardinality(Pending(r)) <= Cardinality(Pending(events) \ {k})
      BY <3>2, <3>3, FS_Subset
    <3> QED
      BY <3>3, <3>4
  <2>4. Covered(calls, r, g, n)
    <3>1. CreditOf(g[t].pc) + n >= CreditOf(thr[t].pc) + n + (-1)
      BY <1>3, <2>1 DEF CreditOf
    <3>2. Moves(thr, g, t) /\ g[t].pc # "asleep" /\ Covered(calls, events, thr, n)
      BY <1>2, <1>3, <2>1 DEF EventInv
    <3>3. "level" \notin calls => Cardinality(Pending(r)) <= Cardinality(Pending(events)) + (-1)
      BY <1>4, <2>3
    <3>4. -1 \in Int
      OBVIOUS
    <3> HIDE DEF K
    <3> QED
      BY <1>0, <2>2, <3>1, <3>2, <3>3, <3>4, MovesCovered
  <2> QED
    BY <1>2, <1>3, <2>1, <2>2, <2>4 DEF EventInv
<1>6. CASE K = {} /\ Goto(t, "asleep") /\ UNCHANGED events
  <2>1. thr' \in [Threads -> ThrType]
    <3>1. "asleep" \in Pcs
      BY DEF Pcs
    <3>2. Assigned(thr, thr', t, "asleep", 1, {})
      BY <1>6 DEF Assigned, Goto
    <3> QED
      BY <1>0, <3>1, <3>2, ThrAssigned
  <2>2. Cardinality(Pending(events)) = 0
    BY <1>1, <1>4, <1>6, FS_EmptySet
  <2>3. Credit(g) \in Nat
    BY PcCount DEF Credit
  <2>4. Covered(calls, events, g, n)
    BY <2>2, <2>3 DEF Covered
  <2> QED
    BY <1>0, <1>2, <1>3, <1>6, <2>1, <2>4 DEF EventInv
<1> QED
  BY <1>5, <1>6 DEF Check

LEMMA EventThreadNotifies ==
  ASSUME EventInv, NEW t \in Threads, Notify(t), UNCHANGED <<calls, present>>
  PROVE  EventInv'
<1>0. /\ IsQueue(calls, events) /\ thr \in [Threads -> ThrType] /\ thr[t].pc = "notify"
      /\ UNCHANGED <<service, events>> /\ NotifyOne([thr EXCEPT ![t] = Idle])
  BY DEF EventInv, Notify
<1>1. PICK n \in Nat : n = Notices /\ n = Notices'
  <2>1. Notices' = Notices
    BY <1>0 DEF Notices, At
  <2> QED
    BY <2>1, NoticesType
<1>2. PICK f, g : f = [thr EXCEPT ![t] = Idle] /\ g = thr'
  OBVIOUS
<1>3. f \in [Threads -> ThrType] /\ Moves(thr, f, t) /\ f[t].pc = "idle"
  <2>1. "idle" \in Pcs
    BY DEF Pcs
  <2>2. Assigned(thr, f, t, "idle", 1, {})
    BY <1>2 DEF Assigned
  <2> QED
    BY <1>0, <2>1, <2>2, ThrAssigned
<1>4. Covered(calls, events, f, n + 1)
  <2>1. CreditOf(f[t].pc) + (n + 1) >= CreditOf(thr[t].pc) + n + 0
    BY <1>3 DEF CreditOf
  <2>2. Cardinality(Pending(events)) <= Cardinality(Pending(events)) + 0
    BY <1>0, PendingShrinks
  <2>3. Covered(calls, events, thr, n)
    BY <1>1 DEF EventInv
  <2>4. f[t].pc # "asleep" /\ n + 1 \in Nat
    BY <1>3
  <2> QED
    BY <1>0, <1>3, <2>1, <2>2, <2>3, <2>4, MovesCovered
<1>5. Notifies(f, g)
  <2>1. InPc(f, "asleep") = Asleep
    BY <1>0, <1>3 DEF InPc, Asleep, Moves
  <2> QED
    BY <1>0, <1>2, <2>1 DEF NotifyOne, Notifies
<1>6. g \in [Threads -> ThrType] /\ Covered(calls, events, g, n)
  BY <1>0, <1>3, <1>4, <1>5, NotifyCovered
<1> QED
  BY <1>0, <1>1, <1>2, <1>6 DEF EventInv

\* The other steps of a call.
LEMMA EventResumes ==
  ASSUME EventInv, NEW t \in Threads, EqResume(t) \/ EqExpire(t), UNCHANGED <<calls, present>>
  PROVE  EventInv'
<1>0. IsQueue(calls, events)
  BY DEF EventInv
<1>1. CASE Schedule(t) \/ WaitForSmallTimer(t)
  <2>1. /\ Return(t) /\ UNCHANGED <<events, service>> /\ thr[t].pc \in {"schedule", "spin"}
    BY <1>1 DEF Schedule, WaitForSmallTimer
  <2> QED
    BY <1>0, <2>1, Returned, EventGoesOn
<1>2. CASE WaitTimeout(t) \/ PollClear(t)
  <2>1. PICK K : events' = AfterTaking(events, K)
    BY <1>2 DEF WaitTimeout, PollClear
  <2>2. Return(t) /\ UNCHANGED service /\ thr[t].pc \in {"asleep", "polled"}
    BY <1>2 DEF WaitTimeout, PollClear
  <2>3. IsQueue(calls, events') /\ Pending(events') \subseteq Pending(events)
    BY <1>0, <2>1, TakingFacts
  <2> QED
    BY <2>2, <2>3, Returned, EventGoesOn
<1>3. CASE DeleteHRTimer(t)
  <2>1. events' = events \/ events' = Without(events, "hrtimer")
    BY <1>3 DEF DeleteHRTimer, Remove
  <2>2. Return(t) /\ UNCHANGED service /\ thr[t].pc \in {"delsmall", "delete"}
    BY <1>3 DEF DeleteHRTimer
  <2>3. IsQueue(calls, events') /\ Pending(events') \subseteq Pending(events)
    BY <1>0, <2>1, WithoutThinner, ThinnerQueue
  <2> QED
    BY <2>2, <2>3, Returned, EventGoesOn
<1> QED
  BY <1>1, <1>2, <1>3, EventChecked, EventThreadNotifies DEF EqResume, EqExpire

\* The driver: it adds and removes its events, triggers them and notifies.
LEMMA EventDriver ==
  ASSUME EventInv, DriverTypes, UNCHANGED calls,
         GuestCall \/ SubmitCount \/ SubmitSend \/ GpuStep \/ PresentStep
  PROVE  EventInv'
<1>0. /\ IsQueue(calls, events)
      /\ present = [pc |-> present.pc, req |-> present.req, key |-> present.key]
  BY DEF EventInv, DriverTypes, PresentOK, PresentType
<1>1. ASSUME UNCHANGED <<thr, service>>, present.pc # "notify" \/ UNCHANGED present,
             IsQueue(calls, events'), Pending(events') \subseteq Pending(events)
      PROVE  EventInv'
  <2>1. Notices' >= Notices
    BY <1>1 DEF Notices, At
  <2> QED
    BY <1>1, <2>1, EventQuiet
<1>2. ASSUME UNCHANGED eqVars, present.pc # "notify" \/ UNCHANGED present PROVE EventInv'
  BY <1>0, <1>1, <1>2 DEF eqVars
<1>3. CASE TriggerEvent
  <2>1. present.pc = "trigger" /\ UNCHANGED <<thr, service>>
    BY <1>3 DEF TriggerEvent
  <2>2. CASE events' = Triggered(present.key) /\ PresentGoto("notify")
    <3>1. present'.pc = "notify"
      BY <1>0, <2>2 DEF PresentGoto
    <3>2. Notices' >= Notices + 1
      BY <2>1, <3>1 DEF Notices, At
    <3> QED
      BY <2>1, <2>2, <3>2, EventTriggered
  <2>3. CASE UNCHANGED events
    BY <1>0, <1>1, <2>1, <2>3
  <2> QED
    BY <1>3, <2>2, <2>3 DEF TriggerEvent
<1>4. CASE NotifyEvent
  <2>1. NotifyOne(thr) /\ UNCHANGED <<events, service>>
    BY <1>4 DEF NotifyEvent
  <2>2. Notices' >= Notices - 1
    BY <2>1 DEF Notices, At
  <2> QED
    BY <2>1, <2>2, EventNotified
<1>5. CASE PresentStep /\ ~TriggerEvent /\ ~NotifyEvent
  <2>1. UNCHANGED eqVars /\ present.pc # "notify"
    BY <1>5 DEF PresentStep, ApplyDueLabelRetirement, RetireLabel, TakeRequest, DrawBlankFrame,
                Present, FlipStatus,
                ResetPrevLabel, CancelRetirement, PresentSignal, SavePrev, Vblank
  <2> QED
    BY <1>2, <2>1
<1>6. CASE GpuStep \/ SubmitCount \/ SubmitSend
  <2>1. UNCHANGED eqVars /\ UNCHANGED present
    BY <1>6 DEF GpuStep, GpuLock, GpuCommand, GpuPass, GpuSleep, GpuFrame, RecordGpuLock, GpuWrite,
                EopGeneration, EopCount, EopPush, PrepareFrame, SubmitCount, SubmitSend
  <2> QED
    BY <1>2, <2>1
<1>7. CASE Close
  <2>1. events' = WithoutIf(WithoutIf(events, "flip"), "vblank") /\ UNCHANGED <<thr, service, present>>
    BY <1>7 DEF Close
  <2>2. ASSUME NEW s, NEW k, IsQueue(calls, s)
        PROVE  IsQueue(calls, WithoutIf(s, k)) /\ Pending(WithoutIf(s, k)) \subseteq Pending(s)
    <3>1. Thinner(WithoutIf(s, k), s)
      BY <2>2, WithoutThinner DEF WithoutIf
    <3> QED
      BY <2>2, <3>1, ThinnerQueue
  <2>3. PICK s : s = WithoutIf(events, "flip")
    OBVIOUS
  <2>4. IsQueue(calls, s) /\ Pending(s) \subseteq Pending(events)
    BY <1>0, <2>2, <2>3
  <2>5. IsQueue(calls, events') /\ Pending(events') \subseteq Pending(s)
    BY <2>1, <2>2, <2>3, <2>4
  <2> QED
    BY <1>1, <2>1, <2>4, <2>5
<1>8. ASSUME NEW t, NEW k \in {"flip", "vblank"}, AddPortEvent(t, k) PROVE EventInv'
  <2>1. events' = Added(k) /\ UNCHANGED <<thr, service, present>>
    BY <1>8 DEF AddPortEvent
  <2>2. k \in Keys /\ k # "level"
    BY DEF Keys
  <2>3. IsQueue(calls, events') /\ Pending(events') \subseteq Pending(events)
    BY <1>0, <2>1, <2>2, AddedFacts
  <2> QED
    BY <1>1, <2>1, <2>3
<1>9. CASE GuestCall /\ ~Close /\ ~\E t \in Threads, k \in {"flip", "vblank"} : AddPortEvent(t, k)
  <2>1. UNCHANGED eqVars /\ UNCHANGED present
    BY <1>9 DEF GuestCall, SubmitFlip, SetFlipRate, Open, UnregisterBuffers, RegisterBuffers,
                DeletePortEvent
  <2> QED
    BY <1>2, <2>1
<1> QED
  BY <1>3, <1>4, <1>5, <1>6, <1>7, <1>8, <1>9

LEMMA EventInit == Init => EventInv
<1> SUFFICES ASSUME Init PROVE EventInv
  OBVIOUS
<1>1. events = <<>> /\ thr = [t \in Threads |-> Idle]
  BY DEF Init, EqInit
<1>2. IsQueue(calls, events)
  BY <1>1 DEF IsQueue
<1>3. thr \in [Threads -> ThrType] /\ InPc(thr, "asleep") = {}
  BY <1>1, IdleType DEF InPc
<1> QED
  BY <1>2, <1>3 DEF EventInv, Covered

LEMMA EventNext ==
  ASSUME EventInv, DriverTypes, [Next]_vars
  PROVE  EventInv'
<1>1. CASE UNCHANGED vars
  <2>1. UNCHANGED <<calls, thr, events, service, present>>
    BY <1>1 DEF vars, eqVars
  <2>2. Notices' >= Notices /\ IsQueue(calls, events)
    BY <2>1 DEF Notices, At, EventInv
  <2> QED
    BY <2>1, <2>2, EventQuiet
<1>2. CASE Running(QueueStep)
  <2>1. UNCHANGED calls
    BY <1>2 DEF Running
  <2>2. CASE Alone(EqServiceStep)
    BY <2>1, <2>2, EventService DEF Alone
  <2>3. ASSUME NEW t \in Threads, Alone(EqCall(t)) \/ Alone(EqResume(t)) \/ Alone(EqExpire(t))
        PROVE  EventInv'
    BY <2>1, <2>3, EventCalls, EventResumes DEF Alone
  <2> QED
    BY <1>2, <2>2, <2>3 DEF Running, QueueStep
<1>3. CASE Running(GuestCall \/ SubmitCount \/ SubmitSend \/ GpuStep \/ PresentStep)
  BY <1>3, EventDriver DEF Running
<1> QED
  BY <1>1, <1>2, <1>3 DEF Next, Running, Ended

LEMMA EventImplies == EventInv => NoLostEvent
<1> SUFFICES ASSUME EventInv PROVE NoLostEvent
  OBVIOUS
<1>1. Cardinality({p \in {service.pc} : p = "notify"}) = At(service, "notify")
  <2>1. ASSUME NEW x PROVE Cardinality({p \in {x} : p = "notify"}) = IF x = "notify" THEN 1 ELSE 0
    BY CountOne
  <2> QED
    BY <2>1 DEF At
<1>2. Cardinality({p \in {present.pc} : p = "notify"}) = At(present, "notify")
  <2>1. ASSUME NEW x PROVE Cardinality({p \in {x} : p = "notify"}) = IF x = "notify" THEN 1 ELSE 0
    BY CountOne
  <2> QED
    BY <2>1 DEF At
<1>3. InPc(thr, "notify") = {t \in Threads : thr[t].pc = "notify"}
  BY DEF InPc
<1>4. InPc(thr, "woken") = {t \in Threads : thr[t].pc = "woken"} /\ InPc(thr, "asleep") = Asleep
  BY DEF InPc, Asleep
<1>5. /\ Cardinality(Ready(events)) <= Cardinality(Pending(events)) /\ IsFiniteSet(Ready(events))
      /\ Cardinality(Pending(events)) \in Nat
  BY PendingCount DEF EventInv
<1>6. Cardinality(Ready(events)) \in Nat
  BY <1>5, FS_CardinalityType
<1>7. Cardinality(InPc(thr, "notify")) \in Nat /\ Cardinality(InPc(thr, "woken")) \in Nat
  BY PcCount
<1>8. At(service, "notify") \in Nat /\ At(present, "notify") \in Nat
  BY DEF At
<1>9. Notifying + Cardinality({t \in Threads : thr[t].pc = "woken"}) = Credit(thr) + Notices
  <2>1. PICK a \in Nat, b \in Nat, c \in Nat, d \in Nat :
          /\ a = Cardinality(InPc(thr, "notify")) /\ b = Cardinality(InPc(thr, "woken"))
          /\ c = At(service, "notify") /\ d = At(present, "notify")
    BY <1>7, <1>8
  <2>2. Notifying = a + c + d
    BY <1>1, <1>2, <1>3, <2>1 DEF Notifying
  <2>3. Cardinality({t \in Threads : thr[t].pc = "woken"}) = b
    BY <1>4, <2>1
  <2>4. Credit(thr) + Notices = (a + b) + (c + d)
    BY <2>1 DEF Credit, Notices
  <2> QED
    BY <2>2, <2>3, <2>4
<1>10. "level" \notin calls /\ Asleep # {} => Cardinality(Pending(events)) <= Credit(thr) + Notices
  BY <1>4 DEF EventInv, Covered
<1>11. Credit(thr) + Notices \in Nat
  BY <1>7, <1>8 DEF Credit, Notices
<1> QED
  BY <1>5, <1>6, <1>9, <1>10, <1>11 DEF NoLostEvent

\* TriggerEvent wakes one waiter after it released m_mutex, a waiter takes at most num
\* events (equeue.cpp:175-255): for any number of waiters, triggers and timers, no
\* edge-triggered event is left behind while a waiter sleeps.
THEOREM NoEventLost == Spec => []NoLostEvent
<1>1. Init => DriverTypes /\ EventInv
  BY TypesInit, EventInit
<1>2. DriverTypes /\ EventInv /\ [Next]_vars => DriverTypes' /\ EventInv'
  BY TypesNext, EventNext
<1> QED
  BY <1>1, <1>2, EventImplies, PTL DEF Spec
=============================================================================
