----------------------------- MODULE PipeProofs -----------------------------
(* Proofs about pipes, for any number of envs and descriptors and any size  *)
(* of the buffer.                                                           *)
EXTENDS Pipe, CommonLemmas

(* A call that transfers a byte has bytes left to transfer. *)
InTransfer == \A e \in Envs : frame[e].pc \in {"copy", "move", "advance"} => frame[e].i < frame[e].n

TInv == TypeOK /\ InTransfer

FrameType == [op : Ops, pc : PCs, fd : Slots, new : Slots, child : Envs,
              n : 0..MaxCount, i : 0..MaxCount, pos : 0..(POS_MOD - 1),
              byte : Nat, cut : BOOLEAN, fd_ref : Nat, rerun : BOOLEAN]

(* An env has a descriptor 0 and the frame of an env that is in no call is  *)
(* well typed.                                                              *)
LEMMA IdleType ==
  /\ 0 \in Slots /\ 1 \in Slots
  /\ Idle \in FrameType /\ Idle.pc = "idle" /\ Idle.i = 0 /\ Idle.n = 0
  BY PipeAssumption DEF Idle, FrameType, Slots, Ops, PCs

(* There are finitely many descriptors. *)
LEMMA DescriptorsFinite == IsFiniteSet(Envs \X Slots)
<1>1. IsFiniteSet(Envs) /\ IsFiniteSet(Slots)
  BY PipeAssumption, FS_Interval DEF Slots
<1> QED
  BY <1>1, FS_Product

(* A reference count is a natural number. *)
LEMMA PagerefType == \A page : pageref(page) \in Nat
<1> TAKE page
<1>2. IsFiniteSet(Envs \X Slots)
  BY DescriptorsFinite
<1>3. /\ {x \in Envs \X Slots : x[2] \in data[x[1]]} \subseteq Envs \X Slots
      /\ {x \in Envs \X Slots : fdmap[x[1]][x[2]] = page} \subseteq Envs \X Slots
  OBVIOUS
<1>4. /\ Cardinality({x \in Envs \X Slots : x[2] \in data[x[1]]}) \in Nat
      /\ Cardinality({x \in Envs \X Slots : fdmap[x[1]][x[2]] = page}) \in Nat
  BY <1>2, <1>3, FS_Subset, FS_CardinalityType
<1> QED
  BY <1>4 DEF pageref

(* env_run changes nothing in a frame but rerun. *)
LEMMA EnvRunType ==
  ASSUME NEW e \in Envs, NEW fr \in [Envs -> FrameType], env_run(e, fr)
  PROVE  /\ curenv' \in Envs
         /\ frame' \in [Envs -> FrameType]
         /\ \A f \in Envs : /\ frame'[f].pc = fr[f].pc /\ frame'[f].op = fr[f].op
                            /\ frame'[f].i = fr[f].i /\ frame'[f].n = fr[f].n
                            /\ frame'[f].fd = fr[f].fd /\ frame'[f].new = fr[f].new
                            /\ frame'[f].child = fr[f].child
                            /\ frame'[f].fd_ref = fr[f].fd_ref
                            /\ frame'[f].pos = fr[f].pos /\ frame'[f].byte = fr[f].byte
                            /\ frame'[f].cut = fr[f].cut
         /\ \A f \in Envs \ {e} : frame'[f] = fr[f]
         /\ frame'[e].rerun = (fr[e].pc = "check_pipe")
<1> DEFINE b == fr[e].pc = "check_pipe"
<1>1. b \in BOOLEAN
  OBVIOUS
<1>2. curenv' = e /\ frame' = [fr EXCEPT ![e].rerun = b]
  BY DEF env_run
<1> HIDE DEF b
<1>3. \A f \in Envs \ {e} : frame'[f] = fr[f]
  BY <1>2
<1>4. frame'[e] = [fr[e] EXCEPT !.rerun = b]
  BY <1>2
<1>5. fr[e] \in FrameType
  OBVIOUS
<1>6. /\ frame'[e] \in FrameType /\ frame'[e].rerun = b
      /\ frame'[e].pc = fr[e].pc /\ frame'[e].op = fr[e].op
      /\ frame'[e].i = fr[e].i /\ frame'[e].n = fr[e].n
      /\ frame'[e].fd = fr[e].fd /\ frame'[e].new = fr[e].new
      /\ frame'[e].child = fr[e].child /\ frame'[e].fd_ref = fr[e].fd_ref
      /\ frame'[e].pos = fr[e].pos /\ frame'[e].byte = fr[e].byte /\ frame'[e].cut = fr[e].cut
  BY <1>1, <1>4, <1>5 DEF FrameType
<1>7. frame' \in [Envs -> FrameType]
  BY <1>2, <1>3, <1>6
<1> QED
  BY <1>2, <1>3, <1>6, <1>7 DEF b

(* So does Yield, for the env it passes the CPU to. *)
LEMMA YieldRuns ==
  ASSUME NEW e \in Envs, NEW fr, Yield(e, fr)
  PROVE  \E f \in Envs : env_run(f, fr)
  BY DEF Yield, Alive

(* What the type invariant says of a frame. *)
LEMMA FrameFacts ==
  ASSUME TInv
  PROVE  /\ frame \in [Envs -> FrameType]
         /\ \A f \in Envs : /\ frame[f] \in FrameType
                            /\ frame[f].i <= frame[f].n
                            /\ frame[f].fd \in Slots /\ frame[f].new \in Slots
                            /\ frame[f].child \in Envs
                            /\ frame[f].pc \in {"copy", "move", "advance"} => frame[f].i < frame[f].n
  BY DEF TInv, TypeOK, FrameType, InTransfer

(* What it says of the other variables. *)
LEMMA VarFacts ==
  ASSUME TInv
  PROVE  /\ p_rpos \in 0..(POS_MOD - 1) /\ p_wpos \in 0..(POS_MOD - 1)
         /\ p_buf \in [0..(BY2PIPE - 1) -> Nat]
         /\ sent \in Nat /\ received \in Nat
         /\ fdmap \in [Envs -> [Slots -> Ends \cup {NONE}]]
         /\ data \in [Envs -> SUBSET Slots]
         /\ state \in [Envs -> {"free", "forked", "alive", "dead"}]
         /\ \A f \in Envs, s \in Slots : fdmap[f][s] \in Ends \cup {NONE}
  BY SMTT(40) DEF TInv, TypeOK

(* What an interrupt does to the frames before another env runs: the one    *)
(* that was running may have its transfer cut, and that is all.             *)
LEMMA InterruptFacts ==
  ASSUME TInv, NEW e \in Envs
  PROVE  /\ Interrupted(e) \in [Envs -> FrameType]
         /\ \A f \in Envs :
              LET fr == Interrupted(e)[f] IN
              /\ fr.pc = frame[f].pc /\ fr.op = frame[f].op /\ fr.fd = frame[f].fd
              /\ fr.new = frame[f].new /\ fr.child = frame[f].child /\ fr.n = frame[f].n
              /\ fr.i = frame[f].i /\ fr.pos = frame[f].pos /\ fr.byte = frame[f].byte
              /\ fr.fd_ref = frame[f].fd_ref /\ fr.rerun = frame[f].rerun
              /\ frame[f].cut => fr.cut
              /\ f = curenv /\ e # f /\ Exposed(f) => fr.cut
<1> DEFINE b == frame[curenv].cut \/ (e # curenv /\ Exposed(curenv))
<1>1. frame \in [Envs -> FrameType] /\ curenv \in Envs
  BY FrameFacts DEF TInv, TypeOK
<1>2. b \in BOOLEAN
  BY <1>1 DEF FrameType
<1>3. Interrupted(e) = [frame EXCEPT ![curenv] = [frame[curenv] EXCEPT !.cut = b]]
  BY <1>1 DEF Interrupted
<1>b. (frame[curenv].cut => b) /\ (e # curenv /\ Exposed(curenv) => b)
  OBVIOUS
<1> HIDE DEF b
<1>4. frame[curenv] \in FrameType
  BY <1>1
<1> DEFINE fr == [frame[curenv] EXCEPT !.cut = b]
<1>5. /\ fr \in FrameType /\ fr.cut = b
      /\ fr.pc = frame[curenv].pc /\ fr.op = frame[curenv].op /\ fr.fd = frame[curenv].fd
      /\ fr.new = frame[curenv].new /\ fr.child = frame[curenv].child
      /\ fr.n = frame[curenv].n /\ fr.i = frame[curenv].i /\ fr.pos = frame[curenv].pos
      /\ fr.byte = frame[curenv].byte /\ fr.fd_ref = frame[curenv].fd_ref
      /\ fr.rerun = frame[curenv].rerun
  BY <1>2, <1>4 DEF FrameType
<1> HIDE DEF fr
<1>6. Interrupted(e) = [frame EXCEPT ![curenv] = fr]
  BY <1>3 DEF fr
<1>7. \A f \in Envs : Interrupted(e)[f] = IF f = curenv THEN fr ELSE frame[f]
  BY <1>1, <1>6
<1>8. Interrupted(e) \in [Envs -> FrameType]
  BY <1>1, <1>5, <1>6
<1> QED
  BY <1>5, <1>7, <1>8, <1>b

(* A new call. *)
LEMMA CallType ==
  ASSUME TInv, NEW e \in Envs, NEW op \in Ops, NEW pc \in PCs \ {"copy", "move", "advance"},
         NEW fd \in Slots, NEW new \in Slots, NEW n \in 0..MaxCount, Call(e, op, pc, fd, new, n)
  PROVE  /\ frame' \in [Envs -> FrameType]
         /\ \A f \in Envs : frame'[f].i <= frame'[f].n
         /\ InTransfer'
<1> DEFINE new_frame == [Idle EXCEPT !.op = op, !.pc = pc, !.fd = fd, !.new = new, !.n = n]
<1>1. /\ new_frame \in FrameType /\ new_frame.i = 0 /\ new_frame.n = n
      /\ new_frame.pc = pc
  BY IdleType DEF FrameType
<1>2. frame \in [Envs -> FrameType] /\ frame' = [frame EXCEPT ![e] = new_frame]
  BY DEF TInv, TypeOK, Call, FrameType
<1> HIDE DEF new_frame
<1>3. frame' \in [Envs -> FrameType]
  BY <1>1, <1>2
<1>4. \A f \in Envs : frame'[f] = IF f = e THEN new_frame ELSE frame[f]
  BY <1>2
<1>5. \A f \in Envs : frame'[f].i <= frame'[f].n
  BY <1>1, <1>4, FrameFacts
<1>6. InTransfer'
  BY <1>1, <1>4 DEF TInv, InTransfer
<1> QED
  BY <1>3, <1>5, <1>6

(* The end of a call. *)
LEMMA ReturnType ==
  ASSUME TInv, NEW e \in Envs, Return(e)
  PROVE  /\ frame' \in [Envs -> FrameType]
         /\ \A f \in Envs : frame'[f].i <= frame'[f].n
         /\ InTransfer'
<1>1. frame \in [Envs -> FrameType] /\ frame' = [frame EXCEPT ![e] = Idle]
  BY DEF TInv, TypeOK, Return, FrameType
<1>2. \A f \in Envs : frame'[f] = IF f = e THEN Idle ELSE frame[f]
  BY <1>1
<1>3. frame' \in [Envs -> FrameType]
  BY <1>1, IdleType
<1>4. \A f \in Envs : frame'[f].i <= frame'[f].n
  BY <1>2, IdleType, FrameFacts
<1>5. InTransfer'
  BY <1>2, IdleType DEF TInv, InTransfer
<1> QED
  BY <1>3, <1>4, <1>5

(* A step inside a call. *)
LEMMA GotoType ==
  ASSUME TInv, NEW e \in Envs, NEW pc \in PCs, Goto(e, pc),
         pc \in {"copy", "move", "advance"} => frame[e].i < frame[e].n
  PROVE  /\ frame' \in [Envs -> FrameType]
         /\ \A f \in Envs : frame'[f].i <= frame'[f].n
         /\ InTransfer'
<1>1. frame \in [Envs -> FrameType] /\ frame' = [frame EXCEPT ![e].pc = pc]
  BY DEF TInv, TypeOK, Goto, FrameType
<1>2. /\ \A f \in Envs \ {e} : frame'[f] = frame[f]
      /\ frame'[e] = [frame[e] EXCEPT !.pc = pc]
  BY <1>1
<1>3. frame'[e] \in FrameType /\ frame'[e].i = frame[e].i /\ frame'[e].n = frame[e].n
      /\ frame'[e].pc = pc
  BY <1>1, <1>2 DEF FrameType
<1>4. frame' \in [Envs -> FrameType]
  BY <1>1, <1>2, <1>3
<1>5. \A f \in Envs : frame'[f].i <= frame'[f].n
  BY <1>2, <1>3 DEF TInv, TypeOK
<1>6. InTransfer'
  BY <1>2, <1>3 DEF TInv, InTransfer
<1> QED
  BY <1>4, <1>5, <1>6


(* The frames of a step that changes more of a frame than pc. *)
LEMMA FrameStepType ==
  ASSUME TInv, NEW e \in Envs, NEW fr \in FrameType, frame' = [frame EXCEPT ![e] = fr],
         fr.i <= fr.n, fr.pc \in {"copy", "move", "advance"} => fr.i < fr.n
  PROVE  /\ frame' \in [Envs -> FrameType]
         /\ \A f \in Envs : frame'[f].i <= frame'[f].n
         /\ InTransfer'
<1>1. frame \in [Envs -> FrameType]
  BY DEF TInv, TypeOK, FrameType
<1>2. \A f \in Envs : frame'[f] = IF f = e THEN fr ELSE frame[f]
  BY <1>1
<1>3. frame' \in [Envs -> FrameType]
  BY <1>1
<1>4. \A f \in Envs : frame'[f].i <= frame'[f].n
  BY <1>2 DEF TInv, TypeOK
<1>5. InTransfer'
  BY <1>2 DEF TInv, InTransfer
<1> QED
  BY <1>3, <1>4, <1>5

(* Yield keeps the frames in their type if it is given such frames. *)
LEMMA YieldType ==
  ASSUME NEW e \in Envs, NEW fr \in [Envs -> FrameType], Yield(e, fr),
         \A f \in Envs : /\ fr[f].i <= fr[f].n
                         /\ fr[f].pc \in {"copy", "move", "advance"} => fr[f].i < fr[f].n
  PROVE  /\ curenv' \in Envs
         /\ frame' \in [Envs -> FrameType]
         /\ \A f \in Envs : frame'[f].i <= frame'[f].n
         /\ InTransfer'
<1>1. PICK f \in Envs : env_run(f, fr)
  BY YieldRuns
<1> QED
  BY <1>1, EnvRunType DEF InTransfer

(* What the steps of a transfer do: the position is loaded, ...             *)
LEMMA FetchFacts ==
  ASSUME TInv, NEW e \in Envs, fetch_read(e) \/ fetch_write(e)
  PROVE  /\ At(e, "copy") /\ UNCHANGED <<maps, curenv, pipe>>
         /\ frame' \in [Envs -> FrameType] /\ \A f \in Envs \ {e} : frame'[f] = frame[f]
         /\ frame'[e].pc = "move" /\ frame'[e].op = frame[e].op /\ frame'[e].fd = frame[e].fd
         /\ frame'[e].n = frame[e].n /\ frame'[e].i = frame[e].i
         /\ \/ frame[e].op = "read" /\ frame'[e].pos = p_rpos
            \/ frame[e].op = "write" /\ frame'[e].pos = p_wpos /\ frame'[e].byte = sent
<1>1. frame \in [Envs -> FrameType] /\ frame[e] \in FrameType
  BY FrameFacts
<1>2. p_rpos \in 0..(POS_MOD - 1) /\ p_wpos \in 0..(POS_MOD - 1) /\ sent \in Nat
  BY VarFacts
<1>3. CASE fetch_read(e)
  <2> DEFINE fr == [frame[e] EXCEPT !.pc = "move", !.pos = p_rpos, !.byte = 0, !.cut = FALSE]
  <2>1. frame' = [frame EXCEPT ![e] = fr]
    BY <1>1, <1>3 DEF fetch_read
  <2>2. /\ fr \in FrameType /\ fr.pc = "move" /\ fr.op = frame[e].op /\ fr.fd = frame[e].fd
        /\ fr.n = frame[e].n /\ fr.i = frame[e].i /\ fr.pos = p_rpos
    BY <1>1, <1>2 DEF FrameType, PCs
  <2> HIDE DEF fr
  <2>3. At(e, "copy") /\ frame[e].op = "read" /\ UNCHANGED <<maps, curenv, pipe>>
    BY <1>3 DEF fetch_read
  <2>4. /\ frame' \in [Envs -> FrameType] /\ frame'[e] = fr
        /\ \A f \in Envs \ {e} : frame'[f] = frame[f]
    BY <1>1, <2>1, <2>2
  <2> QED
    BY <2>2, <2>3, <2>4
<1>4. CASE fetch_write(e)
  <2> DEFINE fr == [frame[e] EXCEPT !.pc = "move", !.pos = p_wpos, !.byte = sent]
  <2>1. frame' = [frame EXCEPT ![e] = fr]
    BY <1>1, <1>4 DEF fetch_write
  <2>2. /\ fr \in FrameType /\ fr.pc = "move" /\ fr.op = frame[e].op /\ fr.fd = frame[e].fd
        /\ fr.n = frame[e].n /\ fr.i = frame[e].i /\ fr.pos = p_wpos /\ fr.byte = sent
    BY <1>1, <1>2 DEF FrameType, PCs
  <2> HIDE DEF fr
  <2>3. At(e, "copy") /\ frame[e].op = "write" /\ UNCHANGED <<maps, curenv, pipe>>
    BY <1>4 DEF fetch_write
  <2>4. /\ frame' \in [Envs -> FrameType] /\ frame'[e] = fr
        /\ \A f \in Envs \ {e} : frame'[f] = frame[f]
    BY <1>1, <2>1, <2>2
  <2> QED
    BY <2>2, <2>3, <2>4
<1> QED
  BY <1>3, <1>4

(* ... it is advanced, ...                                                  *)
LEMMA AdvanceFacts ==
  ASSUME TInv, NEW e \in Envs, advance_read(e) \/ advance_write(e)
  PROVE  /\ At(e, "move") \/ At(e, "advance")
         /\ UNCHANGED <<maps, curenv, p_buf>>
         /\ frame' \in [Envs -> FrameType] /\ \A f \in Envs \ {e} : frame'[f] = frame[f]
         /\ frame'[e].pc = (IF frame[e].pc = "move" THEN "byte" ELSE "loop")
         /\ frame'[e].op = frame[e].op /\ frame'[e].fd = frame[e].fd
         /\ frame'[e].n = frame[e].n /\ frame'[e].i = frame[e].i + 1
         /\ frame'[e].pos = frame[e].pos /\ frame'[e].byte = frame[e].byte
         /\ frame'[e].cut = frame[e].cut
         /\ \/ /\ advance_read(e) /\ frame[e].op = "read"
               /\ p_rpos' = (frame[e].pos + 1) % POS_MOD
               /\ received' = received + 1 /\ UNCHANGED <<p_wpos, sent>>
            \/ /\ advance_write(e) /\ frame[e].op = "write"
               /\ p_wpos' = (frame[e].pos + 1) % POS_MOD
               /\ sent' = sent + 1 /\ UNCHANGED <<p_rpos, received>>
<1> DEFINE k  == frame[e].i + 1
           pc == IF frame[e].pc = "move" THEN "byte" ELSE "loop"
           fr == [frame[e] EXCEPT !.pc = pc, !.i = k]
<1>1. frame \in [Envs -> FrameType] /\ frame[e] \in FrameType
  BY FrameFacts
<1>2. At(e, "move") \/ At(e, "advance")
  BY DEF advance_read, advance_write
<1>3. /\ frame[e].i \in Nat /\ frame[e].n \in 0..MaxCount /\ frame[e].i < frame[e].n
      /\ MaxCount \in Nat
  BY <1>1, <1>2, FrameFacts, PipeAssumption DEF At, FrameType
<1>4. k \in 0..MaxCount /\ pc \in PCs
  BY <1>3 DEF PCs
<1>5. frame' = [frame EXCEPT ![e] = fr]
  BY <1>1 DEF advance_read, advance_write, Advanced
<1> HIDE DEF k, pc
<1>6. /\ fr \in FrameType /\ fr.pc = pc /\ fr.op = frame[e].op /\ fr.fd = frame[e].fd
      /\ fr.n = frame[e].n /\ fr.i = k /\ fr.pos = frame[e].pos /\ fr.byte = frame[e].byte
      /\ fr.cut = frame[e].cut
  BY <1>1, <1>4 DEF FrameType
<1> HIDE DEF fr
<1>7. frame' \in [Envs -> FrameType] /\ frame'[e] = fr
      /\ \A f \in Envs \ {e} : frame'[f] = frame[f]
  BY <1>1, <1>5, <1>6
<1>8. UNCHANGED <<maps, curenv, p_buf>>
  BY DEF advance_read, advance_write
<1>9. \/ /\ advance_read(e) /\ frame[e].op = "read"
         /\ p_rpos' = (frame[e].pos + 1) % POS_MOD
         /\ received' = received + 1 /\ UNCHANGED <<p_wpos, sent>>
      \/ /\ advance_write(e) /\ frame[e].op = "write"
         /\ p_wpos' = (frame[e].pos + 1) % POS_MOD
         /\ sent' = sent + 1 /\ UNCHANGED <<p_rpos, received>>
  BY DEF advance_read, advance_write
<1> QED
  BY <1>2, <1>6, <1>7, <1>8, <1>9 DEF k, pc

(* ... a byte is loaded, ...                                                *)
LEMMA LoadFacts ==
  ASSUME TInv, NEW e \in Envs, load_byte(e)
  PROVE  /\ At(e, "move") \/ At(e, "byte")
         /\ UNCHANGED <<maps, curenv, pipe>> /\ frame[e].op = "read"
         /\ frame' \in [Envs -> FrameType] /\ \A f \in Envs \ {e} : frame'[f] = frame[f]
         /\ frame'[e].pc = (IF frame[e].pc = "move" THEN "advance" ELSE "loop")
         /\ frame'[e].op = frame[e].op /\ frame'[e].fd = frame[e].fd
         /\ frame'[e].n = frame[e].n /\ frame'[e].i = frame[e].i
         /\ frame'[e].pos = frame[e].pos /\ frame'[e].byte = p_buf[frame[e].pos % BY2PIPE]
         /\ frame'[e].cut = (frame[e].cut \/ Storing(frame[e].pos) # {})
<1> DEFINE b  == p_buf[frame[e].pos % BY2PIPE]
           c  == frame[e].cut \/ Storing(frame[e].pos) # {}
           pc == IF frame[e].pc = "move" THEN "advance" ELSE "loop"
           fr == [frame[e] EXCEPT !.pc = pc, !.byte = b, !.cut = c]
<1>1. frame \in [Envs -> FrameType] /\ frame[e] \in FrameType
  BY FrameFacts
<1>2. frame[e].pos \in Nat /\ BY2PIPE \in Nat /\ BY2PIPE > 0 /\ frame[e].cut \in BOOLEAN
  BY <1>1, PipeAssumption DEF FrameType
<1>3. frame[e].pos % BY2PIPE \in 0..(BY2PIPE - 1)
  BY <1>2, ModBound
<1>4. b \in Nat
  BY <1>3, VarFacts
<1>5. c \in BOOLEAN /\ pc \in PCs
  BY <1>2 DEF PCs
<1>6. frame' = [frame EXCEPT ![e] = fr]
  BY <1>1 DEF load_byte, Accessed
<1> HIDE DEF b, c, pc
<1>7. /\ fr \in FrameType /\ fr.pc = pc /\ fr.op = frame[e].op /\ fr.fd = frame[e].fd
      /\ fr.n = frame[e].n /\ fr.i = frame[e].i /\ fr.pos = frame[e].pos /\ fr.byte = b
      /\ fr.cut = c
  BY <1>1, <1>4, <1>5 DEF FrameType
<1> HIDE DEF fr
<1>8. frame' \in [Envs -> FrameType] /\ frame'[e] = fr
      /\ \A f \in Envs \ {e} : frame'[f] = frame[f]
  BY <1>1, <1>6, <1>7
<1>9. /\ At(e, "move") \/ At(e, "byte")
      /\ UNCHANGED <<maps, curenv, pipe>> /\ frame[e].op = "read"
  BY DEF load_byte
<1> QED
  BY <1>7, <1>8, <1>9 DEF b, c, pc

(* ... or stored.                                                           *)
LEMMA StoreFacts ==
  ASSUME TInv, NEW e \in Envs, store_byte(e)
  PROVE  /\ At(e, "move") \/ At(e, "byte")
         /\ UNCHANGED <<maps, curenv, p_rpos, p_wpos, sent, received>>
         /\ frame[e].op = "write"
         /\ p_buf' = [p_buf EXCEPT ![frame[e].pos % BY2PIPE] = frame[e].byte]
         /\ frame' \in [Envs -> FrameType] /\ \A f \in Envs \ {e} : frame'[f] = frame[f]
         /\ frame'[e].pc = (IF frame[e].pc = "move" THEN "advance" ELSE "loop")
         /\ frame'[e].op = frame[e].op /\ frame'[e].fd = frame[e].fd
         /\ frame'[e].n = frame[e].n /\ frame'[e].i = frame[e].i
         /\ frame'[e].pos = frame[e].pos /\ frame'[e].byte = frame[e].byte
         /\ frame'[e].cut = frame[e].cut
<1> DEFINE pc == IF frame[e].pc = "move" THEN "advance" ELSE "loop"
           fr == [frame[e] EXCEPT !.pc = pc]
<1>1. frame \in [Envs -> FrameType] /\ frame[e] \in FrameType /\ pc \in PCs
  BY FrameFacts DEF PCs
<1>2. frame' = [frame EXCEPT ![e] = fr]
  BY <1>1 DEF store_byte, Accessed, Goto
<1> HIDE DEF pc
<1>3. /\ fr \in FrameType /\ fr.pc = pc /\ fr.op = frame[e].op /\ fr.fd = frame[e].fd
      /\ fr.n = frame[e].n /\ fr.i = frame[e].i /\ fr.pos = frame[e].pos
      /\ fr.byte = frame[e].byte /\ fr.cut = frame[e].cut
  BY <1>1 DEF FrameType
<1> HIDE DEF fr
<1>4. frame' \in [Envs -> FrameType] /\ frame'[e] = fr
      /\ \A f \in Envs \ {e} : frame'[f] = frame[f]
  BY <1>1, <1>2, <1>3
<1>5. /\ At(e, "move") \/ At(e, "byte")
      /\ UNCHANGED <<maps, curenv, p_rpos, p_wpos, sent, received>> /\ frame[e].op = "write"
      /\ p_buf' = [p_buf EXCEPT ![frame[e].pos % BY2PIPE] = frame[e].byte]
  BY DEF store_byte
<1> QED
  BY <1>3, <1>4, <1>5 DEF pc

(* Every variable keeps its type, and a call never transfers more bytes     *)
(* than it was asked to: TypeOK with InTransfer is inductive.               *)
LEMMA TypeStep == TInv /\ [Next]_vars => TInv'
<1> SUFFICES ASSUME TInv, [Next]_vars PROVE TInv'
  OBVIOUS
<1>t. frame \in [Envs -> FrameType] /\ curenv \in Envs
  BY DEF TInv, TypeOK, FrameType
<1>f. \A f \in Envs : frame[f] \in FrameType
  BY <1>t
<1> DEFINE FrameOK == /\ frame' \in [Envs -> FrameType]
                      /\ \A f \in Envs : frame'[f].i <= frame'[f].n
                      /\ InTransfer'
           PipeOK == /\ p_rpos' \in 0..(POS_MOD - 1) /\ p_wpos' \in 0..(POS_MOD - 1)
                     /\ p_buf' \in [0..(BY2PIPE - 1) -> Nat]
                     /\ sent' \in Nat /\ received' \in Nat
           MapsOK == /\ fdmap' \in [Envs -> [Slots -> Ends \cup {NONE}]]
                     /\ data' \in [Envs -> SUBSET Slots]
                     /\ state' \in [Envs -> {"free", "forked", "alive", "dead"}]
<1>s. SUFFICES FrameOK /\ PipeOK /\ MapsOK /\ curenv' \in Envs
  BY DEF TInv, TypeOK, FrameType
<1>p. UNCHANGED pipe => PipeOK
  BY DEF TInv, TypeOK, pipe
<1>m. UNCHANGED maps => MapsOK
  BY DEF TInv, TypeOK, maps
<1>c. UNCHANGED curenv => curenv' \in Envs
  BY <1>t
<1> HIDE DEF PipeOK, MapsOK
<1>call. ASSUME NEW e \in Envs, NEW op \in Ops, NEW pc \in PCs \ {"copy", "move", "advance"},
                NEW fd \in Slots, NEW new \in Slots, NEW n \in 0..MaxCount,
                Call(e, op, pc, fd, new, n), UNCHANGED <<maps, curenv, pipe>>
         PROVE  FrameOK /\ PipeOK /\ MapsOK /\ curenv' \in Envs
  BY <1>call, <1>p, <1>m, <1>c, CallType
<1>0. 0 \in 0..MaxCount /\ 0 \in Slots
  BY PipeAssumption, IdleType
<1>1. ASSUME NEW e \in Envs, timer_irq(e) PROVE FrameOK /\ PipeOK /\ MapsOK /\ curenv' \in Envs
  <2>1. env_run(e, Interrupted(e)) /\ UNCHANGED maps /\ UNCHANGED pipe
    BY <1>1 DEF timer_irq
  <2>2. /\ Interrupted(e) \in [Envs -> FrameType]
        /\ \A f \in Envs : /\ Interrupted(e)[f].pc = frame[f].pc
                           /\ Interrupted(e)[f].i = frame[f].i
                           /\ Interrupted(e)[f].n = frame[f].n
    BY InterruptFacts
  <2> DEFINE fr == Interrupted(e)
  <2> HIDE DEF fr
  <2>3. fr \in [Envs -> FrameType] /\ env_run(e, fr)
    BY <2>1, <2>2 DEF fr
  <2>4. FrameOK /\ curenv' \in Envs
    <3>1. \A f \in Envs : /\ frame'[f].pc = frame[f].pc /\ frame'[f].i = frame[f].i
                          /\ frame'[f].n = frame[f].n
      BY <2>2, <2>3, EnvRunType DEF fr
    <3> QED
      BY <2>3, <3>1, EnvRunType, FrameFacts DEF InTransfer
  <2> QED
    BY <2>1, <2>4, <1>p, <1>m
<1>2. ASSUME NEW e \in Envs, Program(e) PROVE FrameOK /\ PipeOK /\ MapsOK /\ curenv' \in Envs
  <2>1. ASSUME NEW s \in Slots, close(e, s) PROVE FrameOK /\ PipeOK /\ MapsOK /\ curenv' \in Envs
    BY <2>1, <1>0, <1>call DEF close, Ops, PCs
  <2>2. ASSUME NEW s \in Slots, pipe_is_closed(e, s)
        PROVE  FrameOK /\ PipeOK /\ MapsOK /\ curenv' \in Envs
    BY <2>2, <1>0, <1>call DEF pipe_is_closed, Ops, PCs
  <2>3. ASSUME NEW s \in Slots, NEW t \in Slots, dup(e, s, t)
        PROVE  FrameOK /\ PipeOK /\ MapsOK /\ curenv' \in Envs
    <3>1. CASE fdmap[e][t] # NONE
      BY <2>3, <3>1, <1>0, <1>call DEF dup, Ops, PCs
    <3>2. CASE ~(fdmap[e][t] # NONE)
      BY <2>3, <3>2, <1>0, <1>call DEF dup, Ops, PCs
    <3> QED
      BY <3>1, <3>2
  <2>4. ASSUME NEW c \in Envs, fork(e, c) PROVE FrameOK /\ PipeOK /\ MapsOK /\ curenv' \in Envs
    <3> DEFINE fr == [Idle EXCEPT !.op = "fork", !.pc = "fork", !.child = c]
    <3>1. fr \in FrameType /\ fr.i = 0 /\ fr.n = 0 /\ fr.pc = "fork"
      BY IdleType DEF FrameType, Ops, PCs
    <3>2. /\ frame' = [frame EXCEPT ![e] = fr] /\ UNCHANGED curenv /\ UNCHANGED pipe
          /\ state' = [state EXCEPT ![c] = "forked"] /\ UNCHANGED <<fdmap, data>>
      BY <2>4 DEF fork
    <3> HIDE DEF fr
    <3>3. FrameOK
      <4>1. fr.i <= fr.n /\ ~(fr.pc \in {"copy", "move", "advance"})
        BY <3>1
      <4> QED
        BY <3>1, <3>2, <4>1, FrameStepType
    <3>4. MapsOK
      BY <3>2 DEF MapsOK, TInv, TypeOK
    <3> QED
      BY <3>2, <3>3, <3>4, <1>p, <1>c
  <2>5. ASSUME exit(e) PROVE FrameOK /\ PipeOK /\ MapsOK /\ curenv' \in Envs
    BY <2>5, <1>0, <1>call DEF exit, Ops, PCs
  <2>6. ASSUME NEW s \in Slots, NEW n \in 1..MaxCount, read(e, s, n) \/ write(e, s, n)
        PROVE  FrameOK /\ PipeOK /\ MapsOK /\ curenv' \in Envs
    <3>1. n \in 0..MaxCount
      OBVIOUS
    <3> QED
      BY <2>6, <3>1, <1>0, <1>call DEF read, write, Ops, PCs
  <2> QED
    BY <1>2, <2>1, <2>2, <2>3, <2>4, <2>5, <2>6 DEF Program
<1>3. ASSUME NEW e \in Envs, Step(e) PROVE FrameOK /\ PipeOK /\ MapsOK /\ curenv' \in Envs
  <2>1. ASSUME close_fd(e) PROVE FrameOK /\ PipeOK /\ MapsOK /\ curenv' \in Envs
    <3>1. Goto(e, "close_data") /\ UNCHANGED curenv /\ UNCHANGED pipe
      BY <2>1 DEF close_fd
    <3>2. FrameOK
      BY <3>1, GotoType DEF PCs
    <3>3. MapsOK
      BY <2>1, FrameFacts, VarFacts DEF close_fd, MapsOK
    <3> QED
      BY <3>1, <3>2, <3>3, <1>p, <1>c
  <2>2. ASSUME close_data(e) PROVE FrameOK /\ PipeOK /\ MapsOK /\ curenv' \in Envs
    <3>1. Return(e) \/ Goto(e, "dup_data") \/ Goto(e, "exit")
      BY <2>2 DEF close_data
    <3>2. FrameOK
      BY <3>1, GotoType, ReturnType DEF PCs
    <3>3. MapsOK /\ UNCHANGED curenv /\ UNCHANGED pipe
      BY <2>2, FrameFacts, VarFacts DEF close_data, MapsOK
    <3> QED
      BY <3>2, <3>3, <1>p, <1>c
  <2>3. ASSUME dup_data(e) PROVE FrameOK /\ PipeOK /\ MapsOK /\ curenv' \in Envs
    <3>1. Goto(e, "dup_fd") /\ UNCHANGED curenv /\ UNCHANGED pipe
      BY <2>3 DEF dup_data
    <3>2. FrameOK
      BY <3>1, GotoType DEF PCs
    <3>3. MapsOK
      BY <2>3, FrameFacts, VarFacts DEF dup_data, MapsOK
    <3> QED
      BY <3>1, <3>2, <3>3, <1>p, <1>c
  <2>4. ASSUME dup_fd(e) PROVE FrameOK /\ PipeOK /\ MapsOK /\ curenv' \in Envs
    <3>1. Return(e) /\ UNCHANGED curenv /\ UNCHANGED pipe
      BY <2>4 DEF dup_fd
    <3>2. FrameOK
      BY <3>1, ReturnType
    <3>3. MapsOK
      BY <2>4, FrameFacts, VarFacts DEF dup_fd, MapsOK
    <3> QED
      BY <3>1, <3>2, <3>3, <1>p, <1>c
  <2>5. ASSUME fork_fd(e) PROVE FrameOK /\ PipeOK /\ MapsOK /\ curenv' \in Envs
    <3>1. UNCHANGED frame /\ UNCHANGED curenv /\ UNCHANGED pipe
      BY <2>5 DEF fork_fd
    <3>2. FrameOK
      BY <3>1, FrameFacts DEF InTransfer
    <3>3. MapsOK
      BY <2>5, FrameFacts, VarFacts DEF fork_fd, MapsOK
    <3> QED
      BY <3>1, <3>2, <3>3, <1>p, <1>c
  <2>6. ASSUME fork_data(e) PROVE FrameOK /\ PipeOK /\ MapsOK /\ curenv' \in Envs
    <3>1. UNCHANGED frame /\ UNCHANGED curenv /\ UNCHANGED pipe
      BY <2>6 DEF fork_data
    <3>2. FrameOK
      BY <3>1, FrameFacts DEF InTransfer
    <3>3. MapsOK
      BY <2>6, FrameFacts, VarFacts DEF fork_data, MapsOK
    <3> QED
      BY <3>1, <3>2, <3>3, <1>p, <1>c
  <2>7. ASSUME fork_start(e) PROVE FrameOK /\ PipeOK /\ MapsOK /\ curenv' \in Envs
    <3>1. Return(e) /\ UNCHANGED curenv /\ UNCHANGED pipe
      BY <2>7 DEF fork_start
    <3>2. FrameOK
      BY <3>1, ReturnType
    <3>3. MapsOK
      BY <2>7, FrameFacts, VarFacts DEF fork_start, MapsOK
    <3> QED
      BY <3>1, <3>2, <3>3, <1>p, <1>c
  <2>8. ASSUME exit_close(e) PROVE FrameOK /\ PipeOK /\ MapsOK /\ curenv' \in Envs
    <3>1. PICK s \in Slots : frame' = [frame EXCEPT ![e].pc = "close_fd", ![e].new = s]
      BY <2>8 DEF exit_close
    <3> DEFINE fr == [frame[e] EXCEPT !.pc = "close_fd", !.new = s]
    <3>2. frame' = [frame EXCEPT ![e] = fr]
      BY <3>1, <1>t
    <3>3. fr \in FrameType /\ fr.i = frame[e].i /\ fr.n = frame[e].n /\ fr.pc = "close_fd"
      <4>1. frame[e] \in FrameType
        BY <1>f
      <4> QED
        BY <4>1 DEF FrameType, PCs
    <3> HIDE DEF fr
    <3>4. FrameOK
      BY <3>2, <3>3, FrameFacts, FrameStepType
    <3> QED
      BY <2>8, <3>4, <1>p, <1>m, <1>c DEF exit_close
  <2>9. ASSUME exit_destroy(e) PROVE FrameOK /\ PipeOK /\ MapsOK /\ curenv' \in Envs
    <3> DEFINE fr == [frame EXCEPT ![e] = Idle]
    <3>1. fr \in [Envs -> FrameType] /\ \A f \in Envs : fr[f] = IF f = e THEN Idle ELSE frame[f]
      BY <1>t, IdleType
    <3>2. Yield(e, fr) /\ UNCHANGED pipe
      BY <2>9 DEF exit_destroy
    <3> HIDE DEF fr
    <3>3. \A f \in Envs : /\ fr[f].i <= fr[f].n
                          /\ fr[f].pc \in {"copy", "move", "advance"} => fr[f].i < fr[f].n
      BY <3>1, IdleType, FrameFacts
    <3>4. FrameOK /\ curenv' \in Envs
      BY <3>1, <3>2, <3>3, YieldType
    <3>5. MapsOK
      BY <2>9 DEF exit_destroy, MapsOK, TInv, TypeOK
    <3> QED
      BY <3>2, <3>4, <3>5, <1>p
  <2>10. ASSUME check_fd(e) PROVE FrameOK /\ PipeOK /\ MapsOK /\ curenv' \in Envs
    <3> DEFINE fr == [frame[e] EXCEPT !.pc = "check_pipe", !.rerun = FALSE,
                                      !.fd_ref = pageref(fdmap[e][frame[e].fd])]
    <3>1. frame' = [frame EXCEPT ![e] = fr]
      BY <2>10, <1>t DEF check_fd
    <3>2. fr \in FrameType /\ fr.i = frame[e].i /\ fr.n = frame[e].n /\ fr.pc = "check_pipe"
      <4>1. frame[e] \in FrameType
        BY <1>f
      <4> QED
        BY <4>1, PagerefType DEF FrameType, PCs
    <3> HIDE DEF fr
    <3>3. FrameOK
      BY <3>1, <3>2, FrameFacts, FrameStepType
    <3> QED
      BY <2>10, <3>3, <1>p, <1>m, <1>c DEF check_fd
  <2>11. ASSUME check_pipe(e) PROVE FrameOK /\ PipeOK /\ MapsOK /\ curenv' \in Envs
    <3>1. PICK pc \in {"check_fd", "closed", "open"} : Checked(e, pc)
      BY <2>11 DEF check_pipe
    <3> DEFINE fr == [frame[e] EXCEPT !.pc = pc, !.fd_ref = 0, !.rerun = FALSE]
    <3>2. frame' = [frame EXCEPT ![e] = fr]
      BY <3>1, <1>t DEF Checked
    <3>3. fr \in FrameType /\ fr.i = frame[e].i /\ fr.n = frame[e].n /\ fr.pc = pc
      <4>1. frame[e] \in FrameType
        BY <1>f
      <4> QED
        BY <4>1 DEF FrameType, PCs
    <3> HIDE DEF fr
    <3>4. FrameOK
      BY <3>2, <3>3, FrameFacts, FrameStepType
    <3> QED
      BY <2>11, <3>4, <1>p, <1>m, <1>c DEF check_pipe
  <2>12. ASSUME closed(e) PROVE FrameOK /\ PipeOK /\ MapsOK /\ curenv' \in Envs
    BY <2>12, ReturnType, <1>p, <1>m, <1>c DEF closed
  <2>13. ASSUME open(e) PROVE FrameOK /\ PipeOK /\ MapsOK /\ curenv' \in Envs
    <3>1. CASE frame[e].op = "is_closed"
      BY <2>13, <3>1, ReturnType, <1>p, <1>m, <1>c DEF open
    <3>2. CASE frame[e].op # "is_closed"
      <4> DEFINE fr == [frame EXCEPT ![e].pc = "loop"]
      <4>1. /\ \A f \in Envs \ {e} : fr[f] = frame[f]
            /\ fr[e] = [frame[e] EXCEPT !.pc = "loop"]
        BY <1>t
      <4>2. /\ fr[e] \in FrameType /\ fr[e].i = frame[e].i /\ fr[e].n = frame[e].n
            /\ fr[e].pc = "loop"
        BY <4>1, FrameFacts DEF FrameType, PCs
      <4>3. fr \in [Envs -> FrameType]
        BY <4>1, <4>2, <1>t
      <4>4. Yield(e, fr) /\ UNCHANGED maps /\ UNCHANGED pipe
        BY <2>13, <3>2 DEF open
      <4> HIDE DEF fr
      <4>5. \A f \in Envs : /\ fr[f].i <= fr[f].n
                            /\ fr[f].pc \in {"copy", "move", "advance"} => fr[f].i < fr[f].n
        BY <4>1, <4>2, FrameFacts
      <4>6. FrameOK /\ curenv' \in Envs
        BY <4>3, <4>4, <4>5, YieldType
      <4> QED
        BY <4>4, <4>6, <1>p, <1>m
    <3> QED
      BY <3>1, <3>2
  <2>14. ASSUME loop_read(e) PROVE FrameOK /\ PipeOK /\ MapsOK /\ curenv' \in Envs
    <3>0. frame[e].i \in Nat /\ frame[e].n \in Nat /\ frame[e].i <= frame[e].n
      BY FrameFacts DEF FrameType
    <3>1. \/ Return(e) \/ Goto(e, "check_fd")
          \/ Goto(e, "copy") /\ frame[e].i < frame[e].n
      BY <2>14, <3>0 DEF loop_read
    <3>2. FrameOK
      BY <3>1, GotoType, ReturnType DEF PCs
    <3> QED
      BY <2>14, <3>2, <1>p, <1>m, <1>c DEF loop_read
  <2>15. ASSUME loop_write(e) PROVE FrameOK /\ PipeOK /\ MapsOK /\ curenv' \in Envs
    <3>0. frame[e].i \in Nat /\ frame[e].n \in Nat /\ frame[e].i <= frame[e].n
      BY FrameFacts DEF FrameType
    <3>1. \/ Return(e) \/ Goto(e, "check_fd")
          \/ Goto(e, "copy") /\ frame[e].i < frame[e].n
      BY <2>15, <3>0 DEF loop_write
    <3>2. FrameOK
      BY <3>1, GotoType, ReturnType DEF PCs
    <3> QED
      BY <2>15, <3>2, <1>p, <1>m, <1>c DEF loop_write
  <2>16. ASSUME frame' \in [Envs -> FrameType], \A f \in Envs \ {e} : frame'[f] = frame[f],
                frame'[e].i <= frame'[e].n,
                frame'[e].pc \in {"copy", "move", "advance"} => frame'[e].i < frame'[e].n
         PROVE  FrameOK
    BY <2>16, FrameFacts DEF InTransfer
  <2>17. frame[e].i \in Nat /\ frame[e].n \in Nat /\ frame[e].i <= frame[e].n
    BY FrameFacts DEF FrameType
  <2>18. ASSUME fetch_read(e) \/ fetch_write(e)
         PROVE  FrameOK /\ PipeOK /\ MapsOK /\ curenv' \in Envs
    <3>1. frame[e].i < frame[e].n
      BY <2>18, FetchFacts, FrameFacts DEF At
    <3> QED
      BY <2>16, <2>17, <2>18, <3>1, FetchFacts, <1>p, <1>m, <1>c
  <2>19. ASSUME advance_read(e) \/ advance_write(e)
         PROVE  FrameOK /\ PipeOK /\ MapsOK /\ curenv' \in Envs
    <3>1. frame[e].i < frame[e].n /\ frame[e].pos \in Nat
      BY <2>19, AdvanceFacts, FrameFacts DEF At, FrameType
    <3>2. /\ frame' \in [Envs -> FrameType] /\ \A f \in Envs \ {e} : frame'[f] = frame[f]
          /\ frame'[e].pc \in {"byte", "loop"}
          /\ frame'[e].i = frame[e].i + 1 /\ frame'[e].n = frame[e].n
          /\ UNCHANGED maps /\ UNCHANGED curenv
      BY <2>19, AdvanceFacts
    <3>3. FrameOK
      BY <2>16, <2>17, <3>1, <3>2
    <3>4. (frame[e].pos + 1) % POS_MOD \in 0..(POS_MOD - 1)
      BY <3>1, PipeAssumption, ModBound
    <3>5. PipeOK
      BY <2>19, <3>4, AdvanceFacts, VarFacts DEF PipeOK
    <3> QED
      BY <3>2, <3>3, <3>5, <1>m, <1>c
  <2>20. ASSUME load_byte(e) PROVE FrameOK /\ PipeOK /\ MapsOK /\ curenv' \in Envs
    <3>1. frame[e].pc = "move" => frame[e].i < frame[e].n
      BY FrameFacts
    <3>2. FrameOK
      BY <2>16, <2>17, <2>20, <3>1, LoadFacts
    <3> QED
      BY <2>20, <3>2, LoadFacts, <1>p, <1>m, <1>c
  <2>21. ASSUME store_byte(e) PROVE FrameOK /\ PipeOK /\ MapsOK /\ curenv' \in Envs
    <3>1. frame[e].pc = "move" => frame[e].i < frame[e].n
      BY FrameFacts
    <3>2. FrameOK
      BY <2>16, <2>17, <2>21, <3>1, StoreFacts
    <3>3. frame[e].byte \in Nat
      BY FrameFacts DEF FrameType
    <3>4. PipeOK
      BY <2>21, <3>3, StoreFacts, VarFacts DEF PipeOK
    <3> QED
      BY <2>21, <3>2, <3>4, StoreFacts, <1>m, <1>c
  <2> QED
    BY <1>3, <2>1, <2>2, <2>3, <2>4, <2>5, <2>6, <2>7, <2>8, <2>9, <2>10,
        <2>11, <2>12, <2>13, <2>14, <2>15, <2>18, <2>19, <2>20, <2>21 DEF Step
<1>4. CASE UNCHANGED vars
  <2>1. UNCHANGED maps /\ UNCHANGED pipe /\ UNCHANGED curenv /\ UNCHANGED frame
    BY <1>4 DEF vars
  <2>2. FrameOK
    BY <2>1, FrameFacts DEF InTransfer
  <2> QED
    BY <2>1, <2>2, <1>p, <1>m, <1>c
<1> QED
  BY <1>1, <1>2, <1>3, <1>4 DEF Next

(* The types hold after pipe() has returned. *)
LEMMA TypeInit == Init => TInv
<1> SUFFICES ASSUME Init PROVE TInv
  OBVIOUS
<1>1. \A e \in Envs : frame[e] = Idle
  BY DEF Init
<1>2. frame \in [Envs -> FrameType]
  BY IdleType DEF Init
<1>3. /\ fdmap \in [Envs -> [Slots -> Ends \cup {NONE}]] /\ data \in [Envs -> SUBSET Slots]
      /\ state \in [Envs -> {"free", "forked", "alive", "dead"}]
  BY IdleType DEF Init, Ends
<1>4. /\ p_rpos \in 0..(POS_MOD - 1) /\ p_wpos \in 0..(POS_MOD - 1)
      /\ p_buf \in [0..(BY2PIPE - 1) -> Nat] /\ sent \in Nat /\ received \in Nat
      /\ curenv \in Envs
  BY PipeAssumption DEF Init
<1>5. \A e \in Envs : frame[e].i <= frame[e].n
  BY <1>1, IdleType
<1>6. InTransfer
  BY <1>1, IdleType DEF InTransfer
<1> QED
  BY <1>2, <1>3, <1>4, <1>5, <1>6 DEF TInv, TypeOK, FrameType

(* Every variable of a pipe keeps its type, and no read or write transfers  *)
(* more bytes than it was asked to (pipe_read, pipe_write).                 *)
THEOREM PipeTypes == Spec => []TypeOK
<1>1. TInv => TypeOK
  BY DEF TInv
<1> QED
  BY <1>1, TypeInit, TypeStep, PTL DEF Spec

----------------------------------------------------------------------------
(* The maps *)

(* A descriptor whose Fd page is mapped has its Pipe page mapped, except in *)
(* a child that fork is still filling in.                                   *)
Mapped ==
  \A e \in Envs, s \in Slots : fdmap[e][s] # NONE /\ state[e] # "forked" => s \in data[e]

(* dup maps the Pipe page before the Fd page, close unmaps it after it. *)
InDup ==
  \A e \in Envs : frame[e].pc = "dup_fd" /\ fdmap[e][frame[e].fd] # NONE =>
                    frame[e].new \in data[e]
InClose == \A e \in Envs : frame[e].pc = "close_data" => fdmap[e][frame[e].new] = NONE

(* A call is made by an env that is alive, and a slot that is not in use    *)
(* maps nothing.                                                            *)
Busy   == \A e \in Envs : frame[e].pc # "idle" => state[e] = "alive"
Unused == \A e \in Envs : state[e] \in {"free", "dead"} => \A s \in Slots : fdmap[e][s] = NONE

(* Every child that is not runnable yet has one parent, which is in fork;   *)
(* it holds nothing that its parent does not hold, and nobody else holds    *)
(* what its parent holds.                                                   *)
HasParent ==
  \A c \in Envs : state[c] = "forked" =>
    \E p \in Envs : frame[p].pc = "fork" /\ frame[p].child = c
OneParent ==
  \A p, q \in Envs : frame[p].pc = "fork" /\ frame[q].pc = "fork"
                     /\ frame[p].child = frame[q].child => p = q
InFork ==
  \A p \in Envs : frame[p].pc = "fork" =>
    /\ state[frame[p].child] = "forked"
    /\ \A s \in Slots : fdmap[frame[p].child][s] \in {NONE, fdmap[p][s]}
ForkAlone ==
  \A p \in Envs : frame[p].pc = "fork" =>
    \A f \in Envs \ {p, frame[p].child} : \A s, t \in Slots :
      fdmap[p][s] # NONE => fdmap[f][t] # fdmap[p][s]

(* The descriptor of a call is open while the call uses it. *)
Using == {"check_fd", "check_pipe", "closed", "open", "loop", "copy", "move", "byte",
          "advance"}
Valid == \A e \in Envs : frame[e].pc \in Using => fdmap[e][frame[e].fd] # NONE

(* If env_runs has not changed, the first count _pipe_is_closed has read is *)
(* still right when it reads the second one.                                *)
Counted ==
  \A e \in Envs : frame[e].pc = "check_pipe" /\ ~frame[e].rerun /\ curenv = e =>
    frame[e].fd_ref = pageref(fdmap[e][frame[e].fd])

Maps == Mapped /\ InDup /\ InClose /\ Busy /\ Unused
Forks == HasParent /\ OneParent /\ InFork /\ ForkAlone

(* ClosedMeansNoPeer, slot by slot. *)
NoPeer ==
  \A e \in Envs : frame[e].pc = "closed" =>
    \A f \in Envs, s \in Slots : fdmap[f][s] # Peer(fdmap[e][frame[e].fd])

Checks == Valid /\ Counted /\ NoPeer

IInv == TInv /\ Maps /\ Forks /\ Checks

(* No env holds an end if none of its descriptors maps it. *)
LEMMA HoldersEmpty ==
  ASSUME NEW end
  PROVE  Holders(end) = {} <=> \A f \in Envs, s \in Slots : fdmap[f][s] # end
<1>1. ASSUME NEW f \in Envs, NEW s \in Slots, fdmap[f][s] = end PROVE Holders(end) # {}
  <2>1. <<f, s>> \in Envs \X Slots /\ <<f, s>>[1] = f /\ <<f, s>>[2] = s
    OBVIOUS
  <2>2. <<f, s>> \in Holders(end)
    BY <1>1, <2>1 DEF Holders
  <2> QED
    BY <2>2
<1>2. ASSUME NEW x \in Holders(end) PROVE \E f \in Envs, s \in Slots : fdmap[f][s] = end
  <2>1. x[1] \in Envs /\ x[2] \in Slots /\ fdmap[x[1]][x[2]] = end
    BY DEF Holders
  <2> QED
    BY <2>1
<1> QED
  BY <1>1, <1>2

(* What two equal counts mean.  The descriptors of e's end all have their   *)
(* Pipe page mapped, for a child without it would have a parent in fork,    *)
(* which holds that end too, while e does.  So they are all the descriptors *)
(* with a Pipe page, and whoever held the other end would be one of them.   *)
LEMMA EqualCounts ==
  ASSUME IInv, NEW e \in Envs, At(e, "check_pipe"), ~frame[e].rerun,
         frame[e].fd_ref = pageref("pipe")
  PROVE  \A f \in Envs, s \in Slots : fdmap[f][s] # Peer(fdmap[e][frame[e].fd])
<1> DEFINE end == fdmap[e][frame[e].fd]
           H   == Holders(end)
           D   == {x \in Envs \X Slots : x[2] \in data[x[1]]}
<1>1. end \in Ends /\ Peer(end) \in Ends /\ Peer(end) # end /\ frame[e].fd \in Slots
  <2>1. frame[e].fd \in Slots
    BY FrameFacts DEF IInv
  <2>2. end \in Ends \cup {NONE}
    BY <2>1, VarFacts DEF IInv
  <2>3. end # NONE
    BY DEF IInv, Checks, Valid, Using, At
  <2> QED
    BY <2>1, <2>2, <2>3 DEF Ends, Peer
<1>2. Cardinality(H) = Cardinality(D)
  <2>1. frame[e].fd_ref = pageref(end)
    BY DEF IInv, Checks, Counted, At
  <2>2. end # "pipe"
    BY <1>1 DEF Ends
  <2>3. pageref(end) = Cardinality(H)
    BY <2>2 DEF pageref, Holders
  <2>4. pageref("pipe") = Cardinality(D)
    BY DEF pageref
  <2> QED
    BY <2>1, <2>3, <2>4
<1>3. ASSUME NEW f \in Envs, state[f] = "forked"
      PROVE  \E p \in Envs : /\ frame[p].pc = "fork" /\ frame[p].child = f /\ state[p] = "alive"
                             /\ \A t \in Slots : fdmap[f][t] \in {NONE, fdmap[p][t]}
  <2>1. PICK p \in Envs : frame[p].pc = "fork" /\ frame[p].child = f
    BY <1>3 DEF IInv, Forks, HasParent
  <2>2. state[p] = "alive"
    BY <2>1 DEF IInv, Maps, Busy
  <2>3. \A t \in Slots : fdmap[f][t] \in {NONE, fdmap[p][t]}
    BY <2>1 DEF IInv, Forks, InFork
  <2> QED
    BY <2>1, <2>2, <2>3
<1>4. ASSUME NEW f \in Envs, NEW t \in Slots, fdmap[f][t] = end PROVE t \in data[f]
  <2>1. end # NONE
    BY <1>1, PipeAssumption DEF Ends
  <2>2. CASE state[f] # "forked"
    BY <1>4, <2>1, <2>2 DEF IInv, Maps, Mapped
  <2>3. CASE state[f] = "forked"
    <3>1. PICK p \in Envs : /\ frame[p].pc = "fork" /\ frame[p].child = f
                            /\ \A u \in Slots : fdmap[f][u] \in {NONE, fdmap[p][u]}
      BY <1>3, <2>3
    <3>2. fdmap[p][t] = end
      BY <1>4, <2>1, <3>1
    <3>3. e # p /\ e # f
      BY <2>3, <3>1 DEF At
    <3>4. fdmap[e][frame[e].fd] # fdmap[p][t]
      BY <1>1, <2>1, <3>1, <3>2, <3>3 DEF IInv, Forks, ForkAlone
    <3> QED
      BY <3>2, <3>4
  <2> QED
    BY <2>2, <2>3
<1>5. H \subseteq D
  BY <1>4 DEF Holders
<1>6. IsFiniteSet(D)
  <2>1. IsFiniteSet(Envs \X Slots)
    BY DescriptorsFinite
  <2>2. D \subseteq Envs \X Slots
    OBVIOUS
  <2> QED
    BY <2>1, <2>2, FS_Subset
<1> HIDE DEF H, D
<1>7. H = D
  BY <1>2, <1>5, <1>6, FS_Subset
<1> USE DEF H, D
<1>8. ASSUME NEW f \in Envs, NEW t \in Slots, t \in data[f] PROVE fdmap[f][t] = end
  <2>1. <<f, t>> \in D
    BY <1>8
  <2>2. <<f, t>> \in H
    BY <1>7, <2>1
  <2> QED
    BY <2>2 DEF Holders
<1>9. ASSUME NEW f \in Envs, NEW t \in Slots, fdmap[f][t] = Peer(end) PROVE FALSE
  <2>1. Peer(end) # NONE
    BY <1>1, PipeAssumption DEF Ends
  <2>2. CASE state[f] # "forked"
    <3>1. t \in data[f]
      BY <1>9, <2>1, <2>2 DEF IInv, Maps, Mapped
    <3> QED
      BY <1>1, <1>8, <1>9, <3>1
  <2>3. CASE state[f] = "forked"
    <3>1. PICK p \in Envs : /\ state[p] = "alive"
                            /\ \A u \in Slots : fdmap[f][u] \in {NONE, fdmap[p][u]}
      BY <1>3, <2>3
    <3>2. fdmap[p][t] = Peer(end)
      BY <1>9, <2>1, <3>1
    <3>3. t \in data[p]
      BY <2>1, <3>1, <3>2 DEF IInv, Maps, Mapped
    <3> QED
      BY <1>1, <1>8, <3>2, <3>3
  <2> QED
    BY <2>2, <2>3
<1> QED
  BY <1>9

----------------------------------------------------------------------------
(* Steps *)

(* The frame of f is the same, but for rerun. *)
Kept(f) ==
  /\ frame'[f].pc = frame[f].pc /\ frame'[f].fd = frame[f].fd
  /\ frame'[f].new = frame[f].new /\ frame'[f].child = frame[f].child
  /\ frame'[f].fd_ref = frame[f].fd_ref

(* A step of e that changes no map and does not enter or leave the parts of *)
(* dup, close and fork that the invariant speaks of.                        *)
LEMMA QuietStep ==
  ASSUME IInv, NEW e \in Envs, UNCHANGED maps,
         \A f \in Envs \ {e} :
           Kept(f) /\ (curenv' = f /\ frame[f].pc = "check_pipe" => frame'[f].rerun),
         \/ Kept(e)
         \/ /\ frame[e].pc # "fork"
            /\ frame'[e].pc \notin {"fork", "dup_fd", "close_data"}
            /\ frame'[e].pc # "idle" => state[e] = "alive"
            /\ frame'[e].pc \in Using => fdmap[e][frame'[e].fd] # NONE
            /\ frame'[e].pc = "closed" =>
                 \A f \in Envs, s \in Slots : fdmap[f][s] # Peer(fdmap[e][frame'[e].fd]),
         frame'[e].pc = "check_pipe" /\ ~frame'[e].rerun /\ curenv' = e =>
           frame'[e].fd_ref = pageref(fdmap[e][frame'[e].fd])
  PROVE  Maps' /\ Forks' /\ Checks'
<1>1. fdmap' = fdmap /\ data' = data /\ state' = state
  BY DEF maps
<1>k. \A f \in Envs \ {e} : Kept(f)
  OBVIOUS
<1>2. Mapped' /\ Unused'
  BY <1>1 DEF IInv, Maps, Mapped, Unused
<1>3. InDup' /\ InClose' /\ Busy'
  BY <1>1, <1>k DEF IInv, Maps, InDup, InClose, Busy, Kept
<1>4. \A p \in Envs : /\ frame'[p].pc = "fork" <=> frame[p].pc = "fork"
                      /\ frame[p].pc = "fork" => frame'[p].child = frame[p].child
  BY <1>k DEF Kept
<1>5. HasParent'
  BY <1>1, <1>4 DEF IInv, Forks, HasParent
<1>6. OneParent'
  BY <1>4 DEF IInv, Forks, OneParent
<1>7. InFork'
  BY <1>1, <1>4 DEF IInv, Forks, InFork
<1>8. ForkAlone'
  BY <1>1, <1>4 DEF IInv, Forks, ForkAlone
<1>9. Valid'
  BY <1>1, <1>k DEF IInv, Checks, Valid, Kept
<1>10. NoPeer'
  BY <1>1, <1>k DEF IInv, Checks, NoPeer, Kept, Peer
<1>11. \A page : pageref(page)' = pageref(page)
  BY <1>1 DEF pageref
<1>12. Counted'
  <2> SUFFICES ASSUME NEW f \in Envs, frame'[f].pc = "check_pipe", ~frame'[f].rerun,
                      curenv' = f
               PROVE  frame'[f].fd_ref = pageref(fdmap[f][frame'[f].fd])
    BY <1>1 DEF Counted, pageref
  <2>1. CASE f = e
    BY <2>1
  <2>2. CASE f # e
    BY <2>2 DEF Kept
  <2> QED
    BY <2>1, <2>2
<1> QED
  BY <1>2, <1>3, <1>5, <1>6, <1>7, <1>8, <1>9, <1>10, <1>12 DEF Maps, Forks, Checks

(* What the frames are after the end of a call, a step inside one, the      *)
(* start of one, and a context switch.                                      *)
LEMMA ReturnFacts ==
  ASSUME TInv, NEW e \in Envs, Return(e)
  PROVE  frame'[e].pc = "idle" /\ \A f \in Envs \ {e} : frame'[f] = frame[f] /\ Kept(f)
  BY FrameFacts, IdleType DEF Return, Kept

(* A step inside a call changes the pc of e only. *)
LEMMA GotoFacts ==
  ASSUME TInv, NEW e \in Envs, NEW pc, Goto(e, pc)
  PROVE  /\ frame'[e].pc = pc /\ frame'[e].fd = frame[e].fd /\ frame'[e].new = frame[e].new
         /\ frame'[e].child = frame[e].child
         /\ \A f \in Envs \ {e} : frame'[f] = frame[f] /\ Kept(f)
<1>1. frame[e] \in FrameType
  BY FrameFacts
<1>2. frame'[e] = [frame[e] EXCEPT !.pc = pc]
  BY FrameFacts DEF Goto
<1>3. \A f \in Envs \ {e} : frame'[f] = frame[f]
  BY FrameFacts DEF Goto
<1> QED
  BY <1>1, <1>2, <1>3 DEF FrameType, Kept

(* A call starts in an env that runs and is in no other call. *)
LEMMA CallFacts ==
  ASSUME TInv, NEW e \in Envs, NEW op, NEW pc, NEW fd, NEW new, NEW n,
         Call(e, op, pc, fd, new, n)
  PROVE  /\ state[e] = "alive" /\ curenv = e /\ frame[e].pc = "idle"
         /\ frame'[e].pc = pc /\ frame'[e].fd = fd /\ frame'[e].new = new
         /\ \A f \in Envs \ {e} : frame'[f] = frame[f] /\ Kept(f)
<1>1. frame'[e] = [Idle EXCEPT !.op = op, !.pc = pc, !.fd = fd, !.new = new, !.n = n]
  BY FrameFacts DEF Call
<1>2. \A f \in Envs \ {e} : frame'[f] = frame[f]
  BY FrameFacts DEF Call
<1>3. frame'[e].pc = pc /\ frame'[e].fd = fd /\ frame'[e].new = new
  BY <1>1 DEF Idle
<1> QED
  BY <1>2, <1>3 DEF Call, At, Kept

(* The calls of a program, fork apart, and the steps that only read the     *)
(* maps.                                                                    *)
LEMMA CallStep ==
  ASSUME IInv, NEW e \in Envs, NEW op, NEW pc, NEW fd, NEW new, NEW n,
         Call(e, op, pc, fd, new, n), UNCHANGED <<maps, curenv>>,
         pc \notin {"fork", "dup_fd", "close_data", "closed", "check_pipe"},
         pc \in Using => fdmap[e][fd] # NONE
  PROVE  Maps' /\ Forks' /\ Checks'
<1>1. TInv
  BY DEF IInv
<1> QED
  BY <1>1, CallFacts, QuietStep

(* The end of a call other than fork. *)
LEMMA ReturnStep ==
  ASSUME IInv, NEW e \in Envs, NEW pc, At(e, pc), pc # "fork", Return(e),
         UNCHANGED <<maps, curenv>>
  PROVE  Maps' /\ Forks' /\ Checks'
<1>1. TInv
  BY DEF IInv
<1> QED
  BY <1>1, ReturnFacts, QuietStep DEF At, Using

(* A step of a call that uses the pipe, between its statements. *)
LEMMA GotoStep ==
  ASSUME IInv, NEW e \in Envs, NEW old \in Using, At(e, old),
         NEW pc \in Using \ {"closed", "check_pipe"}, Goto(e, pc), UNCHANGED <<maps, curenv>>
  PROVE  Maps' /\ Forks' /\ Checks'
<1>1. TInv /\ fdmap[e][frame[e].fd] # NONE
  BY DEF IInv, Checks, Valid, At
<1> QED
  BY <1>1, GotoFacts, QuietStep DEF At, Using

(* The second count is read: 'closed' follows from EqualCounts. *)
LEMMA CheckPipeStep ==
  ASSUME IInv, NEW e \in Envs, check_pipe(e)
  PROVE  Maps' /\ Forks' /\ Checks'
<1>1. /\ TInv /\ At(e, "check_pipe") /\ UNCHANGED maps /\ curenv' = e
      /\ frame[e] \in FrameType
  BY FrameFacts DEF IInv, At, check_pipe
<1>2. PICK pc \in {"check_fd", "closed", "open"} :
        /\ Checked(e, pc)
        /\ pc = "closed" => ~frame[e].rerun /\ frame[e].fd_ref = pageref("pipe")
  BY DEF check_pipe
<1>3. /\ frame'[e] = [frame[e] EXCEPT !.pc = pc, !.fd_ref = 0, !.rerun = FALSE]
      /\ \A f \in Envs \ {e} : frame'[f] = frame[f]
  BY <1>1, <1>2, FrameFacts DEF Checked
<1>4. frame'[e].pc = pc /\ frame'[e].fd = frame[e].fd
  BY <1>1, <1>3 DEF FrameType
<1>5. \A f \in Envs \ {e} : Kept(f)
  BY <1>3 DEF Kept
<1>6. fdmap[e][frame[e].fd] # NONE /\ state[e] = "alive" /\ frame[e].pc = "check_pipe"
  BY <1>1 DEF IInv, Checks, Valid, Using, At
<1>7. pc = "closed" => \A f \in Envs, s \in Slots : fdmap[f][s] # Peer(fdmap[e][frame[e].fd])
  BY <1>1, <1>2, EqualCounts
<1> QED
  BY <1>1, <1>4, <1>5, <1>6, <1>7, QuietStep

(* The first count is read: it is right until another env runs. *)
LEMMA CheckFdStep ==
  ASSUME IInv, NEW e \in Envs, check_fd(e)
  PROVE  Maps' /\ Forks' /\ Checks'
<1>1. TInv /\ fdmap[e][frame[e].fd] # NONE /\ state[e] = "alive" /\ frame[e].pc = "check_fd"
      /\ UNCHANGED maps /\ curenv' = e
  BY DEF IInv, Checks, Valid, At, Using, check_fd
<1> DEFINE ref == pageref(fdmap[e][frame[e].fd])
<1>2. /\ frame'[e] = [frame[e] EXCEPT !.pc = "check_pipe", !.rerun = FALSE, !.fd_ref = ref]
      /\ \A f \in Envs \ {e} : frame'[f] = frame[f]
  BY <1>1, FrameFacts DEF check_fd
<1>3. frame[e] \in FrameType
  BY <1>1, FrameFacts
<1> HIDE DEF ref
<1>4. frame'[e].pc = "check_pipe" /\ frame'[e].fd = frame[e].fd /\ frame'[e].fd_ref = ref
  BY <1>2, <1>3 DEF FrameType
<1>5. \A f \in Envs \ {e} : Kept(f)
  BY <1>2 DEF Kept
<1> QED
  BY <1>1, <1>4, <1>5, QuietStep DEF ref

(* The transfer of a byte changes no descriptor. *)
Transfers(e) ==
  \/ fetch_read(e) \/ fetch_write(e) \/ advance_read(e) \/ advance_write(e)
  \/ load_byte(e) \/ store_byte(e)

LEMMA TransferStep ==
  ASSUME IInv, NEW e \in Envs, Transfers(e)
  PROVE  Maps' /\ Forks' /\ Checks'
<1>1. TInv
  BY DEF IInv
<1>2. /\ state[e] = "alive" /\ frame[e].pc \in {"copy", "move", "byte", "advance"}
      /\ UNCHANGED maps /\ curenv' = e
      /\ \A f \in Envs \ {e} : frame'[f] = frame[f]
      /\ frame'[e].pc \in {"move", "byte", "advance", "loop"} /\ frame'[e].fd = frame[e].fd
  <2>1. CASE fetch_read(e) \/ fetch_write(e)
    BY <1>1, <2>1, FetchFacts DEF At
  <2>2. CASE advance_read(e) \/ advance_write(e)
    BY <1>1, <2>2, AdvanceFacts DEF At
  <2>3. CASE load_byte(e)
    BY <1>1, <2>3, LoadFacts DEF At
  <2>4. CASE store_byte(e)
    BY <1>1, <2>4, StoreFacts DEF At
  <2> QED
    BY <2>1, <2>2, <2>3, <2>4 DEF Transfers
<1>3. fdmap[e][frame[e].fd] # NONE
  BY <1>2 DEF IInv, Checks, Valid, Using
<1>4. \A f \in Envs \ {e} : Kept(f)
  BY <1>2 DEF Kept
<1> QED
  BY <1>2, <1>3, <1>4, QuietStep DEF Using

(* exit turns to the next open descriptor. *)
LEMMA ExitCloseStep ==
  ASSUME IInv, NEW e \in Envs, exit_close(e)
  PROVE  Maps' /\ Forks' /\ Checks'
<1>1. TInv /\ state[e] = "alive" /\ frame[e].pc = "exit" /\ UNCHANGED maps /\ curenv' = e
  BY DEF IInv, At, exit_close
<1>2. PICK s \in Slots : frame' = [frame EXCEPT ![e].pc = "close_fd", ![e].new = s]
  BY DEF exit_close
<1>3. /\ frame'[e] = [frame[e] EXCEPT !.pc = "close_fd", !.new = s] /\ frame[e] \in FrameType
      /\ \A f \in Envs \ {e} : frame'[f] = frame[f]
  BY <1>1, <1>2, FrameFacts
<1>4. frame'[e].pc = "close_fd"
  BY <1>3 DEF FrameType
<1>5. \A f \in Envs \ {e} : Kept(f)
  BY <1>3 DEF Kept
<1> QED
  BY <1>1, <1>4, <1>5, QuietStep DEF Using

(* A timer interrupt makes the loop of _pipe_is_closed run again. *)
LEMMA TimerStep ==
  ASSUME IInv, NEW e \in Envs, timer_irq(e)
  PROVE  Maps' /\ Forks' /\ Checks'
<1> DEFINE fr == Interrupted(e)
<1>1. TInv /\ UNCHANGED maps /\ env_run(e, fr) /\ curenv' = e
  BY DEF IInv, timer_irq, env_run
<1>2. /\ fr \in [Envs -> FrameType]
      /\ \A f \in Envs : /\ fr[f].pc = frame[f].pc /\ fr[f].fd = frame[f].fd
                         /\ fr[f].new = frame[f].new /\ fr[f].child = frame[f].child
                         /\ fr[f].fd_ref = frame[f].fd_ref
  BY <1>1, InterruptFacts
<1> HIDE DEF fr
<1>3. /\ \A f \in Envs : Kept(f)
      /\ frame'[e].rerun = (frame[e].pc = "check_pipe")
  BY <1>1, <1>2, EnvRunType DEF Kept
<1>4. frame'[e].pc = "check_pipe" => frame'[e].rerun
  BY <1>3 DEF Kept
<1> QED
  BY <1>1, <1>3, <1>4, QuietStep

(* An open pipe: the caller returns, or yields as in a timer interrupt. *)
LEMMA OpenStep ==
  ASSUME IInv, NEW e \in Envs, open(e)
  PROVE  Maps' /\ Forks' /\ Checks'
<1>1. /\ TInv /\ At(e, "open") /\ UNCHANGED maps /\ fdmap[e][frame[e].fd] # NONE
      /\ frame \in [Envs -> FrameType] /\ frame[e] \in FrameType
  BY FrameFacts DEF IInv, Checks, Valid, Using, At, open
<1>2. CASE frame[e].op = "is_closed"
  BY <1>1, <1>2, ReturnStep DEF open
<1>3. CASE frame[e].op # "is_closed"
  <2> DEFINE fr == [frame EXCEPT ![e].pc = "loop"]
  <2>1. fr[e] = [frame[e] EXCEPT !.pc = "loop"] /\ \A f \in Envs \ {e} : fr[f] = frame[f]
    BY <1>1
  <2>2. /\ fr[e] \in FrameType /\ fr[e].pc = "loop" /\ fr[e].fd = frame[e].fd
    BY <1>1, <2>1 DEF FrameType, PCs
  <2>3. fr \in [Envs -> FrameType]
    BY <1>1, <2>1, <2>2
  <2>4. PICK g \in Envs : env_run(g, fr)
    BY <1>3, YieldRuns DEF open
  <2> HIDE DEF fr
  <2>5. /\ \A f \in Envs : /\ frame'[f].pc = fr[f].pc /\ frame'[f].fd = fr[f].fd
                           /\ frame'[f].new = fr[f].new /\ frame'[f].child = fr[f].child
                           /\ frame'[f].fd_ref = fr[f].fd_ref
        /\ frame'[g].rerun = (fr[g].pc = "check_pipe")
    BY <2>3, <2>4, EnvRunType
  <2>6. curenv' = g
    BY <2>4 DEF env_run
  <2>7. \A f \in Envs \ {e} :
          Kept(f) /\ (curenv' = f /\ frame[f].pc = "check_pipe" => frame'[f].rerun)
    <3> TAKE f \in Envs \ {e}
    <3>1. Kept(f)
      BY <2>1, <2>5 DEF Kept
    <3>2. curenv' = f /\ frame[f].pc = "check_pipe" => frame'[f].rerun = TRUE
      BY <2>1, <2>5, <2>6
    <3> QED
      BY <3>1, <3>2
  <2>8. frame'[e].pc = "loop" /\ frame'[e].fd = frame[e].fd
    BY <2>2, <2>5
  <2> QED
    BY <1>1, <2>7, <2>8, QuietStep DEF At
<1> QED
  BY <1>2, <1>3

(* A step of e, which is not in fork, leaves the frames of the envs in fork *)
(* alone, and e is not a child of one of them.                              *)
LEMMA OthersFork ==
  ASSUME IInv, NEW e \in Envs, state[e] = "alive", frame[e].pc # "fork", frame'[e].pc # "fork",
         \A f \in Envs \ {e} : Kept(f)
  PROVE  \A p \in Envs :
           /\ frame'[p].pc = "fork" <=> frame[p].pc = "fork"
           /\ frame[p].pc = "fork" => /\ p # e /\ frame[p].child # e
                                      /\ frame[p].child \in Envs
                                      /\ frame'[p].child = frame[p].child
<1>1. TInv /\ InFork
  BY DEF IInv, Forks
<1>2. \A p \in Envs : frame[p].child \in Envs
  BY <1>1, FrameFacts
<1>3. \A p \in Envs : frame[p].pc = "fork" => frame[p].child # e
  BY <1>1 DEF InFork
<1> QED
  BY <1>2, <1>3 DEF Kept

(* A step in which e, outside of fork and of the calls that use the pipe,   *)
(* changes its own descriptors, and comes to hold no end it did not hold.   *)
LEMMA OwnStep ==
  ASSUME IInv, NEW e \in Envs, state[e] = "alive", frame[e].pc # "fork",
         frame'[e].pc \notin {"fork"} \cup Using,
         \A f \in Envs \ {e} :
           /\ Kept(f) /\ (curenv' = f /\ frame[f].pc = "check_pipe" => frame'[f].rerun)
           /\ fdmap'[f] = fdmap[f] /\ data'[f] = data[f] /\ state'[f] = state[f],
         \A s \in Slots : fdmap'[e][s] = NONE \/ \E t \in Slots : fdmap'[e][s] = fdmap[e][t],
         \A s \in Slots : fdmap'[e][s] # NONE => state'[e] = "alive" /\ s \in data'[e],
         state'[e] \in {"alive", "dead"},
         frame'[e].pc # "idle" => state'[e] = "alive",
         frame'[e].pc = "dup_fd" /\ fdmap'[e][frame'[e].fd] # NONE =>
           frame'[e].new \in data'[e],
         frame'[e].pc = "close_data" => fdmap'[e][frame'[e].new] = NONE
  PROVE  Maps' /\ Forks' /\ Checks'
<1>1. TInv /\ \A f \in Envs : frame[f].fd \in Slots /\ frame[f].new \in Slots
  BY FrameFacts DEF IInv
<1>2. \A f \in Envs \ {e} : /\ Kept(f) /\ fdmap'[f] = fdmap[f] /\ data'[f] = data[f]
                            /\ state'[f] = state[f]
  OBVIOUS
<1>3. \A p \in Envs :
        /\ frame'[p].pc = "fork" <=> frame[p].pc = "fork"
        /\ frame[p].pc = "fork" => /\ p # e /\ frame[p].child # e
                                   /\ frame[p].child \in Envs
                                   /\ frame'[p].child = frame[p].child
  BY <1>2, OthersFork
<1>4. Mapped' /\ Unused'
  BY <1>2 DEF IInv, Maps, Mapped, Unused
<1>5. InDup' /\ InClose' /\ Busy'
  BY <1>1, <1>2 DEF IInv, Maps, InDup, InClose, Busy, Kept
<1>6. HasParent' /\ OneParent'
  BY <1>2, <1>3 DEF IInv, Forks, HasParent, OneParent
<1>7. InFork'
  BY <1>2, <1>3 DEF IInv, Forks, InFork
<1>8. ForkAlone'
  <2> SUFFICES ASSUME NEW p \in Envs, frame'[p].pc = "fork",
                      NEW f \in Envs \ {p, frame'[p].child}, NEW s \in Slots, NEW t \in Slots,
                      fdmap'[p][s] # NONE
               PROVE  fdmap'[f][t] # fdmap'[p][s]
    BY DEF ForkAlone
  <2>1. /\ p # e /\ frame[p].pc = "fork" /\ f \in Envs \ {p, frame[p].child}
        /\ fdmap'[p][s] = fdmap[p][s]
    BY <1>2, <1>3
  <2>2. \A u \in Slots : fdmap[f][u] # fdmap[p][s]
    BY <2>1 DEF IInv, Forks, ForkAlone
  <2> QED
    BY <1>2, <2>1, <2>2
<1>9. Valid'
  BY <1>2 DEF IInv, Checks, Valid, Kept
<1>10. NoPeer'
  <2> SUFFICES ASSUME NEW g \in Envs, frame'[g].pc = "closed", NEW f \in Envs, NEW s \in Slots
               PROVE  fdmap'[f][s] # Peer(fdmap'[g][frame'[g].fd])
    BY DEF NoPeer, Peer
  <2>1. g # e
    BY DEF Using
  <2>2. frame[g].pc = "closed" /\ fdmap'[g][frame'[g].fd] = fdmap[g][frame[g].fd]
    BY <1>2, <2>1 DEF Kept
  <2>3. \A u \in Slots : fdmap[f][u] # Peer(fdmap[g][frame[g].fd])
    BY <2>2 DEF IInv, Checks, NoPeer
  <2>4. Peer(fdmap[g][frame[g].fd]) # NONE
    BY PipeAssumption DEF Peer
  <2> QED
    BY <1>2, <2>2, <2>3, <2>4
<1>11. Counted'
  BY <1>2 DEF Counted, Kept, Using
<1> QED
  BY <1>4, <1>5, <1>6, <1>7, <1>8, <1>9, <1>10, <1>11 DEF Maps, Forks, Checks

(* close unmaps the Fd page, then the Pipe page. *)
LEMMA CloseStep ==
  ASSUME IInv, NEW e \in Envs, close_fd(e) \/ close_data(e)
  PROVE  Maps' /\ Forks' /\ Checks'
<1>1. /\ TInv /\ state[e] = "alive" /\ UNCHANGED state /\ curenv' = e
      /\ fdmap \in [Envs -> [Slots -> Ends \cup {NONE}]] /\ data \in [Envs -> SUBSET Slots]
      /\ frame[e].new \in Slots
      /\ \A s \in Slots : fdmap[e][s] # NONE => s \in data[e]
  BY FrameFacts, VarFacts DEF IInv, Maps, Mapped, At, close_fd, close_data
<1>2. CASE close_fd(e)
  <2>1. /\ frame[e].pc = "close_fd" /\ Goto(e, "close_data") /\ UNCHANGED data
        /\ fdmap' = [fdmap EXCEPT ![e][frame[e].new] = NONE]
    BY <1>2 DEF close_fd, At
  <2>2. /\ frame'[e].pc = "close_data" /\ frame'[e].new = frame[e].new
        /\ \A f \in Envs \ {e} : Kept(f)
    BY <1>1, <2>1, GotoFacts
  <2>3. /\ \A f \in Envs \ {e} : fdmap'[f] = fdmap[f]
        /\ \A s \in Slots : fdmap'[e][s] = IF s = frame[e].new THEN NONE ELSE fdmap[e][s]
    BY <1>1, <2>1
  <2> QED
    BY <1>1, <2>1, <2>2, <2>3, OwnStep DEF Using
<1>3. CASE close_data(e)
  <2>1. /\ frame[e].pc = "close_data" /\ UNCHANGED fdmap
        /\ data' = [data EXCEPT ![e] = @ \ {frame[e].new}]
        /\ Return(e) \/ Goto(e, "dup_data") \/ Goto(e, "exit")
    BY <1>3 DEF close_data, At
  <2>2. frame'[e].pc \in {"idle", "dup_data", "exit"} /\ \A f \in Envs \ {e} : Kept(f)
    BY <1>1, <2>1, GotoFacts, ReturnFacts
  <2>3. fdmap[e][frame[e].new] = NONE
    BY <2>1 DEF IInv, Maps, InClose
  <2>4. data'[e] = data[e] \ {frame[e].new} /\ \A f \in Envs \ {e} : data'[f] = data[f]
    BY <1>1, <2>1
  <2> QED
    BY <1>1, <2>1, <2>2, <2>3, <2>4, OwnStep DEF Using
<1> QED
  BY <1>2, <1>3

(* dup maps the Pipe page, then the Fd page. *)
LEMMA DupStep ==
  ASSUME IInv, NEW e \in Envs, dup_data(e) \/ dup_fd(e)
  PROVE  Maps' /\ Forks' /\ Checks'
<1>1. /\ TInv /\ state[e] = "alive" /\ UNCHANGED state /\ curenv' = e
      /\ fdmap \in [Envs -> [Slots -> Ends \cup {NONE}]] /\ data \in [Envs -> SUBSET Slots]
      /\ frame[e].new \in Slots /\ frame[e].fd \in Slots
      /\ \A s \in Slots : fdmap[e][s] # NONE => s \in data[e]
  BY FrameFacts, VarFacts DEF IInv, Maps, Mapped, At, dup_data, dup_fd
<1>2. CASE dup_data(e)
  <2>1. /\ frame[e].pc = "dup_data" /\ UNCHANGED fdmap /\ Goto(e, "dup_fd")
        /\ data' = [data EXCEPT ![e] = IF frame[e].fd \in @ THEN @ \cup {frame[e].new} ELSE @]
    BY <1>2 DEF dup_data, At
  <2>2. /\ frame'[e].pc = "dup_fd" /\ frame'[e].fd = frame[e].fd /\ frame'[e].new = frame[e].new
        /\ \A f \in Envs \ {e} : Kept(f)
    BY <1>1, <2>1, GotoFacts
  <2>3. /\ data[e] \subseteq data'[e] /\ \A f \in Envs \ {e} : data'[f] = data[f]
        /\ frame[e].fd \in data[e] => frame[e].new \in data'[e]
    BY <1>1, <2>1
  <2> QED
    BY <1>1, <2>1, <2>2, <2>3, OwnStep DEF Using
<1>3. CASE dup_fd(e)
  <2>1. /\ frame[e].pc = "dup_fd" /\ UNCHANGED data /\ Return(e)
        /\ fdmap' = [fdmap EXCEPT ![e][frame[e].new] = fdmap[e][frame[e].fd]]
    BY <1>3 DEF dup_fd, At
  <2>2. frame'[e].pc = "idle" /\ \A f \in Envs \ {e} : Kept(f)
    BY <1>1, <2>1, ReturnFacts
  <2>3. /\ \A f \in Envs \ {e} : fdmap'[f] = fdmap[f]
        /\ \A s \in Slots :
             fdmap'[e][s] = IF s = frame[e].new THEN fdmap[e][frame[e].fd] ELSE fdmap[e][s]
    BY <1>1, <2>1
  <2>4. fdmap[e][frame[e].fd] # NONE => frame[e].new \in data[e]
    BY <2>1 DEF IInv, Maps, InDup
  <2> QED
    BY <1>1, <2>1, <2>2, <2>3, <2>4, OwnStep DEF Using
<1> QED
  BY <1>2, <1>3

(* An env is destroyed after its last descriptor is closed. *)
LEMMA ExitDestroyStep ==
  ASSUME IInv, NEW e \in Envs, exit_destroy(e)
  PROVE  Maps' /\ Forks' /\ Checks'
<1>1. /\ TInv /\ state[e] = "alive" /\ frame[e].pc = "exit" /\ UNCHANGED fdmap
      /\ \A s \in Slots : fdmap[e][s] = NONE
  BY DEF IInv, At, exit_destroy
<1>2. /\ state'[e] = "dead" /\ \A f \in Envs \ {e} : state'[f] = state[f] /\ data'[f] = data[f]
  BY <1>1, VarFacts DEF exit_destroy
<1> DEFINE fr == [frame EXCEPT ![e] = Idle]
<1>3. fr \in [Envs -> FrameType] /\ fr[e] = Idle /\ \A f \in Envs \ {e} : fr[f] = frame[f]
  BY <1>1, FrameFacts, IdleType
<1>4. PICK g \in Envs : env_run(g, fr)
  BY YieldRuns DEF exit_destroy
<1> HIDE DEF fr
<1>5. /\ \A f \in Envs : /\ frame'[f].pc = fr[f].pc /\ frame'[f].fd = fr[f].fd
                         /\ frame'[f].new = fr[f].new /\ frame'[f].child = fr[f].child
                         /\ frame'[f].fd_ref = fr[f].fd_ref
      /\ frame'[g].rerun = (fr[g].pc = "check_pipe")
  BY <1>3, <1>4, EnvRunType
<1>6. curenv' = g
  BY <1>4 DEF env_run
<1>7. \A f \in Envs \ {e} :
        Kept(f) /\ (curenv' = f /\ frame[f].pc = "check_pipe" => frame'[f].rerun)
  <2> TAKE f \in Envs \ {e}
  <2>1. Kept(f)
    BY <1>3, <1>5 DEF Kept
  <2>2. curenv' = f /\ frame[f].pc = "check_pipe" => frame'[f].rerun = TRUE
    BY <1>3, <1>5, <1>6
  <2> QED
    BY <2>1, <2>2
<1>8. frame'[e].pc = "idle"
  BY <1>3, <1>5, IdleType
<1> QED
  BY <1>1, <1>2, <1>7, <1>8, OwnStep DEF Using

(* fork starts: nobody else holds what e holds, by SoleHolder. *)
LEMMA ForkStep ==
  ASSUME IInv, ~LateFork, NEW e \in Envs, NEW c \in Envs, fork(e, c)
  PROVE  Maps' /\ Forks' /\ Checks'
<1>1. /\ TInv /\ state[e] = "alive" /\ frame[e].pc = "idle" /\ curenv' = e
      /\ state[c] = "free" /\ SoleHolder(e) /\ UNCHANGED <<fdmap, data>>
  BY DEF IInv, At, fork
<1>2. \A f \in Envs \ {e} : frame'[f] = frame[f]
  BY <1>1, FrameFacts DEF fork
<1>3. frame'[e].pc = "fork" /\ frame'[e].child = c
  <2>1. frame'[e] = [Idle EXCEPT !.op = "fork", !.pc = "fork", !.child = c]
    BY <1>1, FrameFacts DEF fork
  <2> QED
    BY <2>1 DEF Idle
<1>4. state'[c] = "forked" /\ \A f \in Envs \ {c} : state'[f] = state[f]
  BY <1>1, VarFacts DEF fork
<1>5. c # e /\ frame[c].pc = "idle" /\ \A s \in Slots : fdmap[c][s] = NONE
  BY <1>1 DEF IInv, Maps, Busy, Unused
<1>6. \A p \in Envs : frame[p].pc = "fork" => frame[p].child # c
  BY <1>1 DEF IInv, Forks, InFork
<1>7. Mapped' /\ Unused'
  BY <1>1, <1>4 DEF IInv, Maps, Mapped, Unused
<1>8. InDup' /\ InClose' /\ Busy'
  BY <1>1, <1>2, <1>3, <1>4, <1>5 DEF IInv, Maps, InDup, InClose, Busy
<1>9. HasParent'
  BY <1>1, <1>2, <1>3, <1>4 DEF IInv, Forks, HasParent
<1>10. OneParent'
  BY <1>2, <1>3, <1>6 DEF IInv, Forks, OneParent
<1>11. InFork'
  <2> SUFFICES ASSUME NEW p \in Envs, frame'[p].pc = "fork"
               PROVE  /\ state'[frame'[p].child] = "forked"
                      /\ \A s \in Slots : fdmap[frame'[p].child][s] \in {NONE, fdmap[p][s]}
    BY <1>1 DEF InFork
  <2>1. CASE p = e
    BY <1>3, <1>4, <1>5, <2>1
  <2>2. CASE p # e
    <3>1. /\ frame[p].pc = "fork" /\ frame'[p].child = frame[p].child
          /\ frame[p].child \in Envs \ {c}
      BY <1>1, <1>2, <1>6, <2>2, FrameFacts
    <3> QED
      BY <1>4, <3>1 DEF IInv, Forks, InFork
  <2> QED
    BY <2>1, <2>2
<1>12. ForkAlone'
  BY <1>1, <1>2, <1>3 DEF IInv, Forks, ForkAlone, SoleHolder
<1>13. Valid' /\ NoPeer'
  BY <1>1, <1>2, <1>3 DEF IInv, Checks, Valid, NoPeer, Using, Peer
<1>14. Counted'
  BY <1>1, <1>3 DEF Counted
<1> QED
  BY <1>7, <1>8, <1>9, <1>10, <1>11, <1>12, <1>13, <1>14 DEF Maps, Forks, Checks

(* What the invariant says of an env in fork and its child. *)
LEMMA ForkFacts ==
  ASSUME IInv, NEW e \in Envs, At(e, "fork")
  PROVE  /\ TInv /\ state[e] = "alive" /\ frame[e].pc = "fork" /\ curenv = e
         /\ frame[e].child \in Envs /\ state[frame[e].child] = "forked"
         /\ frame[e].child # e /\ frame[frame[e].child].pc = "idle"
         /\ \A p \in Envs : frame[p].pc # "idle" => p # frame[e].child
         /\ \A p \in Envs \ {e} : frame[p].pc = "fork" => /\ frame[p].child # frame[e].child
                                                          /\ frame[p].child # e
<1>1. TInv /\ frame[e].child \in Envs
  BY FrameFacts DEF IInv
<1>2. state[e] = "alive" /\ frame[e].pc = "fork" /\ curenv = e
  BY DEF At
<1>3. state[frame[e].child] = "forked"
  BY <1>2 DEF IInv, Forks, InFork
<1>4. \A p \in Envs : frame[p].pc # "idle" => p # frame[e].child
  BY <1>3 DEF IInv, Maps, Busy
<1>5. \A p \in Envs \ {e} : frame[p].pc = "fork" => /\ frame[p].child # frame[e].child
                                                     /\ frame[p].child # e
  BY <1>2 DEF IInv, Forks, OneParent, InFork
<1> QED
  BY <1>1, <1>2, <1>3, <1>4, <1>5

(* fork maps an Fd page into the child, which has no Pipe page yet. *)
LEMMA ForkFdStep ==
  ASSUME IInv, NEW e \in Envs, fork_fd(e)
  PROVE  Maps' /\ Forks' /\ Checks'
<1> DEFINE c == frame[e].child
<1>0. At(e, "fork") /\ UNCHANGED <<data, state, frame, curenv>>
  BY DEF fork_fd
<1>1. /\ TInv /\ state[e] = "alive" /\ frame[e].pc = "fork" /\ curenv = e
      /\ c \in Envs /\ state[c] = "forked" /\ c # e /\ frame[c].pc = "idle"
      /\ \A p \in Envs : frame[p].pc # "idle" => p # c
      /\ \A p \in Envs \ {e} : frame[p].pc = "fork" => frame[p].child # c /\ frame[p].child # e
  BY <1>0, ForkFacts
<1>2. PICK r \in Slots : fdmap' = [fdmap EXCEPT ![c][r] = fdmap[e][r]]
  BY DEF fork_fd
<1> HIDE DEF c
<1>3. /\ \A f \in Envs \ {c} : fdmap'[f] = fdmap[f]
      /\ \A s \in Slots : fdmap'[c][s] = IF s = r THEN fdmap[e][r] ELSE fdmap[c][s]
  BY <1>1, <1>2, VarFacts
<1>4. Mapped' /\ Unused'
  BY <1>0, <1>1, <1>3 DEF IInv, Maps, Mapped, Unused
<1>5. InDup' /\ InClose' /\ Busy'
  BY <1>0, <1>1, <1>3 DEF IInv, Maps, InDup, InClose, Busy
<1>6. HasParent' /\ OneParent'
  BY <1>0 DEF IInv, Forks, HasParent, OneParent
<1>7. InFork'
  <2> SUFFICES ASSUME NEW p \in Envs, frame[p].pc = "fork"
               PROVE  /\ state[frame[p].child] = "forked"
                      /\ \A s \in Slots : fdmap'[frame[p].child][s] \in {NONE, fdmap'[p][s]}
    BY <1>0 DEF InFork
  <2>1. /\ state[frame[p].child] = "forked" /\ fdmap'[p] = fdmap[p]
        /\ \A s \in Slots : fdmap[frame[p].child][s] \in {NONE, fdmap[p][s]}
    BY <1>1, <1>3 DEF IInv, Forks, InFork
  <2>2. CASE p = e
    BY <1>3, <2>1, <2>2 DEF c
  <2>3. CASE p # e
    <3>1. frame[p].child \in Envs \ {c}
      BY <1>1, <2>3, FrameFacts
    <3> QED
      BY <1>3, <2>1, <3>1
  <2> QED
    BY <2>2, <2>3
<1>8. ForkAlone'
  <2> SUFFICES ASSUME NEW p \in Envs, frame[p].pc = "fork",
                      NEW f \in Envs \ {p, frame[p].child}, NEW s \in Slots, NEW t \in Slots,
                      fdmap'[p][s] # NONE
               PROVE  fdmap'[f][t] # fdmap'[p][s]
    BY <1>0 DEF ForkAlone
  <2>1. fdmap'[p] = fdmap[p]
    BY <1>1, <1>3
  <2>2. \A g \in Envs \ {p, frame[p].child} : \A u \in Slots : fdmap[g][u] # fdmap[p][s]
    BY <2>1 DEF IInv, Forks, ForkAlone
  <2>3. CASE f # c
    BY <1>3, <2>1, <2>2, <2>3
  <2>4. CASE f = c
    <3>1. p # e /\ e \in Envs \ {p, frame[p].child}
      BY <1>1, <2>4 DEF c
    <3> QED
      BY <1>3, <2>1, <2>2, <2>4, <3>1
  <2> QED
    BY <2>3, <2>4
<1>9. Valid'
  BY <1>0, <1>1, <1>3 DEF IInv, Checks, Valid, Using
<1>10. NoPeer'
  <2> SUFFICES ASSUME NEW g \in Envs, frame[g].pc = "closed", NEW f \in Envs, NEW s \in Slots
               PROVE  fdmap'[f][s] # Peer(fdmap'[g][frame[g].fd])
    BY <1>0 DEF NoPeer, Peer
  <2>1. fdmap'[g] = fdmap[g]
    BY <1>1, <1>3
  <2>2. \A h \in Envs, u \in Slots : fdmap[h][u] # Peer(fdmap[g][frame[g].fd])
    BY DEF IInv, Checks, NoPeer
  <2> QED
    BY <1>1, <1>3, <2>1, <2>2
<1>11. Counted'
  BY <1>0, <1>1 DEF Counted
<1> QED
  BY <1>4, <1>5, <1>6, <1>7, <1>8, <1>9, <1>10, <1>11 DEF Maps, Forks, Checks

(* fork maps a Pipe page into the child. *)
LEMMA ForkDataStep ==
  ASSUME IInv, NEW e \in Envs, fork_data(e)
  PROVE  Maps' /\ Forks' /\ Checks'
<1>0. At(e, "fork") /\ UNCHANGED <<fdmap, state, frame, curenv>>
  BY DEF fork_data
<1>1. TInv /\ frame[e].pc = "fork" /\ curenv = e /\ frame[e].child \in Envs
  BY <1>0, ForkFacts
<1>2. \A f \in Envs : data[f] \subseteq data'[f]
  BY <1>1, VarFacts DEF fork_data
<1>3. Maps'
  BY <1>0, <1>2 DEF IInv, Maps, Mapped, InDup, InClose, Busy, Unused
<1>4. Forks'
  BY <1>0 DEF IInv, Forks, HasParent, OneParent, InFork, ForkAlone
<1>5. Valid' /\ NoPeer'
  BY <1>0 DEF IInv, Checks, Valid, NoPeer, Peer
<1>6. Counted'
  BY <1>0, <1>1 DEF Counted
<1> QED
  BY <1>3, <1>4, <1>5, <1>6 DEF Checks

(* The child becomes runnable: its descriptors are complete. *)
LEMMA ForkStartStep ==
  ASSUME IInv, NEW e \in Envs, fork_start(e)
  PROVE  Maps' /\ Forks' /\ Checks'
<1> DEFINE c == frame[e].child
<1>0. At(e, "fork") /\ UNCHANGED <<fdmap, data, curenv>> /\ Return(e) /\ DataLeft(e) = {}
      /\ state' = [state EXCEPT ![c] = "alive"]
  BY DEF fork_start
<1>1. /\ TInv /\ state[e] = "alive" /\ frame[e].pc = "fork" /\ curenv = e
      /\ c \in Envs /\ state[c] = "forked" /\ c # e /\ frame[c].pc = "idle"
      /\ \A p \in Envs : frame[p].pc # "idle" => p # c
      /\ \A p \in Envs \ {e} : frame[p].pc = "fork" => frame[p].child # c /\ frame[p].child # e
  BY <1>0, ForkFacts
<1>2. frame'[e].pc = "idle" /\ \A f \in Envs \ {e} : frame'[f] = frame[f]
  BY <1>0, <1>1, ReturnFacts
<1>3. \A s \in Slots : fdmap[c][s] # NONE => s \in data[c]
  <2> SUFFICES ASSUME NEW s \in Slots, fdmap[c][s] # NONE PROVE s \in data[c]
    OBVIOUS
  <2>1. fdmap[e][s] # NONE
    BY <1>1 DEF IInv, Forks, InFork
  <2>2. s \in data[e]
    BY <1>1, <2>1 DEF IInv, Maps, Mapped
  <2> QED
    BY <1>0, <2>2 DEF DataLeft
<1>4. state'[c] = "alive" /\ \A f \in Envs \ {c} : state'[f] = state[f]
  BY <1>0, <1>1, VarFacts
<1>h. \A x \in Envs : frame[x].pc = "fork" /\ frame[x].child = c => x = e
  BY <1>1
<1> HIDE DEF c
<1>5. Mapped' /\ Unused'
  BY <1>0, <1>3, <1>4 DEF IInv, Maps, Mapped, Unused
<1>6. InDup' /\ InClose' /\ Busy'
  BY <1>0, <1>1, <1>2, <1>4 DEF IInv, Maps, InDup, InClose, Busy
<1>7. HasParent'
  <2> SUFFICES ASSUME NEW d \in Envs, state'[d] = "forked"
               PROVE  \E p \in Envs : frame'[p].pc = "fork" /\ frame'[p].child = d
    BY DEF HasParent
  <2>1. d # c /\ state[d] = "forked"
    BY <1>4
  <2>2. PICK p \in Envs : frame[p].pc = "fork" /\ frame[p].child = d
    BY <2>1 DEF IInv, Forks, HasParent
  <2>3. p # e
    BY <2>1, <2>2 DEF c
  <2> QED
    BY <1>2, <2>2, <2>3
<1>8. OneParent'
  BY <1>2 DEF IInv, Forks, OneParent
<1>9. InFork' /\ ForkAlone'
  <2>1. \A p \in Envs : frame'[p].pc = "fork" => /\ frame'[p] = frame[p]
                                                /\ frame[p].child \in Envs \ {c}
    BY <1>1, <1>2, <1>h, FrameFacts
  <2> QED
    BY <1>0, <1>4, <2>1 DEF IInv, Forks, InFork, ForkAlone
<1>10. Valid' /\ NoPeer'
  BY <1>0, <1>2 DEF IInv, Checks, Valid, NoPeer, Using, Peer
<1>11. Counted'
  BY <1>0, <1>1, <1>2 DEF Counted
<1> QED
  BY <1>5, <1>6, <1>7, <1>8, <1>9, <1>10, <1>11 DEF Maps, Forks, Checks
----------------------------------------------------------------------------
(* The invariant *)

(* The state after pipe() satisfies the invariant: only Creator holds ends. *)
LEMMA IInvInit == Init => IInv
<1> SUFFICES ASSUME Init PROVE IInv
  OBVIOUS
<1>1. TInv
  BY TypeInit
<1>2. \A e \in Envs : frame[e].pc = "idle"
  BY IdleType DEF Init
<1>3. \A e \in Envs, s \in Slots : e # Creator => fdmap[e][s] = NONE
  BY DEF Init
<1>4. \A s \in Slots : fdmap[Creator][s] # NONE => s \in data[Creator]
  BY PipeAssumption DEF Init
<1>5. state[Creator] = "alive" /\ \A e \in Envs : e # Creator => state[e] = "free"
  BY PipeAssumption DEF Init
<1>6. Maps
  BY <1>2, <1>3, <1>4, <1>5 DEF Maps, Mapped, InDup, InClose, Busy, Unused
<1>7. Forks
  BY <1>2, <1>5 DEF Forks, HasParent, OneParent, InFork, ForkAlone
<1>8. Checks
  BY <1>2 DEF Checks, Valid, Counted, NoPeer, Using
<1> QED
  BY <1>1, <1>6, <1>7, <1>8 DEF IInv

(* The calls a program makes preserve the invariant. *)
LEMMA ProgramStep ==
  ASSUME IInv, ~LateFork, NEW e \in Envs, Program(e)
  PROVE  Maps' /\ Forks' /\ Checks'
<1>1. ASSUME NEW s \in Slots, close(e, s) PROVE Maps' /\ Forks' /\ Checks'
  BY <1>1, CallStep DEF close, Using
<1>2. ASSUME NEW s \in Slots, pipe_is_closed(e, s) PROVE Maps' /\ Forks' /\ Checks'
  BY <1>2, CallStep DEF pipe_is_closed
<1>3. ASSUME NEW s \in Slots, NEW t \in Slots, dup(e, s, t) PROVE Maps' /\ Forks' /\ Checks'
  <2> DEFINE pc == IF fdmap[e][t] # NONE THEN "close_fd" ELSE "dup_data"
  <2>1. Call(e, "dup", pc, s, t, 0) /\ UNCHANGED <<maps, curenv>>
    BY <1>3 DEF dup
  <2>2. pc \notin {"fork", "dup_fd", "close_data", "closed", "check_pipe"} /\ pc \notin Using
    BY DEF Using
  <2> HIDE DEF pc
  <2> QED
    BY <2>1, <2>2, CallStep
<1>4. ASSUME exit(e) PROVE Maps' /\ Forks' /\ Checks'
  BY <1>4, CallStep DEF exit, Using
<1>5. ASSUME NEW s \in Slots, NEW n, read(e, s, n) PROVE Maps' /\ Forks' /\ Checks'
  BY <1>5, PipeAssumption, CallStep DEF read
<1>6. ASSUME NEW s \in Slots, NEW n, write(e, s, n) PROVE Maps' /\ Forks' /\ Checks'
  BY <1>6, PipeAssumption, CallStep DEF write
<1>7. ASSUME NEW c \in Envs, fork(e, c) PROVE Maps' /\ Forks' /\ Checks'
  BY <1>7, ForkStep
<1> QED
  BY <1>1, <1>2, <1>3, <1>4, <1>5, <1>6, <1>7 DEF Program

(* The steps of a call preserve the invariant. *)
LEMMA LibraryStep ==
  ASSUME IInv, NEW e \in Envs, Step(e)
  PROVE  Maps' /\ Forks' /\ Checks'
<1>1. ASSUME close_fd(e) \/ close_data(e) PROVE Maps' /\ Forks' /\ Checks'
  BY <1>1, CloseStep
<1>2. ASSUME dup_data(e) \/ dup_fd(e) PROVE Maps' /\ Forks' /\ Checks'
  BY <1>2, DupStep
<1>3. ASSUME fork_fd(e) \/ fork_data(e) \/ fork_start(e) PROVE Maps' /\ Forks' /\ Checks'
  BY <1>3, ForkFdStep, ForkDataStep, ForkStartStep
<1>4. ASSUME exit_close(e) \/ exit_destroy(e) PROVE Maps' /\ Forks' /\ Checks'
  BY <1>4, ExitCloseStep, ExitDestroyStep
<1>5. ASSUME check_fd(e) \/ check_pipe(e) PROVE Maps' /\ Forks' /\ Checks'
  BY <1>5, CheckFdStep, CheckPipeStep
<1>6. ASSUME closed(e) PROVE Maps' /\ Forks' /\ Checks'
  BY <1>6, ReturnStep DEF closed
<1>7. ASSUME open(e) PROVE Maps' /\ Forks' /\ Checks'
  BY <1>7, OpenStep
<1>8. ASSUME loop_read(e) \/ loop_write(e) PROVE Maps' /\ Forks' /\ Checks'
  <2>1. /\ At(e, "loop") /\ UNCHANGED <<maps, curenv>>
        /\ Return(e) \/ Goto(e, "check_fd") \/ Goto(e, "copy")
    BY <1>8 DEF loop_read, loop_write
  <2>2. CASE Return(e)
    BY <2>1, <2>2, ReturnStep
  <2>3. CASE Goto(e, "check_fd")
    BY <2>1, <2>3, GotoStep DEF Using
  <2>4. CASE Goto(e, "copy")
    BY <2>1, <2>4, GotoStep DEF Using
  <2> QED
    BY <2>1, <2>2, <2>3, <2>4
<1>9. ASSUME Transfers(e) PROVE Maps' /\ Forks' /\ Checks'
  BY <1>9, TransferStep
<1> QED
  BY <1>1, <1>2, <1>3, <1>4, <1>5, <1>6, <1>7, <1>8, <1>9 DEF Step, Transfers

(* Every step preserves the invariant, if an env forks only while no other  *)
(* env holds the ends it holds.                                             *)
LEMMA IInvStep ==
  ASSUME ~LateFork
  PROVE  IInv /\ [Next]_vars => IInv'
<1> SUFFICES ASSUME IInv, [Next]_vars PROVE IInv'
  OBVIOUS
<1>1. TInv'
  BY TypeStep DEF IInv
<1>2. CASE UNCHANGED vars
  <2>1. /\ fdmap' = fdmap /\ data' = data /\ state' = state
        /\ frame' = frame /\ curenv' = curenv
    BY <1>2 DEF vars, maps
  <2>2. Maps'
    BY <2>1 DEF IInv, Maps, Mapped, InDup, InClose, Busy, Unused
  <2>3. Forks'
    BY <2>1 DEF IInv, Forks, HasParent, OneParent, InFork, ForkAlone
  <2>4. Checks'
    BY <2>1 DEF IInv, Checks, Valid, Counted, NoPeer, pageref
  <2> QED
    BY <1>1, <2>2, <2>3, <2>4 DEF IInv
<1>3. CASE Next
  <2>1. PICK e \in Envs : timer_irq(e) \/ Program(e) \/ Step(e)
    BY <1>3 DEF Next
  <2> QED
    BY <1>1, <2>1, TimerStep, ProgramStep, LibraryStep DEF IInv
<1> QED
  BY <1>2, <1>3

(* _pipe_is_closed never reports an open pipe as closed: whenever it has     *)
(* found equal reference counts, no env holds the other end of the pipe,    *)
(* for any number of envs and descriptors and however their closes, dups,   *)
(* forks and exits interleave with its two reads; provided that an env      *)
(* forks only while no other env holds the ends it holds (without that it   *)
(* is false: three envs are enough).                                        *)
THEOREM ClosedIsClosed ==
  ASSUME ~LateFork
  PROVE  Spec => []ClosedMeansNoPeer
<1>1. IInv => ClosedMeansNoPeer
  <2> SUFFICES ASSUME IInv, NEW e \in Envs, frame[e].pc = "closed"
               PROVE  Holders(Peer(fdmap[e][frame[e].fd])) = {}
    BY DEF ClosedMeansNoPeer
  <2>1. \A f \in Envs, s \in Slots : fdmap[f][s] # Peer(fdmap[e][frame[e].fd])
    BY DEF IInv, Checks, NoPeer
  <2> QED
    BY <2>1, HoldersEmpty
<1>2. IInv /\ [Next]_vars => IInv'
  BY IInvStep
<1> QED
  BY <1>1, <1>2, IInvInit, PTL DEF Spec

----------------------------------------------------------------------------
(* The byte stream *)

(* One env reads and one writes, and fewer bytes go through the pipe than a *)
(* u_int counts: the test 'p_rpos >= p_wpos' is wrong for more, and two     *)
(* readers can take the same byte.                                          *)
OneStream ==
  /\ \A e, f \in Readers : e = f
  /\ \A e, f \in Writers : e = f
  /\ MaxBytes < POS_MOD

(* The writer is past the store of a position, and not of its byte. *)
Owing(e) == frame[e].op = "write" /\ frame[e].pc = "byte"

(* The byte k is in p_buf, or its writer has still to store it. *)
Held(k) == Storing(k) # {} \/ p_buf[k % BY2PIPE] = k

(* The positions count the bytes, and those between them are held. *)
Positions ==
  /\ p_rpos = received /\ p_wpos = sent
  /\ received <= sent /\ sent - received <= BY2PIPE /\ sent <= MaxBytes
  /\ \A k \in received..(sent - 1) : Held(k)

Moving == {"copy", "move", "byte", "advance"}

(* What the env e, in a call with the frame f, may rely on: a test it made  *)
(* before it was interrupted still holds, and so does what it has loaded.   *)
InStream(e, f) ==
  /\ f.op = "read" =>
       /\ e \in Readers
       /\ f.pc \in {"copy", "move", "advance"} => received < sent
       /\ f.pc \in {"move", "advance"} => f.pos = received
       /\ f.pc = "advance" => f.cut \/ f.byte = received
       /\ f.pc = "byte" => received > 0 /\ f.pos = received - 1
       /\ f.pc \notin Moving /\ f.i > 0 => f.cut \/ f.byte = received - 1
  /\ f.op = "write" =>
       /\ e \in Writers /\ sent + (f.n - f.i) <= MaxBytes
       /\ f.pc \in {"copy", "move", "advance"} => sent - received < BY2PIPE
       /\ f.pc \in {"move", "advance"} => f.pos = sent /\ f.byte = sent
       /\ f.pc = "advance" => p_buf[sent % BY2PIPE] = sent
       /\ f.pc = "byte" => sent > 0 /\ f.pos = sent - 1 /\ f.byte = sent - 1

(* A reader that has advanced p_rpos first finds the byte still there,      *)
(* unless another env has run since.                                        *)
Loading(e) == Exposed(e) => frame[e].cut \/ (curenv = e /\ Held(frame[e].pos))

Data == Positions /\ \A e \in Envs : InStream(e, frame[e]) /\ Loading(e)

DInv == TInv /\ Data

(* What Data is made of, as facts about numbers. *)
LEMMA DataFacts ==
  ASSUME OneStream, DInv
  PROVE  /\ received \in Nat /\ sent \in Nat /\ BY2PIPE \in Nat /\ BY2PIPE > 0
         /\ POS_MOD \in Nat /\ MaxBytes \in Nat /\ MaxBytes < POS_MOD /\ BY2PIPE < POS_MOD
         /\ p_rpos = received /\ p_wpos = sent /\ received <= sent
         /\ sent - received <= BY2PIPE /\ sent <= MaxBytes
         /\ p_buf \in [0..(BY2PIPE - 1) -> Nat]
         /\ \A k \in received..(sent - 1) : Held(k)
         /\ (p_wpos - p_rpos) % POS_MOD = sent - received
<1>1. /\ received \in Nat /\ sent \in Nat /\ BY2PIPE \in Nat /\ BY2PIPE > 0
      /\ POS_MOD \in Nat /\ MaxBytes \in Nat /\ MaxBytes < POS_MOD /\ BY2PIPE < POS_MOD
      /\ p_buf \in [0..(BY2PIPE - 1) -> Nat]
  BY PipeAssumption, VarFacts DEF DInv, OneStream
<1>2. /\ p_rpos = received /\ p_wpos = sent /\ received <= sent
      /\ sent - received <= BY2PIPE /\ sent <= MaxBytes
      /\ \A k \in received..(sent - 1) : Held(k)
  BY DEF DInv, Data, Positions
<1> DEFINE d == sent - received
<1>3. d \in Nat /\ d < POS_MOD
  BY <1>1, <1>2
<1> HIDE DEF d
<1>4. d % POS_MOD = d
  BY <1>1, <1>3
<1> QED
  BY <1>1, <1>2, <1>4 DEF d

(* A position below the bound does not wrap. *)
LEMMA NoWrap ==
  ASSUME OneStream, NEW k \in Nat, k <= MaxBytes
  PROVE  k % POS_MOD = k
<1>1. k < POS_MOD /\ POS_MOD \in Nat
  BY PipeAssumption DEF OneStream
<1> QED
  BY <1>1

(* How a step may change the frame of an env that it does not concern, or   *)
(* that is not in the middle of a transfer.                                 *)
Same(f, fr) ==
  /\ frame'[f].op = fr[f].op /\ frame'[f].pc = fr[f].pc
  /\ frame'[f].n = fr[f].n /\ frame'[f].i = fr[f].i
  /\ frame'[f].pos = fr[f].pos /\ frame'[f].byte = fr[f].byte
  /\ fr[f].cut => frame'[f].cut

Waiting(f, fr) ==
  /\ frame[f].pc \notin Moving /\ fr[f].pc \notin Moving /\ fr[f].op = frame[f].op
  /\ fr[f].n = frame[f].n /\ fr[f].i = frame[f].i
  /\ fr[f].byte = frame[f].byte /\ fr[f].cut = frame[f].cut

Harmless(f) ==
  \/ Same(f, frame)
  \/ ~Owing(f) /\ frame'[f].op \notin {"read", "write"}
  \/ Waiting(f, frame')

Settled(f) == ~Owing(f) /\ frame'[f].pc # "byte" /\ InStream(f, frame'[f])

(* No transfer is cut that is not marked so. *)
Marked == curenv' = curenv \/ \A f \in Envs : Exposed(f) => frame'[f].cut

(* The same writers are past the store of a position. *)
LEMMA StoringKept ==
  ASSUME \A f \in Envs : /\ Owing(f)' <=> Owing(f)
                         /\ Owing(f) => frame'[f].pos = frame[f].pos
  PROVE  \A k : Storing(k)' = Storing(k)
  BY DEF Storing, Owing

(* A step that leaves the pipe alone. *)
LEMMA QuietData ==
  ASSUME DInv, UNCHANGED pipe, Marked, \A f \in Envs : Harmless(f) \/ Settled(f)
  PROVE  Data'
<1>1. UNCHANGED <<p_rpos, p_wpos, p_buf, sent, received>>
  BY DEF pipe
<1>2. \A k : Storing(k)' = Storing(k)
  <2>1. ASSUME NEW f \in Envs
        PROVE  (Owing(f)' <=> Owing(f)) /\ (Owing(f) => frame'[f].pos = frame[f].pos)
    BY DEF Harmless, Same, Waiting, Settled, Owing, Moving
  <2> QED
    BY <2>1, StoringKept
<1>3. \A k : Held(k)' <=> Held(k)
  BY <1>1, <1>2 DEF Held
<1>4. Positions'
  BY <1>1, <1>3 DEF DInv, Data, Positions
<1>5. ASSUME NEW f \in Envs PROVE InStream(f, frame[f])'
  <2>1. CASE Settled(f)
    BY <1>1, <2>1 DEF InStream, Settled
  <2>2. CASE Harmless(f)
    <3>1. InStream(f, frame[f])
      BY DEF DInv, Data
    <3> QED
      BY <1>1, <2>2, <3>1 DEF InStream, Harmless, Same, Waiting, Moving
  <2> QED
    BY <2>1, <2>2
<1>6. ASSUME NEW f \in Envs PROVE Loading(f)'
  <2> SUFFICES ASSUME Exposed(f)'
               PROVE  frame'[f].cut \/ (curenv' = f /\ Held(frame[f].pos)')
    BY DEF Loading
  <2>1. Same(f, frame)
    BY DEF Exposed, Harmless, Waiting, Settled, Moving
  <2>2. Exposed(f) /\ frame'[f].pos = frame[f].pos /\ (frame[f].cut => frame'[f].cut)
    BY <2>1 DEF Exposed, Same
  <2>3. frame[f].cut \/ (curenv = f /\ Held(frame[f].pos))
    BY <2>2 DEF DInv, Data, Loading
  <2>4. Held(frame[f].pos) => Held(frame[f].pos)'
    BY <1>1, <1>2, <2>2 DEF Held
  <2> QED
    BY <2>2, <2>3, <2>4 DEF Marked
<1> QED
  BY <1>4, <1>5, <1>6 DEF Data

(* The end of a call, a step inside one and the start of one. *)
LEMMA ReturnData ==
  ASSUME DInv, NEW e \in Envs, frame[e].pc # "byte", Return(e), UNCHANGED <<curenv, pipe>>
  PROVE  Data'
<1>1. TInv
  BY DEF DInv
<1>2. frame'[e].op = "none"
  BY <1>1, FrameFacts DEF Return, Idle
<1>3. \A f \in Envs : Harmless(f)
  BY <1>1, <1>2, ReturnFacts DEF Harmless, Same, Owing
<1> QED
  BY <1>3, QuietData DEF Marked

(* A step of e between two transfers. *)
LEMMA WaitingData ==
  ASSUME DInv, NEW e \in Envs, Waiting(e, frame'), UNCHANGED <<curenv, pipe>>,
         \A f \in Envs \ {e} : frame'[f] = frame[f]
  PROVE  Data'
<1>1. \A f \in Envs : Harmless(f)
  BY DEF Harmless, Same
<1> QED
  BY <1>1, QuietData DEF Marked

LEMMA GotoKeeps ==
  ASSUME TInv, NEW e \in Envs, NEW pc, Goto(e, pc)
  PROVE  /\ frame'[e].op = frame[e].op /\ frame'[e].n = frame[e].n
         /\ frame'[e].i = frame[e].i /\ frame'[e].pc = pc
         /\ frame'[e].byte = frame[e].byte /\ frame'[e].cut = frame[e].cut
         /\ \A f \in Envs \ {e} : frame'[f] = frame[f]
<1>1. frame[e] \in FrameType
  BY FrameFacts
<1>2. frame'[e] = [frame[e] EXCEPT !.pc = pc]
  BY FrameFacts DEF Goto
<1>3. \A f \in Envs \ {e} : frame'[f] = frame[f]
  BY FrameFacts DEF Goto
<1> QED
  BY <1>1, <1>2, <1>3 DEF FrameType

LEMMA GotoData ==
  ASSUME DInv, NEW e \in Envs, NEW pc, frame[e].pc \notin Moving, pc \notin Moving,
         Goto(e, pc), UNCHANGED <<curenv, pipe>>
  PROVE  Data'
  BY GotoKeeps, WaitingData DEF DInv, Waiting

LEMMA CallData ==
  ASSUME DInv, NEW e \in Envs, NEW op, NEW pc, NEW fd, NEW new, NEW n,
         Call(e, op, pc, fd, new, n), UNCHANGED <<curenv, pipe>>,
         \/ op \notin {"read", "write"}
         \/ /\ pc = "loop" /\ n \in Nat
            /\ op = "read" => e \in Readers
            /\ op = "write" => e \in Writers /\ sent + n <= MaxBytes
  PROVE  Data'
<1>1. TInv
  BY DEF DInv
<1>2. frame'[e] = [Idle EXCEPT !.op = op, !.pc = pc, !.fd = fd, !.new = new, !.n = n]
  BY <1>1, FrameFacts DEF Call
<1>3. frame'[e].op = op /\ frame'[e].pc = pc /\ frame'[e].n = n /\ frame'[e].i = 0
  BY <1>2 DEF Idle
<1>4. ~Owing(e) /\ \A f \in Envs \ {e} : Harmless(f)
  BY <1>1, CallFacts DEF Harmless, Same, Owing
<1>5. Harmless(e) \/ Settled(e)
  BY <1>3, <1>4 DEF Harmless, Settled, InStream, Moving
<1> QED
  BY <1>4, <1>5, QuietData DEF Marked

(* A context switch. *)
LEMMA SwitchData ==
  ASSUME DInv, NEW e \in Envs, NEW fr \in [Envs -> FrameType], env_run(e, fr), UNCHANGED pipe,
         curenv = e \/ \A f \in Envs : Exposed(f) => fr[f].cut,
         \A f \in Envs : \/ /\ fr[f].op = frame[f].op /\ fr[f].pc = frame[f].pc
                            /\ fr[f].n = frame[f].n /\ fr[f].i = frame[f].i
                            /\ fr[f].pos = frame[f].pos /\ fr[f].byte = frame[f].byte
                            /\ frame[f].cut => fr[f].cut
                         \/ ~Owing(f) /\ fr[f].op \notin {"read", "write"}
                         \/ Waiting(f, fr)
  PROVE  Data'
<1>1. \A f \in Envs : Same(f, fr) /\ frame'[f].cut = fr[f].cut
  BY EnvRunType DEF Same
<1>2. \A f \in Envs : Harmless(f)
  BY <1>1 DEF Same, Harmless, Waiting
<1>3. Marked
  BY <1>1, EnvRunType DEF Marked, env_run
<1> QED
  BY <1>2, <1>3, QuietData

(* An env that gives up the CPU leaves no transfer in the middle: those of  *)
(* the others are cut already.                                              *)
LEMMA YieldMarked ==
  ASSUME DInv, NEW e \in Envs, curenv = e, ~Exposed(e)
  PROVE  \A f \in Envs : Exposed(f) => f # e /\ frame[f].cut
  BY DEF DInv, Data, Loading

(* A timer interrupt. *)
LEMMA TimerData ==
  ASSUME DInv, NEW e \in Envs, timer_irq(e)
  PROVE  Data'
<1> DEFINE fr == Interrupted(e)
<1>1. TInv /\ UNCHANGED pipe /\ env_run(e, fr)
  BY DEF DInv, timer_irq
<1>2. fr \in [Envs -> FrameType]
  BY <1>1, InterruptFacts
<1>3. ASSUME NEW f \in Envs
      PROVE  /\ fr[f].op = frame[f].op /\ fr[f].pc = frame[f].pc
             /\ fr[f].n = frame[f].n /\ fr[f].i = frame[f].i
             /\ fr[f].pos = frame[f].pos /\ fr[f].byte = frame[f].byte
             /\ frame[f].cut => fr[f].cut
             /\ f = curenv /\ e # f /\ Exposed(f) => fr[f].cut
  BY <1>1, InterruptFacts
<1>4. ASSUME curenv # e, NEW f \in Envs, Exposed(f) PROVE fr[f].cut
  <2>1. frame[f].cut \/ curenv = f
    BY <1>4 DEF DInv, Data, Loading
  <2> QED
    BY <1>3, <1>4, <2>1
<1> HIDE DEF fr
<1> QED
  BY <1>1, <1>2, <1>3, <1>4, SwitchData

(* The tests of the loops. *)
LEMMA LoopData ==
  ASSUME OneStream, DInv, NEW e \in Envs, loop_read(e) \/ loop_write(e)
  PROVE  Data'
<1>1. TInv /\ UNCHANGED <<curenv, pipe>> /\ frame[e].pc = "loop"
  BY DEF DInv, loop_read, loop_write, At
<1>2. Return(e) \/ Goto(e, "check_fd") \/ Goto(e, "copy")
  BY DEF loop_read, loop_write
<1>3. CASE Return(e)
  BY <1>1, <1>3, ReturnData
<1>4. CASE Goto(e, "check_fd")
  BY <1>1, <1>4, GotoData DEF Moving
<1>5. CASE ~Return(e) /\ ~Goto(e, "check_fd") /\ Goto(e, "copy")
  <2>1. /\ frame[e].op = "read" => ~Empty
        /\ frame[e].op = "write" => ~Full
    BY <1>5 DEF loop_read, loop_write
  <2>2. /\ frame[e].op = "read" => received < sent
        /\ frame[e].op = "write" => sent - received < BY2PIPE
    BY <2>1, DataFacts, SMTT(40) DEF Empty, Full
  <2>3. InStream(e, frame[e])
    BY DEF DInv, Data
  <2>4. Settled(e) /\ \A f \in Envs \ {e} : Harmless(f)
    BY <1>1, <1>5, <2>2, <2>3, GotoKeeps DEF InStream, Settled, Owing, Moving, Harmless, Same
  <2> QED
    BY <1>1, <2>4, QuietData DEF Marked
<1> QED
  BY <1>2, <1>3, <1>4, <1>5

(* A transfer starts: the position is loaded. *)
LEMMA FetchData ==
  ASSUME OneStream, DInv, NEW e \in Envs, fetch_read(e) \/ fetch_write(e)
  PROVE  Data'
<1>1. /\ TInv /\ UNCHANGED <<curenv, pipe>> /\ frame[e].pc = "copy"
      /\ frame'[e].pc = "move" /\ frame'[e].op = frame[e].op
      /\ frame'[e].n = frame[e].n /\ frame'[e].i = frame[e].i
      /\ \/ frame[e].op = "read" /\ frame'[e].pos = p_rpos
         \/ frame[e].op = "write" /\ frame'[e].pos = p_wpos /\ frame'[e].byte = sent
      /\ \A f \in Envs \ {e} : frame'[f] = frame[f]
  BY FetchFacts DEF DInv, At
<1>2. InStream(e, frame[e])
  BY DEF DInv, Data
<1>3. p_rpos = received /\ p_wpos = sent
  BY DataFacts
<1>4. Settled(e) /\ \A f \in Envs \ {e} : Harmless(f)
  BY <1>1, <1>2, <1>3 DEF InStream, Settled, Owing, Moving, Harmless, Same
<1> QED
  BY <1>1, <1>4, QuietData DEF Marked

(* The reader takes the byte at pos: it is the next one of the stream,      *)
(* unless it was not stored yet or another env has run since p_rpos passed  *)
(* it.                                                                      *)
LEMMA LoadData ==
  ASSUME OneStream, DInv, NEW e \in Envs, load_byte(e)
  PROVE  Data'
<1>1. /\ TInv /\ UNCHANGED <<curenv, pipe>> /\ frame[e].op = "read" /\ frame'[e].op = "read"
      /\ frame[e].pc \in {"move", "byte"}
      /\ frame'[e].pc = (IF frame[e].pc = "move" THEN "advance" ELSE "loop")
      /\ frame'[e].n = frame[e].n /\ frame'[e].i = frame[e].i
      /\ frame'[e].pos = frame[e].pos /\ frame'[e].byte = p_buf[frame[e].pos % BY2PIPE]
      /\ frame'[e].cut = (frame[e].cut \/ Storing(frame[e].pos) # {})
      /\ \A f \in Envs \ {e} : frame'[f] = frame[f]
  BY LoadFacts DEF DInv, At
<1>2. InStream(e, frame[e]) /\ Loading(e)
  BY DEF DInv, Data
<1>3. frame[e].cut \/ Held(frame[e].pos)
  <2>1. CASE frame[e].pc = "move"
    <3>1. frame[e].pos = received /\ received < sent
      BY <1>1, <1>2, <2>1 DEF InStream
    <3>2. received \in received..(sent - 1)
      BY <3>1, DataFacts
    <3> QED
      BY <3>1, <3>2, DataFacts
  <2>2. CASE frame[e].pc = "byte"
    BY <1>1, <1>2, <2>2 DEF Loading, Exposed
  <2> QED
    BY <1>1, <2>1, <2>2
<1>4. frame'[e].cut \/ frame'[e].byte = frame[e].pos
  BY <1>1, <1>3 DEF Held
<1>5. Settled(e)
  BY <1>1, <1>2, <1>4 DEF InStream, Settled, Owing, Moving
<1>6. \A f \in Envs \ {e} : Harmless(f)
  BY <1>1 DEF Harmless, Same
<1> QED
  BY <1>1, <1>5, <1>6, QuietData DEF Marked

(* The others, in a step of e that e makes while it has the CPU. *)
LEMMA OthersLoading ==
  ASSUME DInv, NEW e \in Envs, curenv = e, NEW f \in Envs \ {e}, frame'[f] = frame[f]
  PROVE  Loading(f)'
  BY DEF DInv, Data, Loading, Exposed

(* The read position is advanced past the byte. *)
LEMMA AdvanceReadData ==
  ASSUME OneStream, DInv, NEW e \in Envs, advance_read(e)
  PROVE  Data' /\ received' = received + 1 /\ received < sent /\ sent' = sent
<1>1. /\ TInv /\ frame[e].op = "read" /\ frame[e].pc \in {"move", "advance"}
      /\ curenv = e /\ curenv' = e
      /\ UNCHANGED <<p_wpos, p_buf, sent>>
      /\ p_rpos' = (frame[e].pos + 1) % POS_MOD /\ received' = received + 1
  BY DEF DInv, advance_read, At
<1>2. /\ frame'[e].pc = (IF frame[e].pc = "move" THEN "byte" ELSE "loop")
      /\ frame'[e].op = "read"
      /\ frame'[e].pos = frame[e].pos /\ frame'[e].byte = frame[e].byte
      /\ frame'[e].cut = frame[e].cut
      /\ \A f \in Envs \ {e} : frame'[f] = frame[f]
  BY <1>1, AdvanceFacts
<1>3. InStream(e, frame[e])
  BY DEF DInv, Data
<1>4. /\ received \in Nat /\ sent \in Nat /\ received < sent /\ frame[e].pos = received
      /\ sent <= MaxBytes /\ MaxBytes \in Nat
      /\ p_wpos = sent /\ sent - received <= BY2PIPE /\ BY2PIPE \in Nat
      /\ \A k \in received..(sent - 1) : Held(k)
  BY <1>1, <1>3, DataFacts DEF InStream
<1>5. p_rpos' = received'
  <2>1. received + 1 \in Nat /\ received + 1 <= MaxBytes
    BY <1>4
  <2> QED
    BY <1>1, <1>4, <2>1, NoWrap
<1>6. \A k : Held(k)' <=> Held(k)
  <2>1. \A f \in Envs : /\ Owing(f)' <=> Owing(f)
                        /\ Owing(f) => frame'[f].pos = frame[f].pos
    BY <1>1, <1>2 DEF Owing
  <2> QED
    BY <1>1, <2>1, StoringKept DEF Held
<1>7. Positions'
  BY <1>1, <1>4, <1>5, <1>6 DEF Positions
<1>8. InStream(e, frame[e])'
  BY <1>1, <1>2, <1>3, <1>4 DEF InStream, Moving
<1>9. Loading(e)'
  <2>1. Held(received)
    <3>1. received \in received..(sent - 1)
      BY <1>4
    <3> QED
      BY <1>4, <3>1
  <2>2. Held(frame[e].pos)'
    BY <1>2, <1>4, <1>6, <2>1 DEF Held
  <2> QED
    BY <1>1, <2>2 DEF Loading
<1>10. ASSUME NEW f \in Envs \ {e} PROVE InStream(f, frame[f])'
  <2>1. InStream(f, frame[f]) /\ frame'[f] = frame[f]
    BY <1>2 DEF DInv, Data
  <2>2. frame[f].op # "read"
    BY <1>1, <1>3, <2>1 DEF InStream, OneStream
  <2>3. sent - received < BY2PIPE => sent - (received + 1) < BY2PIPE
    BY <1>4
  <2> QED
    BY <1>1, <2>1, <2>2, <2>3 DEF InStream
<1>11. \A f \in Envs \ {e} : Loading(f)'
  BY <1>1, <1>2, OthersLoading
<1> QED
  BY <1>1, <1>4, <1>7, <1>8, <1>9, <1>10, <1>11 DEF Data

(* The write position is advanced: the byte joins the stream, in p_buf or   *)
(* in the hand of the writer.                                               *)
LEMMA AdvanceWriteData ==
  ASSUME OneStream, DInv, NEW e \in Envs, advance_write(e)
  PROVE  /\ Data' /\ sent' = sent + 1 /\ received' = received
         /\ sent - received < BY2PIPE
<1>1. /\ TInv /\ frame[e].op = "write" /\ frame[e].pc \in {"move", "advance"}
      /\ curenv = e /\ curenv' = e
      /\ UNCHANGED <<p_rpos, p_buf, received>>
      /\ p_wpos' = (frame[e].pos + 1) % POS_MOD /\ sent' = sent + 1
  BY DEF DInv, advance_write, At
<1>2. /\ frame'[e].pc = (IF frame[e].pc = "move" THEN "byte" ELSE "loop")
      /\ frame'[e].op = "write" /\ frame'[e].n = frame[e].n /\ frame'[e].i = frame[e].i + 1
      /\ frame'[e].pos = frame[e].pos /\ frame'[e].byte = frame[e].byte
      /\ \A f \in Envs \ {e} : frame'[f] = frame[f]
  BY <1>1, AdvanceFacts
<1>3. InStream(e, frame[e])
  BY DEF DInv, Data
<1>4. /\ received \in Nat /\ sent \in Nat /\ received <= sent
      /\ frame[e].pos = sent /\ frame[e].byte = sent /\ MaxBytes \in Nat
      /\ p_rpos = received /\ sent - received < BY2PIPE /\ BY2PIPE \in Nat
      /\ \A k \in received..(sent - 1) : Held(k)
      /\ frame[e].pc = "advance" => p_buf[sent % BY2PIPE] = sent
      /\ sent + (frame[e].n - frame[e].i) <= MaxBytes
  BY <1>1, <1>3, DataFacts DEF InStream
<1>5. frame[e].i < frame[e].n /\ frame[e].i \in Nat /\ frame[e].n \in Nat
  BY <1>1, FrameFacts DEF FrameType
<1>6. p_wpos' = sent' /\ sent' <= MaxBytes
  <2>1. sent + 1 \in Nat /\ sent + 1 <= MaxBytes
    BY <1>4, <1>5
  <2> QED
    BY <1>1, <1>4, <2>1, NoWrap
<1>7. ASSUME NEW k \in received..sent PROVE Held(k)'
  <2>1. CASE k = sent
    <3>1. CASE frame[e].pc = "move"
      BY <1>1, <1>2, <1>4, <2>1, <3>1 DEF Held, Storing
    <3>2. CASE frame[e].pc = "advance"
      BY <1>1, <1>4, <2>1, <3>2 DEF Held
    <3> QED
      BY <1>1, <3>1, <3>2
  <2>2. CASE k # sent
    <3>1. Held(k)
      BY <1>4, <2>2
    <3>2. Storing(k) \subseteq Storing(k)'
      BY <1>1, <1>2 DEF Storing
    <3> QED
      BY <1>1, <3>1, <3>2 DEF Held
  <2> QED
    BY <2>1, <2>2
<1>8. Positions'
  <2>1. sent' - 1 = sent /\ received <= sent' /\ sent' - received <= BY2PIPE
    BY <1>1, <1>4
  <2> QED
    BY <1>1, <1>4, <1>6, <1>7, <2>1 DEF Positions
<1>9. InStream(e, frame[e])'
  <2>1. sent' + (frame'[e].n - frame'[e].i) <= MaxBytes
    BY <1>1, <1>2, <1>4, <1>5
  <2> QED
    BY <1>1, <1>2, <1>3, <1>4, <2>1 DEF InStream, Moving
<1>10. ASSUME NEW f \in Envs \ {e} PROVE InStream(f, frame[f])'
  <2>1. InStream(f, frame[f]) /\ frame'[f] = frame[f]
    BY <1>2 DEF DInv, Data
  <2>2. frame[f].op # "write"
    BY <1>1, <1>3, <2>1 DEF InStream, OneStream
  <2>3. received < sent => received < sent + 1
    BY <1>4
  <2> QED
    BY <1>1, <2>1, <2>2, <2>3 DEF InStream
<1>11. Loading(e)' /\ \A f \in Envs \ {e} : Loading(f)'
  BY <1>1, <1>2, OthersLoading DEF Loading, Exposed
<1> QED
  BY <1>1, <1>4, <1>8, <1>9, <1>10, <1>11 DEF Data

(* The byte is stored at pos: no byte that was not read is there. *)
LEMMA StoreData ==
  ASSUME OneStream, DInv, NEW e \in Envs, store_byte(e)
  PROVE  Data'
<1>1. /\ TInv /\ frame[e].op = "write" /\ frame[e].pc \in {"move", "byte"}
      /\ curenv = e /\ curenv' = e
      /\ UNCHANGED <<p_rpos, p_wpos, sent, received>>
      /\ p_buf' = [p_buf EXCEPT ![frame[e].pos % BY2PIPE] = frame[e].byte]
  BY StoreFacts DEF DInv, At
<1>2. /\ frame'[e].pc = (IF frame[e].pc = "move" THEN "advance" ELSE "loop")
      /\ frame'[e].op = "write" /\ frame'[e].n = frame[e].n /\ frame'[e].i = frame[e].i
      /\ frame'[e].pos = frame[e].pos /\ frame'[e].byte = frame[e].byte
      /\ \A f \in Envs \ {e} : frame'[f] = frame[f]
  BY <1>1, StoreFacts
<1>3. InStream(e, frame[e])
  BY DEF DInv, Data
<1> DEFINE p == frame[e].pos
<1>4. /\ received \in Nat /\ sent \in Nat /\ BY2PIPE \in Nat /\ BY2PIPE > 0
      /\ received <= sent /\ p_buf \in [0..(BY2PIPE - 1) -> Nat]
      /\ \A k \in received..(sent - 1) : Held(k)
      /\ p \in Nat /\ p <= sent /\ p >= sent - 1 /\ p - received < BY2PIPE
      /\ frame[e].byte = p /\ (frame[e].pc = "move" => p = sent)
  <2>1. /\ received \in Nat /\ sent \in Nat /\ BY2PIPE \in Nat /\ BY2PIPE > 0
        /\ received <= sent /\ p_buf \in [0..(BY2PIPE - 1) -> Nat]
        /\ sent - received <= BY2PIPE /\ \A k \in received..(sent - 1) : Held(k)
    BY DataFacts
  <2>2. CASE frame[e].pc = "move"
    <3>1. p = sent /\ frame[e].byte = sent /\ sent - received < BY2PIPE
      BY <1>1, <1>3, <2>2 DEF InStream
    <3> HIDE DEF p
    <3> QED
      BY <2>1, <3>1
  <2>3. CASE frame[e].pc = "byte"
    <3>1. sent > 0 /\ p = sent - 1 /\ frame[e].byte = sent - 1
      BY <1>1, <1>3, <2>3 DEF InStream
    <3> HIDE DEF p
    <3> QED
      BY <2>1, <2>3, <3>1
  <2> QED
    BY <1>1, <2>1, <2>2, <2>3
<1> HIDE DEF p
<1>5. p % BY2PIPE \in 0..(BY2PIPE - 1) /\ p_buf'[p % BY2PIPE] = p
  BY <1>1, <1>4, ModBound DEF p
<1>6. ASSUME NEW k \in received..(sent - 1) PROVE Held(k)'
  <2>1. CASE k = p
    BY <1>5, <2>1 DEF Held
  <2>2. CASE k # p
    <3>1. k \in Nat /\ k < p /\ p - k < BY2PIPE
      BY <1>4, <2>2
    <3>2. k % BY2PIPE # p % BY2PIPE /\ k % BY2PIPE \in 0..(BY2PIPE - 1)
      BY <1>4, <3>1, ResiduesDiffer, ModBound
    <3>3. p_buf'[k % BY2PIPE] = p_buf[k % BY2PIPE]
      BY <1>1, <1>4, <3>2 DEF p
    <3>4. Storing(k) \subseteq Storing(k)'
      BY <1>2, <2>2 DEF Storing, p
    <3>5. Held(k)
      BY <1>4
    <3> QED
      BY <3>3, <3>4, <3>5 DEF Held
  <2> QED
    BY <2>1, <2>2
<1>7. Positions'
  BY <1>1, <1>6 DEF DInv, Data, Positions
<1>8. InStream(e, frame[e])'
  BY <1>1, <1>2, <1>3, <1>4, <1>5 DEF InStream, Moving, p
<1>9. ASSUME NEW f \in Envs \ {e} PROVE InStream(f, frame[f])'
  <2>1. InStream(f, frame[f]) /\ frame'[f] = frame[f]
    BY <1>2 DEF DInv, Data
  <2>2. frame[f].op # "write"
    BY <1>1, <1>3, <2>1 DEF InStream, OneStream
  <2> QED
    BY <1>1, <2>1, <2>2 DEF InStream
<1>10. Loading(e)' /\ \A f \in Envs \ {e} : Loading(f)'
  BY <1>1, <1>2, OthersLoading DEF Loading, Exposed
<1> QED
  BY <1>7, <1>8, <1>9, <1>10 DEF Data

(* Every step of every env. *)
LEMMA DataStep ==
  ASSUME OneStream, DInv, [Next]_vars
  PROVE  Data'
<1>a. TInv /\ frame \in [Envs -> FrameType] /\ \A f \in Envs : frame[f] \in FrameType
  BY FrameFacts DEF DInv
<1>1. CASE UNCHANGED vars
  <2>1. UNCHANGED <<curenv, pipe>> /\ \A f \in Envs : Harmless(f)
    BY <1>1 DEF vars, Harmless, Same
  <2> QED
    BY <2>1, QuietData DEF Marked
<1>2. ASSUME NEW e \in Envs, timer_irq(e) PROVE Data'
  BY <1>2, TimerData
<1>3. ASSUME NEW e \in Envs, Program(e) PROVE Data'
  <2>1. ASSUME NEW s \in Slots, close(e, s) \/ pipe_is_closed(e, s) PROVE Data'
    <3>1. /\ UNCHANGED <<curenv, pipe>>
          /\ Call(e, "close", "close_fd", s, s, 0) \/ Call(e, "is_closed", "check_fd", s, s, 0)
      BY <2>1 DEF close, pipe_is_closed
    <3> QED
      BY <3>1, CallData
  <2>2. ASSUME NEW s \in Slots, NEW t \in Slots, dup(e, s, t) PROVE Data'
    <3>1. UNCHANGED <<curenv, pipe>> /\ \E pc : Call(e, "dup", pc, s, t, 0)
      BY <2>2 DEF dup
    <3> QED
      BY <3>1, CallData
  <2>3. ASSUME NEW c \in Envs, fork(e, c) PROVE Data'
    <3>1. /\ UNCHANGED <<curenv, pipe>> /\ frame[e].pc = "idle"
          /\ frame' = [frame EXCEPT ![e] = [Idle EXCEPT !.op = "fork", !.pc = "fork", !.child = c]]
      BY <2>3 DEF fork, At
    <3>2. frame'[e].op = "fork" /\ \A f \in Envs \ {e} : frame'[f] = frame[f]
      BY <1>a, <3>1 DEF Idle
    <3>3. \A f \in Envs : Harmless(f)
      BY <3>1, <3>2 DEF Harmless, Same, Owing
    <3> QED
      BY <3>1, <3>3, QuietData DEF Marked
  <2>4. ASSUME exit(e) PROVE Data'
    <3>1. UNCHANGED <<curenv, pipe>> /\ Call(e, "exit", "exit", 0, 0, 0)
      BY <2>4 DEF exit
    <3> QED
      BY <3>1, CallData
  <2>5. ASSUME NEW s \in Slots, NEW n \in 1..MaxCount, e \in Readers, read(e, s, n)
        PROVE  Data'
    <3>1. UNCHANGED <<curenv, pipe>> /\ Call(e, "read", "loop", s, s, n) /\ n \in Nat
      BY <2>5 DEF read
    <3> QED
      BY <2>5, <3>1, CallData
  <2>6. ASSUME NEW s \in Slots, NEW n \in 1..MaxCount, e \in Writers, write(e, s, n)
        PROVE  Data'
    <3>1. /\ UNCHANGED <<curenv, pipe>> /\ Call(e, "write", "loop", s, s, n) /\ n \in Nat
          /\ sent + n <= MaxBytes
      BY <2>6 DEF write
    <3> QED
      BY <2>6, <3>1, CallData
  <2> QED
    BY <1>3, <2>1, <2>2, <2>3, <2>4, <2>5, <2>6 DEF Program
<1>4. ASSUME NEW e \in Envs, Step(e) PROVE Data'
  <2>1. ASSUME close_fd(e) \/ close_data(e) \/ dup_data(e) PROVE Data'
    <3>1. /\ UNCHANGED <<curenv, pipe>> /\ frame[e].pc \notin Moving
          /\ Return(e) \/ \E pc : pc \notin Moving /\ Goto(e, pc)
      BY <2>1 DEF close_fd, close_data, dup_data, At, Moving
    <3>2. frame[e].pc # "byte"
      BY <3>1 DEF Moving
    <3> QED
      BY <3>1, <3>2, ReturnData, GotoData
  <2>2. ASSUME dup_fd(e) \/ fork_start(e) \/ closed(e) PROVE Data'
    <3>1. UNCHANGED <<curenv, pipe>> /\ Return(e) /\ frame[e].pc # "byte"
      BY <2>2 DEF dup_fd, fork_start, closed, At
    <3> QED
      BY <3>1, ReturnData
  <2>3. ASSUME fork_fd(e) \/ fork_data(e) PROVE Data'
    <3>1. UNCHANGED <<curenv, pipe>> /\ \A f \in Envs : Harmless(f)
      BY <2>3 DEF fork_fd, fork_data, Harmless, Same
    <3> QED
      BY <3>1, QuietData DEF Marked
  <2>4. ASSUME exit_close(e) PROVE Data'
    <3>1. PICK s \in Slots :
            /\ UNCHANGED <<curenv, pipe>> /\ frame[e].pc = "exit"
            /\ frame' = [frame EXCEPT ![e].pc = "close_fd", ![e].new = s]
      BY <2>4 DEF exit_close, At
    <3>2. Waiting(e, frame') /\ \A f \in Envs \ {e} : frame'[f] = frame[f]
      BY <1>a, <3>1 DEF FrameType, Waiting, Moving
    <3> QED
      BY <3>1, <3>2, WaitingData
  <2>5. ASSUME check_fd(e) PROVE Data'
    <3>1. /\ UNCHANGED <<curenv, pipe>> /\ frame[e].pc = "check_fd"
          /\ frame' = [frame EXCEPT ![e].pc = "check_pipe", ![e].rerun = FALSE,
                                    ![e].fd_ref = pageref(fdmap[e][frame[e].fd])]
      BY <2>5 DEF check_fd, At
    <3>2. Waiting(e, frame') /\ \A f \in Envs \ {e} : frame'[f] = frame[f]
      BY <1>a, <3>1 DEF FrameType, Waiting, Moving
    <3> QED
      BY <3>1, <3>2, WaitingData
  <2>8. ASSUME check_pipe(e) PROVE Data'
    <3>1. PICK pc : /\ pc \notin Moving /\ UNCHANGED <<curenv, pipe>>
                    /\ frame[e].pc = "check_pipe" /\ Checked(e, pc)
      BY <2>8 DEF check_pipe, At, Moving
    <3>2. Waiting(e, frame') /\ \A f \in Envs \ {e} : frame'[f] = frame[f]
      BY <1>a, <3>1 DEF Checked, FrameType, Waiting, Moving
    <3> QED
      BY <3>1, <3>2, WaitingData
  <2>6. ASSUME exit_destroy(e) PROVE Data'
    <3> DEFINE fr == [frame EXCEPT ![e] = Idle]
    <3>1. /\ UNCHANGED pipe /\ fr \in [Envs -> FrameType]
          /\ curenv = e /\ frame[e].pc = "exit"
      BY <1>a, <2>6, IdleType DEF exit_destroy, At
    <3>2. fr[e].op = "none" /\ \A f \in Envs \ {e} : fr[f] = frame[f]
      BY <1>a DEF Idle
    <3>3. PICK g \in Envs : env_run(g, fr)
      BY <2>6, YieldRuns DEF exit_destroy
    <3>4. \A f \in Envs : Exposed(f) => fr[f].cut
      BY <3>1, <3>2, YieldMarked DEF Exposed
    <3>5. ~Owing(e)
      BY <3>1 DEF Owing
    <3> HIDE DEF fr
    <3> QED
      BY <3>1, <3>2, <3>3, <3>4, <3>5, SwitchData
  <2>7. ASSUME open(e) PROVE Data'
    <3>1. UNCHANGED pipe /\ curenv = e /\ frame[e].pc = "open"
      BY <2>7 DEF open, At
    <3>2. CASE frame[e].op = "is_closed"
      BY <2>7, <3>1, <3>2, ReturnData DEF open
    <3>3. CASE frame[e].op # "is_closed"
      <4> DEFINE fr == [frame EXCEPT ![e].pc = "loop"]
      <4>1. fr[e] = [frame[e] EXCEPT !.pc = "loop"] /\ \A f \in Envs \ {e} : fr[f] = frame[f]
        BY <1>a
      <4>2. fr[e] \in FrameType /\ Waiting(e, fr)
        BY <1>a, <3>1, <4>1 DEF FrameType, PCs, Waiting, Moving
      <4>3. fr \in [Envs -> FrameType]
        BY <1>a, <4>1, <4>2
      <4>4. PICK g \in Envs : env_run(g, fr)
        BY <2>7, <3>3, YieldRuns DEF open
      <4>5. \A f \in Envs : Exposed(f) => fr[f].cut
        BY <3>1, <4>1, YieldMarked DEF Exposed
      <4> HIDE DEF fr
      <4> QED
        BY <3>1, <4>1, <4>2, <4>3, <4>4, <4>5, SwitchData
    <3> QED
      BY <3>2, <3>3
  <2> QED
    BY <1>4, <2>1, <2>2, <2>3, <2>4, <2>5, <2>6, <2>7, <2>8, LoopData, FetchData, LoadData,
       StoreData, AdvanceReadData, AdvanceWriteData DEF Step
<1>5. CASE Next
  BY <1>2, <1>3, <1>4, <1>5 DEF Next
<1> QED
  BY <1>1, <1>5

LEMMA DInvInit == ASSUME OneStream PROVE Init => DInv
<1> SUFFICES ASSUME Init PROVE DInv
  OBVIOUS
<1>1. TInv
  BY TypeInit
<1>2. Positions
  BY PipeAssumption DEF Init, Positions
<1>3. \A e \in Envs : InStream(e, frame[e]) /\ Loading(e)
  BY DEF Init, InStream, Loading, Exposed, Idle
<1> QED
  BY <1>1, <1>2, <1>3 DEF DInv, Data

(* With one writer and one reader the invariant of the data holds always. *)
THEOREM StreamInvariance == ASSUME OneStream PROVE Spec => []DInv
<1>1. Init => DInv
  BY DInvInit
<1>2. DInv /\ [Next]_vars => DInv'
  BY TypeStep, DataStep DEF DInv
<1> QED
  BY <1>1, <1>2, PTL DEF Spec

(* A read gets the next byte of the stream, for a buffer of any size,       *)
(* whichever comes first, the access to the byte or the store of the        *)
(* position, and however the reader and the writer interrupt each other,    *)
(* but in one place: an interrupt between the store of the position and the *)
(* access to the byte, of the reader or of the writer, marks the byte cut,  *)
(* and of such a byte nothing is claimed (it may be the wrong one).         *)
THEOREM BytesCorrect == ASSUME OneStream PROVE Spec => []BytesInOrder
<1>1. DInv => BytesInOrder
  BY DEF DInv, Data, InStream, BytesInOrder, InOrder, Moving
<1> QED
  BY <1>1, StreamInvariance, PTL

----------------------------------------------------------------------------
(* The pipe implements the channel *)

(* The bytes from a to b, b excluded. *)
Numbers(a, b) == [k \in 1..(b - a) |-> a + k - 1]

(* One more number at the end, one less at the front. *)
LEMMA NumbersPut ==
  ASSUME NEW a \in Nat, NEW b \in Nat, a <= b
  PROVE  Len(Numbers(a, b)) = b - a /\ Numbers(a, b + 1) = Append(Numbers(a, b), b)
<1> DEFINE n == b - a
           s == Numbers(a, b)
           m == n + 1
           r == [i \in 1..(n + 1) |-> IF i = n + 1 THEN b ELSE s[i]]
<1>1. n \in Nat /\ s \in [1..n -> Nat]
  BY DEF Numbers
<1>2. Len(s) = n
  BY <1>1, FunctionIsSeq
<1>3. r = Append(s, b)
  <2> HIDE DEF n, s
  <2> QED
    BY <1>1, PushBack
<1>4. Numbers(a, b + 1) = r
  BY DEF Numbers
<1> HIDE DEF r
<1> QED
  BY <1>2, <1>3, <1>4

LEMMA NumbersGet ==
  ASSUME NEW a \in Nat, NEW b \in Nat, a < b
  PROVE  Numbers(a, b) # <<>> /\ Numbers(a + 1, b) = Tail(Numbers(a, b))
<1> DEFINE n == b - a
           s == Numbers(a, b)
           r == [i \in 1..(n - 1) |-> s[i + 1]]
<1>1. n \in Nat /\ n # 0 /\ s \in [1..n -> Nat]
  BY DEF Numbers
<1>2. s # <<>> /\ r = Tail(s)
  <2> HIDE DEF n, s
  <2> QED
    BY <1>1, HeadAndTail
<1>3. Numbers(a + 1, b) = r
  BY DEF Numbers
<1> HIDE DEF r
<1> QED
  BY <1>2, <1>3

(* What the buffer, the positions and the byte being stored stand for. *)
LEMMA BufferedIs ==
  ASSUME OneStream, DInv
  PROVE  Buffered = Numbers(received, sent)
<1>1. /\ received \in Nat /\ sent \in Nat /\ p_rpos = received
      /\ sent <= MaxBytes /\ MaxBytes \in Nat
      /\ \A k \in received..(sent - 1) : Held(k)
      /\ (p_wpos - p_rpos) % POS_MOD = sent - received
  BY DataFacts
<1>2. ASSUME NEW j \in received..(sent - 1) PROVE ByteAt(j) = j
  <2>1. CASE Storing(j) # {}
    <3> DEFINE f == CHOOSE f \in Storing(j) : TRUE
    <3>1. f \in Storing(j)
      BY <2>1
    <3> HIDE DEF f
    <3>2. f \in Envs /\ frame[f].op = "write" /\ frame[f].pc = "byte" /\ frame[f].pos = j
      BY <3>1 DEF Storing
    <3>3. InStream(f, frame[f])
      BY <3>2 DEF DInv, Data
    <3>4. frame[f].byte = j
      BY <3>2, <3>3 DEF InStream
    <3> QED
      BY <2>1, <3>4 DEF ByteAt, f
  <2>2. CASE Storing(j) = {}
    BY <1>1, <2>2 DEF Held, ByteAt
  <2> QED
    BY <2>1, <2>2
<1>3. ASSUME NEW k \in 1..(sent - received)
      PROVE  ByteAt((received + k - 1) % POS_MOD) = received + k - 1
  <2> DEFINE j == received + k - 1
  <2>1. j \in received..(sent - 1) /\ j \in Nat /\ j <= MaxBytes
    BY <1>1
  <2> HIDE DEF j
  <2>2. j % POS_MOD = j /\ ByteAt(j) = j
    BY <1>2, <2>1, NoWrap
  <2> QED
    BY <2>2 DEF j
<1> QED
  BY <1>1, <1>3 DEF Buffered, Numbers

(* A step changes the stream only by advancing a position. *)
LEMMA OtherSteps ==
  ASSUME [Next]_vars,
         \A e \in Envs : ~advance_read(e) /\ ~advance_write(e)
  PROVE  UNCHANGED <<sent, received>>
<1>1. CASE UNCHANGED vars
  BY <1>1 DEF vars, pipe
<1>2. ASSUME NEW e \in Envs, timer_irq(e) PROVE UNCHANGED <<sent, received>>
  BY <1>2 DEF timer_irq, pipe
<1>3. ASSUME NEW e \in Envs, Program(e) PROVE UNCHANGED <<sent, received>>
  BY <1>3 DEF Program, close, pipe_is_closed, dup, fork, exit, read, write, pipe
<1>4. ASSUME NEW e \in Envs, Step(e) PROVE UNCHANGED <<sent, received>>
  BY <1>4 DEF Step, close_fd, close_data, dup_data, dup_fd, fork_fd, fork_data, fork_start,
     exit_close, exit_destroy, check_fd, check_pipe, closed, open, loop_read, loop_write,
     fetch_read, fetch_write, load_byte, store_byte, pipe
<1> QED
  BY <1>1, <1>2, <1>3, <1>4 DEF Next

(* So every step is one of the channel's or leaves it alone. *)
AsNumbers == Buffered = Numbers(received, sent)

LEMMA StreamStep ==
  ASSUME OneStream, DInv, AsNumbers, AsNumbers', [Next]_vars
  PROVE  [Stream!Next]_(Stream!vars)
<1>1. /\ Buffered = Numbers(received, sent) /\ received \in Nat /\ sent \in Nat
      /\ received <= sent
  BY DataFacts DEF AsNumbers
<1>2. Buffered' = Numbers(received', sent')
  BY DEF AsNumbers, Numbers
<1>3. ASSUME NEW e \in Envs, advance_read(e) PROVE Stream!Next
  <2>1. received' = received + 1 /\ received < sent /\ sent' = sent
    BY <1>3, AdvanceReadData
  <2>2. Buffered # <<>> /\ Buffered' = Tail(Buffered)
    BY <1>1, <1>2, <2>1, NumbersGet
  <2> QED
    BY <2>1, <2>2 DEF Stream!Get, Stream!Next
<1>4. ASSUME NEW e \in Envs, advance_write(e) PROVE Stream!Next
  <2>1. sent' = sent + 1 /\ received' = received /\ sent - received < BY2PIPE
    BY <1>4, AdvanceWriteData
  <2>2. Len(Buffered) < BY2PIPE /\ Buffered' = Append(Buffered, sent)
    BY <1>1, <1>2, <2>1, NumbersPut
  <2> QED
    BY <2>1, <2>2 DEF Stream!Put, Stream!Next
<1>5. CASE \A e \in Envs : ~advance_read(e) /\ ~advance_write(e)
  <2>1. UNCHANGED <<sent, received>>
    BY <1>5, OtherSteps
  <2> QED
    BY <1>1, <1>2, <2>1 DEF Stream!vars
<1> QED
  BY <1>3, <1>4, <1>5

(* The pipe of one reader and one writer is a bounded first-in, first-out   *)
(* queue of bytes, for any size of the buffer: the loads and stores of      *)
(* bytes and positions, in either order and in any interleaving with each   *)
(* other and with closes, dups, forks and exits, implement Channel.  A byte *)
(* that its writer has counted in p_wpos and is yet to store is in the      *)
(* queue; what a reader gets is the matter of BytesCorrect.                 *)
THEOREM ImplementsChannel == ASSUME OneStream PROVE Spec => IsChannel
<1>1. Init => Stream!Init
  <2> SUFFICES ASSUME Init PROVE Stream!Init
    OBVIOUS
  <2>1. sent = 0 /\ received = 0 /\ Buffered = Numbers(received, sent)
    BY DInvInit, BufferedIs DEF Init
  <2>2. Numbers(0, 0) = <<>>
    BY DEF Numbers
  <2> QED
    BY <2>1, <2>2 DEF Stream!Init
<1>2. DInv => AsNumbers
  BY BufferedIs DEF AsNumbers
<1>3. DInv /\ AsNumbers /\ AsNumbers' /\ [Next]_vars => [Stream!Next]_(Stream!vars)
  BY StreamStep
<1>4. Spec => []DInv
  BY StreamInvariance
<1> QED
  BY <1>1, <1>2, <1>3, <1>4, PTL DEF Spec, IsChannel, Stream!Spec
=============================================================================
