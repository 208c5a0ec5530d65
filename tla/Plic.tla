-------------------------------- MODULE Plic --------------------------------
(* The platform-level interrupt controller (hw/intc/src/plic.rs).  Pending   *)
(* and claimed are atomic bitmaps written without a lock; enable, threshold  *)
(* and the claim record sit behind the contexts lock; the lines are driven   *)
(* by update_outputs(), which each handler calls after its store, so devices *)
(* and harts can run between the store and the update, and devices between   *)
(* the scan of a claim and the two bitmap updates it leads to.               *)
EXTENDS Naturals, FiniteSets

CONSTANTS Src,          \* the source numbers (1 .. num_sources - 1)
          Ctx,          \* the contexts
          Hart,         \* vCPU threads (numbers)
          Prios,        \* values written to a priority register
          Thrs,         \* values written to a threshold register
          Enables       \* values written to an enable word (sets of sources)

VARIABLES dev,          \* the struct Plic and its output lines
          env           \* where the threads are, and what was raised and claimed

vars == <<dev, env>>

Device(s) == <<"device", s>>
Vcpu(h) == <<"vcpu", h>>
Machine == <<"machine", 0>>
Thread == {Device(s) : s \in Src} \cup {Vcpu(h) : h \in Hart} \cup {Machine}

\* Where a thread is: idle, about to update the outputs, in the middle of a
\* claim or a completion of a source, or in the middle of a reset.
At(place) == <<place, 0, 0>>
Idle == At("idle")

Init ==
  /\ dev = [priority |-> [s \in Src |-> 0], pending |-> {}, claimed |-> {},
            enable |-> [c \in Ctx |-> {}], threshold |-> [c \in Ctx |-> 0],
            claim |-> [c \in Ctx |-> 0], line |-> [c \in Ctx |-> FALSE]]
  /\ env = [pc |-> [t \in Thread |-> Idle], held |-> [c \in Ctx |-> {}], owed |-> {}]

-----------------------------------------------------------------------------
Candidates(c) ==
  {s \in (dev.pending \ dev.claimed) \cap dev.enable[c] : dev.priority[s] > dev.threshold[c]}

\* The scan keeps the first source of the highest priority it meets.
Best(c) ==
  {s \in Candidates(c) : \A r \in Candidates(c) :
     dev.priority[s] > dev.priority[r] \/ (dev.priority[s] = dev.priority[r] /\ s <= r)}

\* claim_irq() holds the lock of the contexts from its scan to its end.
Locked == \E h \in Hart : env.pc[Vcpu(h)][1] \in {"take", "mark"}
Resetting == env.pc[Machine] # Idle
Ready(h) == env.pc[Vcpu(h)] = Idle /\ ~Resetting

SetIrq(s, level) ==
  /\ env.pc[Device(s)] = Idle
  /\ IF level
     THEN /\ dev' = [dev EXCEPT !.pending = @ \cup {s}]
          /\ env' = [env EXCEPT !.pc[Device(s)] = At("update"), !.owed = @ \cup {s}]
     ELSE UNCHANGED vars

\* update_outputs() reads and drives every line under the contexts lock.  A
\* pending bit may change while it runs, but then the thread that changed it has
\* an update of its own to do after this one, so one step stands for the loop.
UpdateOutputsFirst(t) ==
  /\ env.pc[t] = At("update") /\ ~Locked
  /\ dev' = [dev EXCEPT !.line = [c \in Ctx |-> IF t[1] = "device" THEN @[c] \/ Candidates(c) # {} ELSE @[c]]]
  /\ env' = [env EXCEPT !.pc[t] = Idle]
UpdateOutputs(t) ==
  /\ env.pc[t] = At("update") /\ ~Locked
  /\ dev' = [dev EXCEPT !.line = [c \in Ctx |-> Candidates(c) # {}]]
  /\ env' = [env EXCEPT !.pc[t] = Idle]

\* A read of the claim register.  The scan, the clearing of the pending bit
\* and the setting of the claimed bit are three accesses, all under the lock.
Claim(h, c) ==
  /\ Ready(h) /\ ~Locked
  /\ IF Candidates(c) = {}
     THEN env' = [env EXCEPT !.pc[Vcpu(h)] = At("update")]
     ELSE \E s \in Best(c) : env' = [env EXCEPT !.pc[Vcpu(h)] = <<"take", s, c>>]
  /\ UNCHANGED dev
TakePending(h) ==
  /\ env.pc[Vcpu(h)][1] = "take"
  /\ LET s == env.pc[Vcpu(h)][2] c == env.pc[Vcpu(h)][3]
     IN /\ dev' = [dev EXCEPT !.pending = @ \ {s}]
        /\ env' = [env EXCEPT !.pc[Vcpu(h)] = <<"mark", s, c>>, !.owed = @ \ {s}]
MarkClaimedLate(h) ==
  /\ env.pc[Vcpu(h)][1] = "mark"
  /\ LET s == env.pc[Vcpu(h)][2] c == env.pc[Vcpu(h)][3]
     IN /\ dev' = [dev EXCEPT !.claim[c] = s]
        /\ env' = [env EXCEPT !.pc[Vcpu(h)] = At("update"), !.held[c] = @ \cup {s}]
MarkClaimed(h) ==
  /\ env.pc[Vcpu(h)][1] = "mark"
  /\ LET s == env.pc[Vcpu(h)][2] c == env.pc[Vcpu(h)][3]
     IN /\ dev' = [dev EXCEPT !.claimed = @ \cup {s}, !.claim[c] = s]
        /\ env' = [env EXCEPT !.pc[Vcpu(h)] = At("update"), !.held[c] = @ \cup {s}]

\* A write of the claim register, of any number.  The context's record goes
\* under the lock; the claimed bit goes after it, whichever context holds the
\* source; a number that is no source (here 0) changes neither.
Complete(h, c, s) ==
  /\ Ready(h) /\ ~Locked
  /\ dev' = [dev EXCEPT !.claim[c] = IF @ = s THEN 0 ELSE @]
  /\ env' = [env EXCEPT !.pc[Vcpu(h)] = IF s = 0 THEN At("update") ELSE <<"clear", s, 0>>]
ClearClaimed(h) ==
  /\ env.pc[Vcpu(h)][1] = "clear"
  /\ LET s == env.pc[Vcpu(h)][2]
     IN /\ dev' = [dev EXCEPT !.claimed = @ \ {s}]
        /\ env' = [env EXCEPT !.pc[Vcpu(h)] = At("update"), !.held = [c \in Ctx |-> @[c] \ {s}]]

WritePriority(h, s, v) ==
  /\ Ready(h)
  /\ dev' = [dev EXCEPT !.priority[s] = v]
  /\ env' = [env EXCEPT !.pc[Vcpu(h)] = At("update")]
WriteEnable(h, c, v) ==
  /\ Ready(h) /\ ~Locked
  /\ dev' = [dev EXCEPT !.enable[c] = v]
  /\ env' = [env EXCEPT !.pc[Vcpu(h)] = At("update")]
WriteThreshold(h, c, v) ==
  /\ Ready(h) /\ ~Locked
  /\ dev' = [dev EXCEPT !.threshold[c] = v]
  /\ env' = [env EXCEPT !.pc[Vcpu(h)] = At("update")]

\* reset_runtime(), with the vCPUs stopped and the devices' threads running.
ResetPriority ==
  /\ env.pc[Machine] = Idle /\ \A h \in Hart : env.pc[Vcpu(h)] = Idle
  /\ dev' = [dev EXCEPT !.priority = [s \in Src |-> 0]]
  /\ env' = [env EXCEPT !.pc[Machine] = At("pending")]
ResetPending ==
  /\ env.pc[Machine] = At("pending")
  /\ dev' = [dev EXCEPT !.pending = {}]
  /\ env' = [env EXCEPT !.pc[Machine] = At("claimed"), !.owed = {}]
ResetClaimed ==
  /\ env.pc[Machine] = At("claimed")
  /\ dev' = [dev EXCEPT !.claimed = {}]
  /\ env' = [env EXCEPT !.pc[Machine] = At("contexts"), !.held = [c \in Ctx |-> {}]]
ResetContexts ==
  /\ env.pc[Machine] = At("contexts")
  /\ dev' = [dev EXCEPT !.enable = [c \in Ctx |-> {}], !.threshold = [c \in Ctx |-> 0],
                        !.claim = [c \in Ctx |-> 0]]
  /\ env' = [env EXCEPT !.pc[Machine] = At("lower")]
LowerOutputs ==
  /\ env.pc[Machine] = At("lower")
  /\ dev' = [dev EXCEPT !.line = [c \in Ctx |-> FALSE]]
  /\ env' = [env EXCEPT !.pc[Machine] = Idle]

Next ==
  \/ \E s \in Src, level \in BOOLEAN : SetIrq(s, level)
  \/ \E t \in Thread : UpdateOutputs(t)
  \/ \E h \in Hart, c \in Ctx : Claim(h, c)
  \/ \E h \in Hart, c \in Ctx, s \in Src \cup {0} : Complete(h, c, s)
  \/ \E h \in Hart : TakePending(h) \/ MarkClaimed(h) \/ ClearClaimed(h)
  \/ \E h \in Hart, s \in Src, v \in Prios : WritePriority(h, s, v)
  \/ \E h \in Hart, c \in Ctx, v \in Enables : WriteEnable(h, c, v)
  \/ \E h \in Hart, c \in Ctx, v \in Thrs : WriteThreshold(h, c, v)
  \/ ResetPriority \/ ResetPending \/ ResetClaimed \/ ResetContexts \/ LowerOutputs

Spec == Init /\ [][Next]_vars

-----------------------------------------------------------------------------
\* A source claimed by one context is not handed to another before some hart
\* writes its number to a completion register, whatever devices raise between
\* the scan and the marking: claim_irq() scans and marks under one lock, and
\* only a completion or a reset unmarks (plic.rs:205-247 and 268-272).
ClaimExclusive ==
  \A c, d \in Ctx : (env.held[c] \cap env.held[d] # {}) => c = d

\* A raise is not forgotten: from set_irq(s, true) until a claim of s clears
\* the pending bit after it, or the machine is reset, s stays pending, whatever
\* is claimed, completed or reprogrammed in between (plic.rs:151-161 and 241).
RaiseStaysPending == env.owed \subseteq dev.pending

\* A line disagrees with the registers only while some thread still has its
\* update_outputs() (or a reset its lower_outputs()) to run, so whatever the
\* order of the stores and updates, the last one leaves every line right.
LineSettles ==
  (\A t \in Thread : env.pc[t] = Idle) =>
    \A c \in Ctx : dev.line[c] <=> Candidates(c) # {}
=============================================================================
