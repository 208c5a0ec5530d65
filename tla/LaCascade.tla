------------------------------ MODULE LaCascade -----------------------------
(* The LoongArch interrupt path (hw/loongarch/src/interrupt.rs): devices     *)
(* drive the bridge controller PchPic, its outputs drive Eiointc, whose      *)
(* lines are the CPU's hardware interrupts.  A handler changes the bridge    *)
(* registers under one lock and recomputes the outputs under it again later, *)
(* so device threads and the guest interleave between the two.               *)
EXTENDS Naturals, FiniteSets

CONSTANTS Irq, Output, GroupOf(_), Cpu,
          Route,        \* routes to set up: [pch, eio, cpu, hwi]
          Edge          \* inputs the guest made edge-triggered
VARIABLES dev,          \* [pch, eio]: the two controllers
          env           \* threads between a change and its update; acked inputs

vars == <<dev, env>>

P == INSTANCE PchPic WITH dev <- dev.pch, env <- env.acked
E == INSTANCE Eiointc WITH Irq <- Output, CoreBytes <- {}, IpBytes <- {}, dev <- dev.eio, env <- env.acked

Guest == 99             \* the vCPU thread; the others are the devices

\* route_pch_irq_to_cpu_hwi() for every route: vector and mask at the bridge,
\* pin, core and enable at the extended controller.
RoutePch(d) ==
  [d EXCEPT !.vector = [i \in Irq |-> IF \E r \in Route : r.pch = i
                                      THEN (CHOOSE r \in Route : r.pch = i).eio ELSE @[i]],
            !.mask = @ \ {r.pch : r \in Route}]
CoremapByte(c) == (c \div 4) * 16 + 2^(c % 4)
RouteEio(d) ==
  [d EXCEPT !.coremap = [o \in Output |-> IF \E r \in Route : r.eio = o
                                          THEN CoremapByte((CHOOSE r \in Route : r.eio = o).cpu) ELSE @[o]],
            !.ipmap = [g \in DOMAIN @ |-> IF \E r \in Route : GroupOf(r.eio) = g
                                          THEN 2^((CHOOSE r \in Route : GroupOf(r.eio) = g).hwi) ELSE @[g]],
            !.enable = @ \cup {r.eio : r \in Route}]

Init ==
  /\ dev = [pch |-> [RoutePch(P!New) EXCEPT !.edge = Edge], eio |-> RouteEio(E!New)]
  /\ env = [busy |-> {}, acked |-> {}]

-----------------------------------------------------------------------------
\* The bridge's set_irq(), first half.
SetIrq(i, level) ==
  /\ i \notin env.busy
  /\ dev' = [dev EXCEPT !.pch = P!PchPicUpdateIrq(P!SetInputLevel(@, i, level), {i}, level)]
  /\ env' = [env EXCEPT !.busy = @ \cup {i}]
\* Second half: update_outputs() drives every connected output, and each one
\* makes the extended controller rebuild and drive the CPU lines.
UpdateOutputs(i) ==
  LET pch == P!UpdateOutputs(dev.pch)
  IN /\ i \in env.busy
     /\ dev' = [pch |-> pch, eio |-> E!UpdateOutputs(E!RebuildCoreIsr([dev.eio EXCEPT !.isr = pch.line]))]
     /\ env' = [busy |-> env.busy \ {i}, acked |-> {}]

\* The guest: masks, clears edges (its own update follows at once in this
\* thread, so it is one of the busy ones), and acks at the extended controller.
WriteMask(M) ==
  /\ Guest \notin env.busy
  /\ dev' = [dev EXCEPT !.pch = P!PchPicUpdateIrq(P!PchPicUpdateIrq([@ EXCEPT !.mask = M], @.mask \ M, TRUE),
                                                  M \ @.mask, FALSE)]
  /\ env' = [env EXCEPT !.busy = @ \cup {Guest}]
ClearEdge(S) ==
  /\ Guest \notin env.busy
  /\ dev' = [dev EXCEPT !.pch.irr = @ \ (S \cap dev.pch.edge), !.pch.isr = @ \ (S \cap dev.pch.edge)]
  /\ env' = [env EXCEPT !.busy = @ \cup {Guest}]
AckEiointc(c, o) ==
  /\ Guest \notin env.busy
  /\ dev' = [dev EXCEPT !.eio = E!ClearCoreIsr(@, c, {o})]
  /\ env' = [env EXCEPT !.acked = @ \cup {o}]

Next ==
  \/ \E i \in Irq, level \in BOOLEAN : SetIrq(i, level)
  \/ \E i \in Irq \cup {Guest} : UpdateOutputs(i)
  \/ \E M \in SUBSET Irq : WriteMask(M)
  \/ \E S \in SUBSET Edge : ClearEdge(S)
  \/ \E c \in Cpu, o \in Output : AckEiointc(c, o)

-----------------------------------------------------------------------------
Asserted == {o \in Output : \E i \in dev.pch.isr : dev.pch.vector[i] = o}

\* Once no thread is between a change and its update, the CPUs see exactly the
\* accepted inputs: a routed input in service is up at its CPU and pin unless
\* the guest acked it, and no CPU line is up without one.  This is what the
\* two controllers and the wiring promise together (interrupt.rs:92-142).
CpuSeesDevices ==
  env.busy = {} =>
    \A r \in Route :
      /\ r.eio \in Asserted \ env.acked => <<r.cpu, r.hwi>> \in dev.eio.line
      /\ <<r.cpu, r.hwi>> \in dev.eio.line =>
           \E q \in Route : q.eio \in Asserted /\ q.cpu = r.cpu /\ q.hwi = r.hwi
=============================================================================
