------------------------------- MODULE PchPic -------------------------------
(* The LoongArch bridge interrupt controller (hw/intc/src/pch_pic.rs): edge  *)
(* and level inputs, a mask that gates acceptance into the in-service set,   *)
(* and a vector table that says which output an accepted input drives.      *)
EXTENDS Naturals, FiniteSets

CONSTANTS Irq,          \* 0 .. irq_num - 1
          Output        \* connected outputs, the values of htmsi_vector
VARIABLES dev, env      \* registers and lines; edges seen and not cleared

vars == <<dev, env>>

New == [mask |-> Irq, edge |-> {}, irr |-> {}, isr |-> {}, last |-> {},
        vector |-> [i \in Irq |-> 0], line |-> {}]
Init == dev = New /\ env = {}

SetInputLevel(d, i, level) ==
  IF i \in d.edge
  THEN [d EXCEPT !.irr = IF level /\ i \notin d.last THEN @ \cup {i} ELSE @,
                 !.last = IF level THEN @ \cup {i} ELSE @ \ {i}]
  ELSE [d EXCEPT !.irr = IF level THEN @ \cup {i} ELSE @ \ {i},
                 !.last = IF level THEN @ \cup {i} ELSE @ \ {i}]
PchPicUpdateIrq(d, S, level) ==
  [d EXCEPT !.isr = IF level THEN @ \cup ((S \cap d.irr) \ d.mask) ELSE @ \ (S \ d.irr)]
UpdateOutputs(d) == [d EXCEPT !.line = {d.vector[i] : i \in d.isr} \cap Output]

SetIrqOf(d, i, level) == UpdateOutputs(PchPicUpdateIrq(SetInputLevel(d, i, level), {i}, level))

\* A write that changes the mask accepts what it unmasked and was requested,
\* and drops what it masked and is no longer requested.
WriteMaskOf(d, M) ==
  IF M = d.mask THEN d
  ELSE UpdateOutputs(PchPicUpdateIrq(PchPicUpdateIrq([d EXCEPT !.mask = M], d.mask \ M, TRUE),
                                     M \ d.mask, FALSE))
WriteEdgeOf(d, E) == UpdateOutputs([d EXCEPT !.edge = E])
ClearEdgeIrqs(d, S) ==
  UpdateOutputs([d EXCEPT !.irr = @ \ (S \cap d.edge), !.isr = @ \ (S \cap d.edge)])
WriteVector(d, i, v) == UpdateOutputs([d EXCEPT !.vector[i] = v])

-----------------------------------------------------------------------------
Rising(i, level) == i \in dev.edge /\ level /\ i \notin dev.last
Next ==
  \/ \E i \in Irq, level \in BOOLEAN :
       /\ dev' = SetIrqOf(dev, i, level)
       /\ env' = IF Rising(i, level) THEN env \cup {i} ELSE env
  \/ \E M \in SUBSET Irq : dev' = WriteMaskOf(dev, M) /\ UNCHANGED env
  \/ \E E \in SUBSET Irq : dev' = WriteEdgeOf(dev, E) /\ env' = env \cap E
  \/ \E S \in SUBSET Irq : dev' = ClearEdgeIrqs(dev, S) /\ env' = env \ S
  \/ \E i \in Irq, v \in Output : dev' = WriteVector(dev, i, v) /\ UNCHANGED env

-----------------------------------------------------------------------------
\* An edge that arrived stays requested until the guest clears it, also when
\* it arrived masked or the input has gone down since (pch_pic.rs:213-225).
EdgeStaysRequested == env \subseteq dev.irr

\* A requested input that is not masked has been accepted, in whatever order
\* inputs, masks and modes changed: no interrupt waits for an event that will
\* not come (pch_pic.rs:135-150 and 236-260).
AcceptedUnlessMasked == dev.irr \ dev.mask \subseteq dev.isr

\* The outputs are those of the accepted inputs after every access, vector
\* table writes included (pch_pic.rs:164-184).
OutputsFollow == dev.line = {dev.vector[i] : i \in dev.isr}
=============================================================================
