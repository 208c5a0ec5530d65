---------------------------- MODULE MCInterrupts ----------------------------
(* The interrupt controllers of both architectures, each alone with its      *)
(* sources and cores, and three components whose promises are about what     *)
(* happens later: the virtual clock, the block device and the network device *)
(* with its receive thread.                                                  *)
EXTENDS Naturals, TLC

VARIABLES part,         \* which component this behaviour is about
          dev, env      \* its state and its surroundings

vars == <<part, dev, env>>

Plic == INSTANCE Plic WITH
  Src <- {1, 2}, Ctx <- {0, 1}, Hart <- {1}, Prios <- {1}, Thrs <- {1},
  Enables <- {{1, 2}}
Aia == INSTANCE Aia WITH
  Shapes <- {[msimode |-> TRUE, irqs |-> {1}, harts |-> {0}, modes |-> {"inactive", "rise", "low"}, prios |-> {0}, thresholds |-> {}], [msimode |-> FALSE, irqs |-> {1}, harts |-> {0}, modes |-> {"inactive", "high"}, prios |-> {0}, thresholds |-> {1}], [msimode |-> FALSE, irqs |-> {1}, harts |-> {0}, modes |-> {"fall"}, prios |-> {0}, thresholds |-> {}]},
  Page <- {0}, NumIrqs <- 3, Thresholds <- {0, 2}
PchPic == INSTANCE PchPic WITH
  Irq <- {0, 1}, Output <- {0, 1}
Eiointc == INSTANCE Eiointc WITH
  Irq <- {0, 32}, GroupOf <- LAMBDA i : i \div 32, Cpu <- {0, 1},
  CoreBytes <- {1, 2, 17}, IpBytes <- {1, 2}
LaLocalIntc == INSTANCE LaLocalIntc WITH
  Cpu <- {0, 1}, Target <- {0, 1, 2}, Vec <- {0, 1}, Data <- {},
  Irq <- {0, 1}, Core <- {0, 1}, Ip <- {0, 1},
  Maps <- [cores : {{}, {0}, {1}, {0, 1}}, ips : {{0}, {1}}]
LaMail == INSTANCE LaLocalIntc WITH
  Cpu <- {0, 1}, Target <- {1}, Vec <- {}, Data <- {1}, Irq <- {0, 1},
  Core <- {0, 1}, Ip <- {0, 1},
  Maps <- [cores : {{}, {0}, {1}, {0, 1}}, ips : {{0}, {1}}]
LaCascade == INSTANCE LaCascade WITH
  Irq <- {0, 1}, Output <- {3, 35}, GroupOf <- LAMBDA i : i \div 32,
  Cpu <- {0, 1}, Edge <- {1},
  Route <- {[pch |-> 0, eio |-> 3, cpu |-> 1, hwi |-> 1], [pch |-> 1, eio |-> 35, cpu |-> 0, hwi |-> 2]}
VirtualClock == INSTANCE VirtualClock WITH
  MaxNs <- 5, MaxId <- 4, Period <- 1
Virtio == INSTANCE Virtio WITH
  IdxMod <- 4, BlkNum <- 2, Capacity <- 3, OffMod <- 8, Heads <- {0, 3},
  Hdr <- (0 :> [type |-> "in", sector |-> 1]) @@ (3 :> [type |-> "out", sector |-> 2]) @@ (5 :> [type |-> "flush", sector |-> 0]) @@ (6 :> [type |-> "in", sector |-> 8]) @@ (7 :> [type |-> "out", sector |-> 1]) @@ (8 :> [type |-> "in", sector |-> 0]),
  Table <- [i \in 0 .. 9 |-> [next |-> CASE i = 3 -> 4 [] i = 5 -> 2 [] i = 7 -> 9 [] i = 9 -> 2 [] i \in {4, 6, 8} -> 1 [] OTHER -> i + 1, more |-> i # 2, write |-> i \in {1, 2}, ram |-> i # 9, len |-> IF i = 8 THEN 0 ELSE IF i = 4 THEN 2 ELSE 1]],
  NetNum <- 1, MaxPackets <- 3

Init ==
  \/ part = "plic" /\ Plic!Init
  \/ part = "aplic" /\ Aia!AplicInit
  \/ part = "imsic" /\ Aia!ImsicInit
  \/ part = "pch_pic" /\ PchPic!Init
  \/ part = "eiointc" /\ Eiointc!Init
  \/ part = "la_ipi" /\ LaLocalIntc!IpiInit
  \/ part = "la_mail" /\ LaMail!IpiInit
  \/ part = "liointc" /\ LaLocalIntc!LioInit
  \/ part = "la_cascade" /\ LaCascade!Init
  \/ part = "clock" /\ VirtualClock!Init
  \/ part = "virtio_blk" /\ Virtio!BlkInit
  \/ part = "virtio_net" /\ Virtio!NetInit

Next ==
  /\ UNCHANGED part
  /\ \/ part = "plic" /\ Plic!Next
     \/ part = "aplic" /\ Aia!AplicNext
     \/ part = "imsic" /\ Aia!ImsicNext
     \/ part = "pch_pic" /\ PchPic!Next
     \/ part = "eiointc" /\ Eiointc!Next
     \/ part = "la_ipi" /\ LaLocalIntc!IpiNext
     \/ part = "la_mail" /\ LaMail!IpiNext
     \/ part = "liointc" /\ LaLocalIntc!LioNext
     \/ part = "la_cascade" /\ LaCascade!Next
     \/ part = "clock" /\ VirtualClock!Next
     \/ part = "virtio_blk" /\ Virtio!BlkNext
     \/ part = "virtio_net" /\ Virtio!NetNext

Spec ==
  /\ Init /\ [][Next]_vars
  /\ WF_vars(part = "virtio_net" /\ UNCHANGED part /\ Virtio!Worker)
  /\ WF_vars(part = "virtio_net" /\ UNCHANGED part /\ Virtio!ResetEnd)
-----------------------------------------------------------------------------
\* What a device, a message or another core raised is pending until the guest
\* takes that very thing; the overlaps in which the code loses it are the
\* exceptions named.
\* - A raise stays pending in the PLIC until a claim clears it after the
\*   raise.
\* - An APLIC edge is pending until the guest is told of it, whatever runs
\*   between set_irq()'s test and its store.
\* - A wired APLIC level source at its active level is pending, unless its
\*   latest set_irq() overlapped a claim, a sourcecfg write or a reset
\*   (aplic.rs:589-598).
\* - In MSI mode no enabled pending APLIC source is left unsent.
\* - An MSI stays pending until the guest takes that identity.
\* - A latched edge of the bridge controller waits for the guest's clear.
\* - Requested and unmasked means accepted.
\* - A LoongArch IPI stays pending until its CPU clears it.
\* - Mailbox bytes arrive unless an ANY_SEND overlapped another send.
RaisedUntilTaken ==
  /\ part = "plic" => Plic!RaiseStaysPending
  /\ part = "aplic" => Aia!EdgeNotLost
  /\ part = "aplic" => Aia!LevelStaysPending
  /\ part = "aplic" => Aia!MsiNotStuck
  /\ part = "imsic" => Aia!MessageStaysPending
  /\ part = "pch_pic" => PchPic!EdgeStaysRequested
  /\ part = "pch_pic" => PchPic!AcceptedUnlessMasked
  /\ part = "la_ipi" => LaLocalIntc!IpiStaysPending
  /\ part = "la_mail" => LaMail!MailArrives

\* One interrupt is taken by one hart.
\* - The PLIC hands a source to one context until some hart completes it,
\*   with devices raising it between a claim's scan and its marking.
\* - Rerouting an input neither duplicates nor loses it.
TakenByOne ==
  /\ part = "plic" => Plic!ClaimExclusive
  /\ part = "eiointc" => Eiointc!ShownToOneCpu

\* When the handlers in progress are done, every line is what the registers
\* say; the overlaps after which the code leaves one wrong are the exceptions
\* named.
\* - When every PLIC handler is done the lines agree with the registers.
\* - A wired APLIC's lines are right when both threads are done, unless the
\*   hart's latest idc_update() overlapped another one or a reset
\*   (aplic.rs:560-576).
\* - When both threads are done the IMSIC page's line follows its registers,
\*   unless a message's update ran inside a reset (imsic.rs:107-112).
\* - The bridge controller's outputs follow its in-service inputs and vector
\*   table.
\* - The CPU lines follow the per-CPU status and the ipmap.
\* - The IPI line is stale only after an enable write.
\* - The cached parent levels are the levels on the wires.
\* - An enabled asserted input reaches every line it is mapped to.
\* - When the handlers are done the LoongArch CPUs see exactly the devices'
\*   accepted interrupts.
LinesSettle ==
  /\ part = "plic" => Plic!LineSettles
  /\ part = "aplic" => Aia!AplicLineHonest
  /\ part = "imsic" => Aia!ImsicLineHonest
  /\ part = "pch_pic" => PchPic!OutputsFollow
  /\ part = "eiointc" => Eiointc!LinesFollow
  /\ part = "la_ipi" => LaLocalIntc!LineHonest
  /\ part = "liointc" => LaLocalIntc!CacheMatchesWire
  /\ part = "liointc" => LaLocalIntc!EveryParentDriven
  /\ part = "la_cascade" => LaCascade!CpuSeesDevices

\* What was cancelled, completed or reset does not come back, and what is due
\* comes in order.
\* - A successful cancel ends a rescheduling timer.
\* - Expired timers are called in expiry order.
\* - Every request made available to the block device is used once, in order.
\* - Block transfers succeed exactly when they fit, for requests that end
\*   below 2^64 bytes (block.rs:168).
\* - No packet read before a device reset is delivered after it.
\* - Transmit and receive agree on the virtio-net header size.
NothingAfterCancel ==
  /\ part = "clock" => VirtualClock!CancelHolds
  /\ part = "clock" => VirtualClock!FiresInOrder
  /\ part = "virtio_blk" => Virtio!RequestsAccounted
  /\ part = "virtio_blk" => Virtio!TransfersInRange
  /\ part = "virtio_net" => Virtio!NothingFromBeforeReset
  /\ part = "virtio_net" => Virtio!HeadersAgree

\* The block device's used entries are published together with the interrupt
\* status, never without (mmio.rs:126-150).
\* - Used entries are published with the interrupt.
CompletionSignalled ==
  [][/\ part = "virtio_blk" => Virtio!CompletionSignalled]_vars

\* A virtio-net reset returns although it joins the receive worker while it
\* holds the lock that worker wants (net.rs:486-491).
ResetReturns == (part = "virtio_net" /\ Virtio!Joining) ~> (part = "virtio_net" /\ Virtio!Returned)
=============================================================================
