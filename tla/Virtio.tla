------------------------------- MODULE Virtio -------------------------------
(* The virtio transport, its queues, the block and the network device        *)
(* (hw/virtio/src).  Each is a specification of its own, over the same two   *)
(* variables.                                                                *)
EXTENDS Naturals, Sequences, SequencesExt, FiniteSets

VARIABLES dev,     \* the device
          env      \* its surroundings

vars == <<dev, env>>

-----------------------------------------------------------------------------
(* The split virtqueue and the MMIO transport around it                      *)
(* (hw/virtio/src/queue.rs, mmio.rs), as operators on records: q is a        *)
(* VirtQueue, t the transport, g the guest memory behind one queue.          *)
CONSTANTS IdxMod        \* ring indices wrap here: 2^16 in the code

BadAddr == "bad"        \* outside guest RAM; the reset value 0 is
NewQueue == [ready |-> FALSE, num |-> 0, desc |-> BadAddr, avail |-> BadAddr, used |-> BadAddr, last |-> 0]
NewMemory == [avail |-> <<>>, availIdx |-> 0, used |-> <<>>, usedIdx |-> 0]

\* avail and used are functions from ring slots; a slot never written reads 0
Slot(ring, i) == IF i \in DOMAIN ring THEN ring[i] ELSE 0
PutSlot(ring, i, v) == [j \in DOMAIN ring \cup {i} |-> IF j = i THEN v ELSE ring[j]]

ReadAvailIdx(q, g) == IF q.avail = BadAddr THEN q.last ELSE g.availIdx
ReadAvailRing(q, g, i) == IF q.num = 0 \/ q.avail = BadAddr THEN 0 ELSE Slot(g.avail, i % q.num)
WriteUsed(q, g, i, entry) ==
  IF q.num = 0 \/ q.used = BadAddr THEN g ELSE [g EXCEPT !.used = PutSlot(@, i % q.num, entry)]
WriteUsedIdx(q, g, i) == IF q.used = BadAddr THEN g ELSE [g EXCEPT !.usedIdx = i]

\* walk_chain: at most num descriptors, so a looping chain ends
WalkChain(q, table, head) ==
  LET at[k \in 1 .. q.num] == IF k = 1 THEN head ELSE table[at[k - 1]].next
      more(k) == table[at[k]].more
      n == IF q.num = 0 \/ q.desc = BadAddr THEN 0
           ELSE CHOOSE k \in 1 .. q.num : (k = q.num \/ ~more(k)) /\ \A j \in 1 .. k - 1 : more(j)
  IN [k \in 1 .. n |-> table[at[k]]]

-----------------------------------------------------------------------------
NewTransport(n) ==
  [status |-> {}, feat |-> FALSE, sel |-> 0, queues |-> [i \in 0 .. n - 1 |-> NewQueue],
   intr |-> FALSE, irq |-> FALSE, pages |-> FALSE]
ResetTransport(t) ==
  [t EXCEPT !.status = {}, !.feat = FALSE, !.sel = 0, !.queues = [i \in DOMAIN @ |-> NewQueue],
            !.intr = FALSE, !.irq = FALSE, !.pages = FALSE]

\* registers of the selected queue: ignored when the selector is out of range
OnQueue(t, q) == IF t.sel \in DOMAIN t.queues THEN [t EXCEPT !.queues[t.sel] = q] ELSE t
Current(t) == IF t.sel \in DOMAIN t.queues THEN t.queues[t.sel] ELSE NewQueue
WriteQueueSel(t, s) == [t EXCEPT !.sel = s]
WriteQueueNum(t, n, max) == OnQueue(t, [Current(t) EXCEPT !.num = IF n > max THEN max ELSE n])
WriteQueueReady(t, b) == OnQueue(t, [Current(t) EXCEPT !.ready = b])
WriteQueueDesc(t) == OnQueue(t, [Current(t) EXCEPT !.desc = "ram"])
WriteQueueAvail(t) == OnQueue(t, [Current(t) EXCEPT !.avail = "ram"])
WriteQueueUsed(t) == OnQueue(t, [Current(t) EXCEPT !.used = "ram"])
WritePageSize(t) == [t EXCEPT !.pages = TRUE]
\* the legacy queue register resets the queue, or places and readies all of it
WriteLegacyPfn(t, zero) ==
  IF zero THEN OnQueue(t, NewQueue)
  ELSE IF t.pages
       THEN OnQueue(t, [Current(t) EXCEPT !.desc = "ram", !.avail = "ram", !.used = "ram", !.ready = TRUE])
       ELSE t

CanNotify(t, s) == /\ s \in DOMAIN t.queues
                   /\ t.queues[s].ready /\ t.queues[s].num # 0
                   /\ "driver_ok" \in t.status
Raise(t, n) == IF n > 0 THEN [t EXCEPT !.intr = TRUE, !.irq = TRUE] ELSE t
InterruptAck(t) == [t EXCEPT !.intr = FALSE, !.irq = FALSE]
WriteStatus(t, s) == [t EXCEPT !.status = s]

-----------------------------------------------------------------------------
(* A virtio block device behind its MMIO transport (hw/virtio/src/block.rs,  *)
(* mmio.rs): the driver queues requests while the device is being set up,    *)
(* reset and notified; every access holds the transport's lock.  Lengths and *)
(* offsets count sectors; a header shorter than 16 bytes has length 0.       *)
CONSTANTS Table,        \* the descriptor table: index -> [next, more, write, ram, len]
          Hdr,          \* request head -> [type, sector]
          Heads,        \* the requests the driver makes
          BlkNum, Capacity,
          OffMod        \* disk offsets wrap here: 2^64 bytes in the code


BlkInit ==
  /\ dev = NewTransport(1)
  /\ env = [g |-> NewMemory, owed |-> <<>>,   \* heads made available and not yet used
            kicked |-> FALSE,                 \* an accepted notification came after all of them
            done |-> <<>>]                   \* what the last notification completed

-----------------------------------------------------------------------------
(* One request: what is transferred, in order, until a segment fails *)
Segments(chain) == SubSeq(chain, 2, Len(chain) - 1)
Failed == [status |-> "ioerr", off |-> 0, done |-> 0]
Fits(end) == end <= Capacity
DoTransfer(write, sector, descs) ==
  LET step(s, desc) ==
        IF s.status # "ok" \/ desc.write # write THEN s
        ELSE IF ~desc.ram \/ ~Fits((s.off + desc.len) % OffMod) THEN [s EXCEPT !.status = "ioerr"]
        ELSE [s EXCEPT !.off = (@ + desc.len) % OffMod, !.done = @ + desc.len]
  IN IF sector >= OffMod THEN Failed
     ELSE FoldLeft(step, [status |-> "ok", off |-> sector, done |-> 0], descs)
DoRead(sector, descs) == DoTransfer(TRUE, sector, descs)
DoWrite(sector, descs) == DoTransfer(FALSE, sector, descs)
ProcessRequest(chain, head) ==
  IF Len(chain) < 2 \/ ~chain[1].ram \/ chain[1].len = 0
  THEN [status |-> "none", written |-> 0, off |-> 0, done |-> 0]
  ELSE LET hdr == Hdr[head]
           r == CASE hdr.type = "in" -> DoRead(hdr.sector, Segments(chain))
                  [] hdr.type = "out" -> DoWrite(hdr.sector, Segments(chain))
                  [] OTHER -> [status |-> "unsupp", off |-> hdr.sector, done |-> 0]
           last == chain[Len(chain)]
           valid == last.ram /\ last.write
       IN [status |-> IF valid THEN r.status ELSE "none", off |-> r.off, done |-> r.done,
           written |-> (IF hdr.type = "in" THEN r.done ELSE 0) + (IF valid THEN 1 ELSE 0)]

\* handle_queue: every head between last_avail_idx and the index read once
HandleQueue(q, g) ==
  LET avail == ReadAvailIdx(q, g)
      n == (avail + IdxMod - q.last) % IdxMod
      head(k) == ReadAvailRing(q, g, (q.last + k) % IdxMod)
      result(k) == ProcessRequest(WalkChain(q, Table, head(k)), head(k))
      step(m, k) == WriteUsed(q, m, (g.usedIdx + k) % IdxMod, [id |-> head(k), len |-> result(k).written])
  IN IF q.used = BadAddr THEN [q |-> q, g |-> g, n |-> 0, done |-> <<>>]
     ELSE [q |-> [q EXCEPT !.last = avail], n |-> n,
           g |-> WriteUsedIdx(q, FoldLeft(step, g, [k \in 1 .. n |-> k - 1]), (g.usedIdx + n) % IdxMod),
           done |-> [k \in 1 .. n |-> [id |-> head(k - 1), len |-> result(k - 1).written]]]

-----------------------------------------------------------------------------
Register(t) == dev' = t /\ UNCHANGED env
\* the driver fills an available slot, then publishes the index
MakeAvailable(head) ==
  /\ Len(env.owed) < BlkNum
  /\ env' = [env EXCEPT !.g.avail = PutSlot(@, env.g.availIdx % BlkNum, head),
                        !.g.availIdx = (@ + 1) % IdxMod, !.owed = Append(@, head), !.kicked = FALSE]
  /\ UNCHANGED dev
QueueNotifyQuiet(s) ==
  IF ~CanNotify(dev, s) THEN UNCHANGED vars
  ELSE LET r == HandleQueue(dev.queues[s], env.g)
       IN /\ dev' = [dev EXCEPT !.queues[s] = r.q]
          /\ env' = [env EXCEPT !.g = r.g, !.owed = SubSeq(@, r.n + 1, Len(@)), !.done = r.done,
                               !.kicked = dev.queues[s].avail # BadAddr /\ dev.queues[s].used # BadAddr]
QueueNotify(s) ==
  IF ~CanNotify(dev, s) THEN UNCHANGED vars
  ELSE LET r == HandleQueue(dev.queues[s], env.g)
       IN /\ dev' = Raise([dev EXCEPT !.queues[s] = r.q], r.n)
          /\ env' = [env EXCEPT !.g = r.g, !.owed = SubSeq(@, r.n + 1, Len(@)), !.done = r.done,
                               !.kicked = dev.queues[s].avail # BadAddr /\ dev.queues[s].used # BadAddr]
\* the driver restarts its rings when it resets the device or the queue
Restart == env' = [env EXCEPT !.g = NewMemory, !.owed = <<>>, !.kicked = FALSE, !.done = <<>>]
WriteStatusZero == dev' = ResetTransport(dev) /\ Restart
ReleaseQueue == dev' = WriteLegacyPfn(dev, TRUE) /\ dev.sel = 0 /\ Restart

\* the queue size is fixed while the queue is live
BlkNext ==
  \/ \E s \in 0 .. 1 : Register(WriteQueueSel(dev, s)) \/ QueueNotify(s)
  \/ ~Current(dev).ready /\ Register(WriteQueueNum(dev, BlkNum + 1, BlkNum))
  \/ \E b \in BOOLEAN : Register(WriteQueueReady(dev, b))
  \/ Register(WriteQueueDesc(dev)) \/ Register(WriteQueueAvail(dev)) \/ Register(WriteQueueUsed(dev))
  \/ Register(WritePageSize(dev)) \/ Register(WriteLegacyPfn(dev, FALSE)) \/ ReleaseQueue
  \/ Register(WriteStatus(dev, {"driver_ok"})) \/ WriteStatusZero
  \/ Register(InterruptAck(dev))
  \/ \E h \in Heads : MakeAvailable(h)

-----------------------------------------------------------------------------
\* A notification the device accepts completes every request made available so
\* far, exactly once and in order, across index wrap-around: what is owed is
\* what lies between last_avail_idx and the driver's index, and the used index
\* has moved by as many (block.rs:266-309, queue.rs:128-235).
RequestsAccounted ==
  LET q == dev.queues[0]
  IN /\ env.g.availIdx = (q.last + Len(env.owed)) % IdxMod
     /\ env.g.usedIdx = q.last
     /\ env.kicked => env.owed = <<>>
     /\ \A k \in 1 .. Len(env.owed) : Slot(env.g.avail, (q.last + k - 1) % BlkNum) = env.owed[k]
     /\ \A k \in 1 .. Len(env.done) :
          Slot(env.g.used, ((q.last + IdxMod - Len(env.done) + k - 1) % IdxMod) % BlkNum) = env.done[k]

\* Used entries are never published without the interrupt (mmio.rs:147-150).
CompletionSignalled == env'.g.usedIdx # env.g.usedIdx /\ env'.g # NewMemory => dev'.irq

\* A read or write reports success exactly when every segment of its direction
\* lies in RAM and, laid end to end from its sector, inside the disk; what it
\* transferred never passes the end of the disk (block.rs:142-222).  A request
\* whose end is past 2^64 is not covered: the multiplication of the sector is
\* checked for overflow and the addition of the length is not (block.rs:168).
TransfersInRange ==
  \A h \in DOMAIN Hdr :
    LET q == [NewQueue EXCEPT !.num = 4, !.desc = "ram"]
        chain == WalkChain(q, Table, h)
        r == ProcessRequest(chain, h)
        mine == SelectSeq(Segments(chain), LAMBDA d : d.write = (Hdr[h].type = "in"))
        total == FoldLeft(LAMBDA s, d : s + d.len, 0, mine)
    IN Hdr[h].sector >= OffMod \/ Hdr[h].sector + total < OffMod =>
         /\ r.done > 0 => Hdr[h].sector + r.done <= Capacity
         /\ Hdr[h].type # "flush" /\ r.status # "none" =>
              (r.status = "ok" <=> /\ Hdr[h].sector < OffMod
                                   /\ \A k \in 1 .. Len(mine) : mine[k].ram
                                   /\ mine # <<>> => Hdr[h].sector + total <= Capacity)

-----------------------------------------------------------------------------
(* The virtio network device and its receive worker (hw/virtio/src/net.rs).  *)
(* A device reset runs under the transport's lock and joins the worker,      *)
(* which itself needs that lock to deliver a packet; the owner may drop the  *)
(* device while the worker holds a reference to it.                          *)
CONSTANTS NetNum, MaxPackets

NoPacket == 0

\* wpc: poll, lock (a packet in hand), held (lock taken), exit, selfjoin
\* vpc: idle, join (in a reset, holding the lock), drop (joining without it), gone
NetInit ==
  /\ dev = [t |-> [NewTransport(2) EXCEPT !.sel = 0], acked |-> FALSE, stop |-> FALSE,
            wpc |-> "poll", pkt |-> NoPacket, vpc |-> "idle"]
  /\ env = [g |-> NewMemory,                 \* the receive queue's memory
            backlog |-> <<>>, next |-> 1,    \* packets at the backend
            old |-> {},                      \* packets read before the last reset
            late |-> FALSE]                  \* features written outside negotiation

Locked == dev.vpc = "join" \/ dev.wpc = "held"
Mmio == dev.vpc = "idle" /\ dev.wpc # "held"
HdrSize(mrg) == IF mrg THEN 12 ELSE 10

-----------------------------------------------------------------------------
(* The guest's registers *)
Setup ==
  /\ Mmio
  /\ dev' = [dev EXCEPT !.t = WriteQueueReady(WriteQueueUsed(WriteQueueAvail(WriteQueueDesc(
                                WriteQueueNum(dev.t, NetNum, NetNum)))), TRUE)]
  /\ UNCHANGED env
WriteDriverFeatures(mrg) ==
  /\ Mmio
  /\ dev' = [dev EXCEPT !.t.feat = mrg]
  /\ env' = [env EXCEPT !.late = @ \/ (mrg # dev.t.feat /\ dev.t.status # {})]
\* FEATURES_OK going up hands the features to the device
WriteStatusBits(s) ==
  /\ Mmio
  /\ dev' = [dev EXCEPT !.t = WriteStatus(dev.t, s),
                        !.acked = IF "features_ok" \in s /\ "features_ok" \notin dev.t.status THEN dev.t.feat ELSE @]
  /\ UNCHANGED env
PostBuffer ==
  /\ (env.g.availIdx + IdxMod - dev.t.queues[0].last) % IdxMod < NetNum
  /\ env' = [env EXCEPT !.g.availIdx = (@ + 1) % IdxMod]
  /\ UNCHANGED dev
Ack == Mmio /\ dev' = [dev EXCEPT !.t = InterruptAck(dev.t)] /\ UNCHANGED env

\* STATUS = 0: the transport is reset, then the worker is stopped and joined
ResetBegin ==
  /\ Mmio
  /\ dev' = [dev EXCEPT !.t = ResetTransport(dev.t), !.stop = TRUE, !.vpc = "join"]
  /\ env' = [env EXCEPT !.g = NewMemory, !.late = FALSE,
                        !.old = IF dev.pkt = NoPacket THEN {} ELSE {dev.pkt}]
\* join returns only when the worker has left its loop; a new worker is started
ResetEnd ==
  /\ dev.vpc = "join" /\ dev.wpc = "exit"
  /\ dev' = [dev EXCEPT !.acked = FALSE, !.stop = FALSE, !.vpc = "idle", !.wpc = "poll"]
  /\ UNCHANGED env

\* the owner drops its reference; the last holder runs the device's Drop
DropOwner ==
  /\ dev.vpc = "idle"
  /\ dev' = IF dev.wpc \in {"lock", "held"} THEN [dev EXCEPT !.vpc = "gone"]
            ELSE [dev EXCEPT !.vpc = "drop", !.stop = TRUE]
  /\ UNCHANGED env
DropEnd == dev.vpc = "drop" /\ dev.wpc = "exit" /\ dev' = [dev EXCEPT !.vpc = "gone"] /\ UNCHANGED env

-----------------------------------------------------------------------------
(* The worker *)
Arrive ==
  /\ env.next <= MaxPackets
  /\ env' = [env EXCEPT !.backlog = Append(@, env.next), !.next = @ + 1]
  /\ UNCHANGED dev
\* the loop test, poll, the read without the lock, and the upgrade of the weak reference
Poll ==
  /\ dev.wpc = "poll"
  /\ IF dev.stop THEN dev' = [dev EXCEPT !.wpc = "exit"] /\ UNCHANGED env
     ELSE /\ env.backlog # <<>>
          /\ dev' = IF dev.vpc \in {"drop", "gone"} THEN [dev EXCEPT !.wpc = "exit"]
                    ELSE [dev EXCEPT !.wpc = "lock", !.pkt = Head(env.backlog)]
          /\ env' = [env EXCEPT !.backlog = Tail(@)]
\* leaving the iteration drops the reference: the last one runs Drop here
EndIteration(d) ==
  IF d.vpc = "gone" THEN [d EXCEPT !.wpc = "selfjoin", !.pkt = NoPacket]
  ELSE [d EXCEPT !.wpc = "poll", !.pkt = NoPacket]
TryLockBlocking ==
  /\ dev.wpc = "lock" /\ ~Locked
  /\ dev' = [dev EXCEPT !.wpc = "held"] /\ UNCHANGED env
TryLock ==
  /\ dev.wpc = "lock"
  /\ IF ~Locked THEN dev' = [dev EXCEPT !.wpc = "held"]
     ELSE dev.stop /\ dev' = EndIteration(dev)
  /\ UNCHANGED env

\* fill_rx_queue_raw and inject_rx, under the lock
FillRxQueue(q, g) ==
  IF g.availIdx = q.last \/ q.used = BadAddr THEN [q |-> q, g |-> g, n |-> 0]
  ELSE [q |-> [q EXCEPT !.last = (@ + 1) % IdxMod], n |-> 1,
        g |-> WriteUsedIdx(q, WriteUsed(q, g, g.usedIdx, dev.pkt), (g.usedIdx + 1) % IdxMod)]
Inject ==
  /\ dev.wpc = "held"
  /\ LET q == dev.t.queues[0]
         r == FillRxQueue(q, env.g)
     IN IF "driver_ok" \notin dev.t.status \/ ~q.ready \/ q.num = 0
        THEN dev' = EndIteration(dev) /\ UNCHANGED env
        ELSE /\ dev' = EndIteration([dev EXCEPT !.t = Raise([@ EXCEPT !.queues[0] = r.q], r.n)])
             /\ env' = [env EXCEPT !.g = r.g]

NetNext ==
  \/ Setup \/ PostBuffer \/ Ack \/ ResetBegin \/ ResetEnd \/ DropOwner \/ DropEnd \/ Arrive
  \/ \E mrg \in BOOLEAN : WriteDriverFeatures(mrg)
  \/ \E s \in {{"features_ok"}, {"features_ok", "driver_ok"}} : WriteStatusBits(s)
  \/ Poll \/ TryLock \/ Inject

Worker == Poll \/ TryLock \/ Inject

-----------------------------------------------------------------------------
\* A reset stops the worker for good: no packet read before a reset is delivered
\* into the rings the driver set up after it (net.rs:320-330, 486-491, 535-548).
NothingFromBeforeReset ==
  \A i \in DOMAIN env.g.used : env.g.used[i] \notin env.old

\* The transmit and the receive path agree on the header size whenever features
\* are written before FEATURES_OK: one path uses the acknowledged copy, the
\* other the transport's (net.rs:276-282, 553-558).
HeadersAgree ==
  ~env.late /\ "features_ok" \in dev.t.status => HdrSize(dev.acked) = HdrSize(dev.t.feat)

Joining == dev.vpc = "join"
Returned == dev.vpc = "idle"

\* A device reset returns, although it waits for the worker while holding the
\* lock the worker wants (net.rs:486-491, 535-548).
ResetReturns == Joining ~> Returned
=============================================================================
