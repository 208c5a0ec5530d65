----------------------------- MODULE PlicProofs -----------------------------
(* Proofs about the PLIC, for any sets of sources, contexts and harts and    *)
(* any values written to its registers.                                      *)
EXTENDS Plic, TLAPS

Places == {"idle", "update", "pending", "claimed", "contexts", "lower"}

\* Where a vCPU can be in the middle of a claim or a completion.
Claiming == {<<"take", s, c>> : s \in Src, c \in Ctx} \cup {<<"mark", s, c>> : s \in Src, c \in Ctx}
Clearing == {<<"clear", s, 0>> : s \in Src}
Where == {At(p) : p \in Places} \cup Claiming \cup Clearing

Types ==
  /\ dev \in [priority : [Src -> Prios \cup {0}], pending : SUBSET Src, claimed : SUBSET Src,
              enable : [Ctx -> Enables \cup {{}}], threshold : [Ctx -> Thrs \cup {0}],
              claim : [Ctx -> Src \cup {0}], line : [Ctx -> BOOLEAN]]
  /\ env \in [pc : [Thread -> Where],
              held : [Ctx -> SUBSET Src], owed : SUBSET Src]

\* The hart has scanned for source s and not yet marked it; it is inside
\* claim_irq(), holding the lock.
Taking(h, s) == env.pc[Vcpu(h)] \in Claiming /\ env.pc[Vcpu(h)][2] = s
InClaim(h) == env.pc[Vcpu(h)][1] \in {"take", "mark"}

\* What a context holds is marked claimed and held by it alone.  A source some
\* hart has found and not marked yet is unmarked, and only one hart is inside
\* claim_irq().  A reset runs with the harts stopped.
ClaimInv ==
  /\ \A c \in Ctx : env.held[c] \subseteq dev.claimed
  /\ \A c, d \in Ctx : (env.held[c] \cap env.held[d] # {}) => c = d
  /\ \A h \in Hart, s \in Src : Taking(h, s) => s \notin dev.claimed
  /\ \A g, h \in Hart : InClaim(g) /\ InClaim(h) => g = h
  /\ Resetting => \A h \in Hart : env.pc[Vcpu(h)] = Idle

Quiet == \A t \in Thread : env.pc[t] = Idle

\* The lines are right when no update is outstanding, and nothing is enabled
\* when a reset is about to lower them.
LineInv ==
  /\ env.pc[Machine] = At("lower") => \A c \in Ctx : dev.enable[c] = {}
  /\ Quiet => \A c \in Ctx : dev.line[c] <=> Candidates(c) # {}

LEMMA ThreadsDiffer ==
  /\ Machine \in Thread
  /\ \A h \in Hart : Vcpu(h) \in Thread /\ Vcpu(h) # Machine
  /\ \A s \in Src : Device(s) \in Thread /\ Device(s) # Machine
  /\ \A h \in Hart, s \in Src : Device(s) # Vcpu(h)
  /\ \A g, h \in Hart : Vcpu(g) = Vcpu(h) => g = h
BY DEF Thread, Machine, Vcpu, Device

LEMMA PlacesDiffer ==
  /\ Idle # At("update") /\ Idle # At("lower") /\ Idle # At("pending") /\ Idle # At("claimed") /\ Idle # At("contexts")
  /\ At("update") # At("lower") /\ At("pending") # At("lower") /\ At("claimed") # At("lower") /\ At("contexts") # At("lower")
  /\ \A p \in Places : At(p)[1] = p
  /\ \A p \in Places : p \notin {"take", "mark", "clear"}
BY DEF At, Idle, Places

\* A vCPU's place tells which source and context it is about.
LEMMA Parts ==
  /\ \A w \in Claiming : w[1] \in {"take", "mark"} /\ w[2] \in Src /\ w[3] \in Ctx
  /\ \A w \in Clearing : w[1] = "clear" /\ w[2] \in Src
  /\ \A s \in Src, c \in Ctx : <<"take", s, c>> \in Claiming /\ <<"mark", s, c>> \in Claiming
  /\ \A s \in Src : <<"clear", s, 0>> \in Clearing
  /\ \A s \in Src, c \in Ctx : <<"mark", s, c>>[1] = "mark" /\ <<"mark", s, c>>[2] = s /\ <<"mark", s, c>>[3] = c
  /\ \A s \in Src, c \in Ctx : <<"take", s, c>>[1] = "take" /\ <<"take", s, c>>[2] = s /\ <<"take", s, c>>[3] = c
BY DEF Claiming, Clearing

LEMMA InitTypes == Init => Types
<1> SUFFICES ASSUME Init PROVE Types
  OBVIOUS
<1>1. Idle \in Where
  BY DEF Idle, Places, Where
<1> QED
  BY <1>1 DEF Init, Types
LEMMA PlacesKnown ==
  /\ \A p \in Places : At(p) \in Where
  /\ Claiming \subseteq Where /\ Clearing \subseteq Where
  /\ Idle = At("idle") /\ "idle" \in Places /\ "update" \in Places /\ "pending" \in Places
  /\ "claimed" \in Places /\ "contexts" \in Places /\ "lower" \in Places
BY DEF Idle, Places, Where

\* The first part of a place tells a claim, a completion and the rest apart.
LEMMA Apart ==
  /\ \A w \in Where : w[1] \in {"take", "mark"} <=> w \in Claiming
  /\ \A w \in Where : w[1] = "clear" <=> w \in Clearing
  /\ \A w \in Claiming \cup Clearing : w # Idle
  /\ \A w \in Claiming \cup Clearing, p \in Places : w # At(p)
<1>1. \A p \in Places : At(p)[1] \notin {"take", "mark", "clear"}
  BY PlacesDiffer
<1>2. \A w \in Claiming : w[1] # "clear"
  BY Parts
<1>3. \A w \in Clearing : w[1] \notin {"take", "mark"}
  BY Parts
<1> QED
  BY <1>1, <1>2, <1>3, Parts, PlacesKnown DEF Where

\* What the steps of a claim and of a completion do, with their source and
\* context named.
LEMMA ClaimMoves ==
  ASSUME Types, NEW h \in Hart, NEW c \in Ctx, Claim(h, c)
  PROVE  \/ dev' = dev /\ env' = [env EXCEPT !.pc[Vcpu(h)] = At("update")]
         \/ \E s \in Best(c) : dev' = dev /\ env' = [env EXCEPT !.pc[Vcpu(h)] = <<"take", s, c>>]
<1>1. CASE Candidates(c) = {}
  BY <1>1 DEF Claim
<1>2. CASE Candidates(c) # {}
  BY <1>2 DEF Claim
<1> QED
  BY <1>1, <1>2
LEMMA TakeMoves ==
  ASSUME Types, NEW h \in Hart, TakePending(h)
  PROVE  \E s \in Src, c \in Ctx :
           /\ env.pc[Vcpu(h)] \in Claiming /\ env.pc[Vcpu(h)][2] = s
           /\ dev' = [dev EXCEPT !.pending = @ \ {s}]
           /\ env' = [env EXCEPT !.pc[Vcpu(h)] = <<"mark", s, c>>, !.owed = @ \ {s}]
<1>1. env.pc[Vcpu(h)] \in Where
  BY ThreadsDiffer DEF Types
<1>2. env.pc[Vcpu(h)] \in Claiming
  BY <1>1, Apart DEF TakePending
<1>3. env.pc[Vcpu(h)][2] \in Src /\ env.pc[Vcpu(h)][3] \in Ctx
  BY <1>2, Parts
<1> QED
  BY <1>2, <1>3 DEF TakePending
LEMMA MarkMoves ==
  ASSUME Types, NEW h \in Hart, MarkClaimed(h)
  PROVE  \E s \in Src, c \in Ctx :
           /\ env.pc[Vcpu(h)] \in Claiming /\ env.pc[Vcpu(h)][2] = s
           /\ dev' = [dev EXCEPT !.claimed = @ \cup {s}, !.claim[c] = s]
           /\ env' = [env EXCEPT !.pc[Vcpu(h)] = At("update"), !.held[c] = @ \cup {s}]
<1>1. env.pc[Vcpu(h)] \in Where
  BY ThreadsDiffer DEF Types
<1>2. env.pc[Vcpu(h)] \in Claiming
  BY <1>1, Apart DEF MarkClaimed
<1>3. env.pc[Vcpu(h)][2] \in Src /\ env.pc[Vcpu(h)][3] \in Ctx
  BY <1>2, Parts
<1> QED
  BY <1>2, <1>3 DEF MarkClaimed
LEMMA ClearMoves ==
  ASSUME Types, NEW h \in Hart, ClearClaimed(h)
  PROVE  \E s \in Src :
           /\ env.pc[Vcpu(h)] \in Clearing
           /\ dev' = [dev EXCEPT !.claimed = @ \ {s}]
           /\ env' = [env EXCEPT !.pc[Vcpu(h)] = At("update"), !.held = [c \in Ctx |-> @[c] \ {s}]]
<1>1. env.pc[Vcpu(h)] \in Where
  BY ThreadsDiffer DEF Types
<1>2. env.pc[Vcpu(h)] \in Clearing
  BY <1>1, Apart DEF ClearClaimed
<1>3. env.pc[Vcpu(h)][2] \in Src
  BY <1>2, Parts
<1> QED
  BY <1>2, <1>3 DEF ClearClaimed
LEMMA CompleteMoves ==
  ASSUME NEW h \in Hart, NEW c \in Ctx, NEW s \in Src \cup {0}, Complete(h, c, s)
  PROVE  \E w \in Clearing \cup {At("update")} : env' = [env EXCEPT !.pc[Vcpu(h)] = w]
<1>1. CASE s = 0
  BY <1>1 DEF Complete
<1>2. CASE s # 0
  <2>1. <<"clear", s, 0>> \in Clearing
    BY <1>2, Parts
  <2>2. env' = [env EXCEPT !.pc[Vcpu(h)] = <<"clear", s, 0>>]
    BY <1>2 DEF Complete
  <2> QED
    BY <2>1, <2>2
<1> QED
  BY <1>1, <1>2

LEMMA NextTypes == Types /\ [Next]_vars => Types'
<1> SUFFICES ASSUME Types, [Next]_vars PROVE Types'
  OBVIOUS
<1> USE ThreadsDiffer, PlacesKnown
<1>1. ASSUME NEW s \in Src, NEW level \in BOOLEAN, SetIrq(s, level) PROVE Types'
  <2>1. CASE level
    <3>1. /\ dev' = [dev EXCEPT !.pending = @ \cup {s}]
          /\ env' = [env EXCEPT !.pc[Device(s)] = At("update"), !.owed = @ \cup {s}]
      BY <1>1, <2>1, Zenon DEF SetIrq
    <3> QED
      BY <1>1, <3>1 DEF Types
  <2>2. CASE ~level
    BY <1>1, <2>2 DEF Types, SetIrq, vars
  <2> QED
    BY <2>1, <2>2
<1>2. ASSUME NEW t \in Thread, UpdateOutputs(t) PROVE Types'
  BY <1>2 DEF Types, UpdateOutputs
<1>3. ASSUME NEW h \in Hart, NEW c \in Ctx, Claim(h, c) PROVE Types'
  <2>1. \A s \in Best(c) : <<"take", s, c>> \in Where
    BY Parts DEF Best, Candidates, Types
  <2>2. PICK w \in Where : dev' = dev /\ env' = [env EXCEPT !.pc[Vcpu(h)] = w]
    BY <1>3, <2>1, ClaimMoves
  <2> QED
    BY <2>2 DEF Types
<1>31. ASSUME NEW h \in Hart, TakePending(h) PROVE Types'
  <2>1. PICK s \in Src, c \in Ctx :
          /\ dev' = [dev EXCEPT !.pending = @ \ {s}]
          /\ env' = [env EXCEPT !.pc[Vcpu(h)] = <<"mark", s, c>>, !.owed = @ \ {s}]
    BY <1>31, TakeMoves
  <2>2. <<"mark", s, c>> \in Where
    BY Parts
  <2> QED
    BY <2>1, <2>2 DEF Types
<1>32. ASSUME NEW h \in Hart, MarkClaimed(h) PROVE Types'
  <2>1. PICK s \in Src, c \in Ctx :
          /\ dev' = [dev EXCEPT !.claimed = @ \cup {s}, !.claim[c] = s]
          /\ env' = [env EXCEPT !.pc[Vcpu(h)] = At("update"), !.held[c] = @ \cup {s}]
    BY <1>32, MarkMoves
  <2> QED
    BY <2>1 DEF Types
<1>4. ASSUME NEW h \in Hart, NEW c \in Ctx, NEW s \in Src \cup {0}, Complete(h, c, s) PROVE Types'
  <2>1. PICK w \in Where : env' = [env EXCEPT !.pc[Vcpu(h)] = w]
    BY <1>4, CompleteMoves
  <2>2. dev' = [dev EXCEPT !.claim[c] = IF @ = s THEN 0 ELSE @]
    BY <1>4 DEF Complete
  <2> QED
    BY <2>1, <2>2 DEF Types
<1>5. ASSUME NEW h \in Hart, ClearClaimed(h) PROVE Types'
  <2>1. PICK s \in Src :
          /\ dev' = [dev EXCEPT !.claimed = @ \ {s}]
          /\ env' = [env EXCEPT !.pc[Vcpu(h)] = At("update"), !.held = [c \in Ctx |-> @[c] \ {s}]]
    BY <1>5, ClearMoves
  <2> QED
    BY <2>1 DEF Types
<1>6. ASSUME NEW h \in Hart, NEW s \in Src, NEW v \in Prios, WritePriority(h, s, v) PROVE Types'
  BY <1>6 DEF Types, WritePriority, Ready
<1>7. ASSUME NEW h \in Hart, NEW c \in Ctx, NEW v \in Enables, WriteEnable(h, c, v) PROVE Types'
  BY <1>7 DEF Types, WriteEnable, Ready
<1>8. ASSUME NEW h \in Hart, NEW c \in Ctx, NEW v \in Thrs, WriteThreshold(h, c, v) PROVE Types'
  BY <1>8 DEF Types, WriteThreshold, Ready
<1>9. ASSUME ResetPriority PROVE Types'
  BY <1>9 DEF Types, ResetPriority
<1>10. ASSUME ResetPending PROVE Types'
  BY <1>10 DEF Types, ResetPending
<1>11. ASSUME ResetClaimed PROVE Types'
  BY <1>11 DEF Types, ResetClaimed
<1>12. ASSUME ResetContexts PROVE Types'
  BY <1>12 DEF Types, ResetContexts
<1>13. ASSUME LowerOutputs PROVE Types'
  BY <1>13 DEF Types, LowerOutputs
<1>14. CASE UNCHANGED vars
  BY <1>14 DEF Types, vars
<1> QED
  BY <1>1, <1>2, <1>3, <1>31, <1>32, <1>4, <1>5, <1>6, <1>7, <1>8, <1>9, <1>10, <1>11, <1>12, <1>13, <1>14 DEF Next

\* A step that only moves a thread to a place outside a claim.
LEMMA MoveKeepsClaim ==
  ASSUME Types, ClaimInv, NEW t \in Thread, NEW w \in Where, w \notin Claiming,
         env'.pc = [env.pc EXCEPT ![t] = w], env'.held = env.held, dev'.claimed = dev.claimed,
         Resetting' => \A h \in Hart : env'.pc[Vcpu(h)] = Idle
  PROVE  ClaimInv'
<1>1. env.pc \in [Thread -> Where]
  BY DEF Types
<1>2. \A h \in Hart : env'.pc[Vcpu(h)] = w \/ env'.pc[Vcpu(h)] = env.pc[Vcpu(h)]
  BY <1>1, ThreadsDiffer
<1>3. \A h \in Hart, s \in Src : Taking(h, s)' => Taking(h, s)
  BY <1>2 DEF Taking
<1>4. \A h \in Hart : InClaim(h)' => InClaim(h)
  BY <1>2, Apart DEF InClaim
<1> QED
  BY <1>3, <1>4 DEF ClaimInv

\* A hart outside a reset goes on to its update: nobody is resetting after it.
LEMMA NoResetStarts ==
  ASSUME Types, NEW t \in Thread, t # Machine, NEW p, env'.pc = [env.pc EXCEPT ![t] = p]
  PROVE  Resetting' <=> Resetting
BY ThreadsDiffer DEF Types, Resetting

LEMMA NextClaim == Types /\ ClaimInv /\ [Next]_vars => ClaimInv'
<1> SUFFICES ASSUME Types, ClaimInv, [Next]_vars PROVE ClaimInv'
  OBVIOUS
<1>types. /\ env.pc \in [Thread -> Where]
          /\ env.held \in [Ctx -> SUBSET Src] /\ dev.claimed \in SUBSET Src
  BY DEF Types
<1>known. \A p \in Places : At(p) \in Where /\ At(p) \notin Claiming
  BY PlacesKnown, Apart
<1>places. /\ Idle = At("idle") /\ "idle" \in Places /\ "update" \in Places /\ "pending" \in Places
           /\ "claimed" \in Places /\ "contexts" \in Places /\ "lower" \in Places
  BY PlacesKnown
<1>1. ASSUME NEW s \in Src, NEW level \in BOOLEAN, SetIrq(s, level) PROVE ClaimInv'
  <2>1. CASE level
    <3>1. /\ dev' = [dev EXCEPT !.pending = @ \cup {s}]
          /\ env' = [env EXCEPT !.pc[Device(s)] = At("update"), !.owed = @ \cup {s}]
      BY <1>1, <2>1, Zenon DEF SetIrq
    <3>2. /\ env'.pc = [env.pc EXCEPT ![Device(s)] = At("update")]
          /\ env'.held = env.held /\ dev'.claimed = dev.claimed
      BY <3>1 DEF Types
    <3>3. Resetting' => \A h \in Hart : env'.pc[Vcpu(h)] = Idle
      BY <3>2, <1>types, NoResetStarts, ThreadsDiffer DEF ClaimInv
    <3> QED
      BY <3>2, <3>3, MoveKeepsClaim, ThreadsDiffer, <1>known, <1>places
  <2>2. CASE ~level
    BY <1>1, <2>2 DEF SetIrq, vars, ClaimInv, Taking, InClaim, Resetting
  <2> QED
    BY <2>1, <2>2
<1>2. ASSUME NEW t \in Thread, UpdateOutputs(t) PROVE ClaimInv'
  <2>1. /\ env.pc[t] = At("update") /\ env'.pc = [env.pc EXCEPT ![t] = Idle]
        /\ env'.held = env.held /\ dev'.claimed = dev.claimed
    BY <1>2 DEF UpdateOutputs, Types
  <2>2. Resetting' => \A h \in Hart : env'.pc[Vcpu(h)] = Idle
    BY <2>1, <1>types, ThreadsDiffer DEF ClaimInv, Resetting
  <2> QED
    BY <2>1, <2>2, MoveKeepsClaim, <1>known, <1>places
<1>3. ASSUME NEW h \in Hart, NEW c \in Ctx, Claim(h, c) PROVE ClaimInv'
  <2>1. ~Resetting /\ \A g \in Hart : ~InClaim(g)
    BY <1>3 DEF Claim, Ready, Locked, InClaim
  <2>2. CASE dev' = dev /\ env' = [env EXCEPT !.pc[Vcpu(h)] = At("update")]
    <3>1. /\ env'.pc = [env.pc EXCEPT ![Vcpu(h)] = At("update")]
          /\ env'.held = env.held /\ dev'.claimed = dev.claimed
      BY <2>2 DEF Types
    <3>2. ~Resetting'
      BY <2>1, <3>1, NoResetStarts, ThreadsDiffer
    <3> QED
      BY <3>1, <3>2, MoveKeepsClaim, ThreadsDiffer, <1>known, <1>places
  <2>3. ASSUME NEW s \in Best(c), dev' = dev, env' = [env EXCEPT !.pc[Vcpu(h)] = <<"take", s, c>>]
        PROVE  ClaimInv'
    <3>1. s \in Src /\ s \notin dev.claimed
      BY DEF Best, Candidates, Types
    <3>2. /\ env'.pc = [env.pc EXCEPT ![Vcpu(h)] = <<"take", s, c>>]
          /\ env'.held = env.held /\ dev'.claimed = dev.claimed
      BY <2>3 DEF Types
    <3>3. ~Resetting'
      BY <2>1, <3>2, NoResetStarts, ThreadsDiffer
    <3>4. /\ env'.pc[Vcpu(h)] = <<"take", s, c>>
          /\ \A g \in Hart : g # h => env'.pc[Vcpu(g)] = env.pc[Vcpu(g)]
      BY <3>2, <1>types, ThreadsDiffer
    <3>5. \A g \in Hart : InClaim(g)' => g = h
      BY <3>4, <2>1 DEF InClaim
    <3>6. \A g \in Hart, r \in Src : Taking(g, r)' => Taking(g, r) \/ r = s
      BY <3>4, <3>1, Parts DEF Taking
    <3> QED
      BY <3>1, <3>2, <3>3, <3>5, <3>6 DEF ClaimInv
  <2> QED
    BY <1>3, <2>2, <2>3, ClaimMoves
<1>31. ASSUME NEW h \in Hart, TakePending(h) PROVE ClaimInv'
  <2>1. PICK s \in Src, c \in Ctx :
          /\ env.pc[Vcpu(h)] \in Claiming /\ env.pc[Vcpu(h)][2] = s
          /\ dev' = [dev EXCEPT !.pending = @ \ {s}]
          /\ env' = [env EXCEPT !.pc[Vcpu(h)] = <<"mark", s, c>>, !.owed = @ \ {s}]
    BY <1>31, TakeMoves
  <2>2. /\ env'.pc = [env.pc EXCEPT ![Vcpu(h)] = <<"mark", s, c>>]
        /\ env'.held = env.held /\ dev'.claimed = dev.claimed
    BY <2>1 DEF Types
  <2>3. /\ env'.pc[Vcpu(h)] = <<"mark", s, c>>
        /\ \A g \in Hart : g # h => env'.pc[Vcpu(g)] = env.pc[Vcpu(g)]
    BY <2>2, <1>types, ThreadsDiffer
  <2>4. ~Resetting
    BY <2>1, Apart DEF ClaimInv
  <2>5. ~Resetting'
    BY <2>2, <2>4, NoResetStarts, ThreadsDiffer
  <2>6. \A g \in Hart : InClaim(g)' => InClaim(g)
    BY <2>1, <2>3, Parts DEF InClaim
  <2>7. \A g \in Hart, r \in Src : Taking(g, r)' => Taking(g, r)
    BY <2>1, <2>3, Parts DEF Taking
  <2> QED
    BY <2>2, <2>5, <2>6, <2>7 DEF ClaimInv
<1>32. ASSUME NEW h \in Hart, MarkClaimed(h) PROVE ClaimInv'
  <2>1. PICK s \in Src, c \in Ctx :
          /\ env.pc[Vcpu(h)] \in Claiming /\ env.pc[Vcpu(h)][2] = s
          /\ dev' = [dev EXCEPT !.claimed = @ \cup {s}, !.claim[c] = s]
          /\ env' = [env EXCEPT !.pc[Vcpu(h)] = At("update"), !.held[c] = @ \cup {s}]
    BY <1>32, MarkMoves
  <2>2. /\ env'.pc = [env.pc EXCEPT ![Vcpu(h)] = At("update")]
        /\ env'.held = [env.held EXCEPT ![c] = @ \cup {s}] /\ dev'.claimed = dev.claimed \cup {s}
    BY <2>1 DEF Types
  <2>3. /\ env'.pc[Vcpu(h)] = At("update")
        /\ \A g \in Hart : g # h => env'.pc[Vcpu(g)] = env.pc[Vcpu(g)]
    BY <2>2, <1>types, ThreadsDiffer
  <2>4. ~Resetting
    BY <2>1, Apart DEF ClaimInv
  <2>5. ~Resetting'
    BY <2>2, <2>4, NoResetStarts, ThreadsDiffer
  <2>6. Taking(h, s) /\ InClaim(h)
    BY <2>1, Parts DEF Taking, InClaim
  <2>7. \A d \in Ctx : s \notin env.held[d]
    BY <2>6 DEF ClaimInv
  <2>8. \A g \in Hart : ~InClaim(g)'
    <3>1. \A g \in Hart : g # h => ~InClaim(g)
      BY <2>6 DEF ClaimInv
    <3>2. At("update")[1] \notin {"take", "mark"}
      BY DEF At
    <3> QED
      BY <3>1, <3>2, <2>3 DEF InClaim
  <2>9. \A g \in Hart, r \in Src : ~Taking(g, r)'
    BY <2>8, Parts DEF Taking, InClaim
  <2> QED
    BY <2>2, <2>5, <2>7, <2>8, <2>9, <1>types DEF ClaimInv
<1>4. ASSUME NEW h \in Hart, NEW c \in Ctx, NEW s \in Src \cup {0}, Complete(h, c, s) PROVE ClaimInv'
  <2>1. PICK w \in Clearing \cup {At("update")} : env' = [env EXCEPT !.pc[Vcpu(h)] = w]
    BY <1>4, CompleteMoves
  <2>2. /\ ~Resetting /\ env'.pc = [env.pc EXCEPT ![Vcpu(h)] = w]
        /\ env'.held = env.held /\ dev'.claimed = dev.claimed
    BY <1>4, <2>1 DEF Complete, Ready, Types
  <2>3. w \in Where /\ w \notin Claiming
    BY <1>known, PlacesKnown, Parts
  <2>4. ~Resetting'
    BY <2>2, NoResetStarts, ThreadsDiffer
  <2> QED
    BY <2>2, <2>3, <2>4, MoveKeepsClaim, ThreadsDiffer
<1>5. ASSUME NEW h \in Hart, ClearClaimed(h) PROVE ClaimInv'
  <2>1. PICK s \in Src :
          /\ env.pc[Vcpu(h)] \in Clearing
          /\ dev' = [dev EXCEPT !.claimed = @ \ {s}]
          /\ env' = [env EXCEPT !.pc[Vcpu(h)] = At("update"), !.held = [c \in Ctx |-> @[c] \ {s}]]
    BY <1>5, ClearMoves
  <2>2. /\ env'.pc = [env.pc EXCEPT ![Vcpu(h)] = At("update")]
        /\ env'.held = [c \in Ctx |-> env.held[c] \ {s}] /\ dev'.claimed = dev.claimed \ {s}
    BY <2>1 DEF Types
  <2>3. ~Resetting
    BY <2>1, Apart DEF ClaimInv
  <2>4. ~Resetting'
    BY <2>2, <2>3, NoResetStarts, ThreadsDiffer
  <2>5. \A g \in Hart : env'.pc[Vcpu(g)] = At("update") \/ env'.pc[Vcpu(g)] = env.pc[Vcpu(g)]
    BY <2>2, <1>types, ThreadsDiffer
  <2>6. \A g \in Hart, r \in Src : Taking(g, r)' => Taking(g, r)
    BY <2>5, <1>known, <1>places DEF Taking
  <2>7. \A g \in Hart : InClaim(g)' => InClaim(g)
    <3>1. At("update")[1] \notin {"take", "mark"}
      BY DEF At
    <3> QED
      BY <3>1, <2>5 DEF InClaim
  <2> QED
    BY <2>2, <2>4, <2>6, <2>7, <1>types DEF ClaimInv
<1>6. ASSUME NEW h \in Hart, NEW s \in Src, NEW v \in Prios, WritePriority(h, s, v) PROVE ClaimInv'
  <2>1. /\ ~Resetting /\ env'.pc = [env.pc EXCEPT ![Vcpu(h)] = At("update")]
        /\ env'.held = env.held /\ dev'.claimed = dev.claimed
    BY <1>6 DEF WritePriority, Ready, Types
  <2>2. ~Resetting'
    BY <2>1, NoResetStarts, ThreadsDiffer
  <2> QED
    BY <2>1, <2>2, MoveKeepsClaim, ThreadsDiffer, <1>known, <1>places
<1>7. ASSUME NEW h \in Hart, NEW c \in Ctx, NEW v \in Enables, WriteEnable(h, c, v) PROVE ClaimInv'
  <2>1. /\ ~Resetting /\ env'.pc = [env.pc EXCEPT ![Vcpu(h)] = At("update")]
        /\ env'.held = env.held /\ dev'.claimed = dev.claimed
    BY <1>7 DEF WriteEnable, Ready, Types
  <2>2. ~Resetting'
    BY <2>1, NoResetStarts, ThreadsDiffer
  <2> QED
    BY <2>1, <2>2, MoveKeepsClaim, ThreadsDiffer, <1>known, <1>places
<1>8. ASSUME NEW h \in Hart, NEW c \in Ctx, NEW v \in Thrs, WriteThreshold(h, c, v) PROVE ClaimInv'
  <2>1. /\ ~Resetting /\ env'.pc = [env.pc EXCEPT ![Vcpu(h)] = At("update")]
        /\ env'.held = env.held /\ dev'.claimed = dev.claimed
    BY <1>8 DEF WriteThreshold, Ready, Types
  <2>2. ~Resetting'
    BY <2>1, NoResetStarts, ThreadsDiffer
  <2> QED
    BY <2>1, <2>2, MoveKeepsClaim, ThreadsDiffer, <1>known, <1>places
<1>9. CASE ResetPriority
  <2>1. /\ env'.pc = [env.pc EXCEPT ![Machine] = At("pending")]
        /\ env'.held = env.held /\ dev'.claimed = dev.claimed
        /\ \A h \in Hart : env.pc[Vcpu(h)] = Idle
    BY <1>9, PlacesDiffer DEF ResetPriority, Types, ClaimInv, Resetting
  <2>2. \A h \in Hart : env'.pc[Vcpu(h)] = Idle
    BY <2>1, <1>types, ThreadsDiffer
  <2> QED
    BY <2>1, <2>2, MoveKeepsClaim, ThreadsDiffer, <1>known, <1>places
<1>10. CASE ResetPending
  <2>1. /\ env'.pc = [env.pc EXCEPT ![Machine] = At("claimed")]
        /\ env'.held = env.held /\ dev'.claimed = dev.claimed
        /\ \A h \in Hart : env.pc[Vcpu(h)] = Idle
    BY <1>10, PlacesDiffer DEF ResetPending, Types, ClaimInv, Resetting
  <2>2. \A h \in Hart : env'.pc[Vcpu(h)] = Idle
    BY <2>1, <1>types, ThreadsDiffer
  <2> QED
    BY <2>1, <2>2, MoveKeepsClaim, ThreadsDiffer, <1>known, <1>places
<1>11. CASE ResetClaimed
  <2>1. /\ env'.pc = [env.pc EXCEPT ![Machine] = At("contexts")]
        /\ env'.held = [c \in Ctx |-> {}] /\ dev'.claimed = {}
        /\ \A h \in Hart : env.pc[Vcpu(h)] = Idle
    BY <1>11, PlacesDiffer DEF ResetClaimed, Types, ClaimInv, Resetting
  <2>2. \A h \in Hart : env'.pc[Vcpu(h)] = Idle
    BY <2>1, <1>types, ThreadsDiffer
  <2>3. \A h \in Hart : ~InClaim(h)' /\ \A s \in Src : ~Taking(h, s)'
    BY <2>2, Apart, PlacesKnown DEF InClaim, Taking
  <2> QED
    BY <2>1, <2>2, <2>3 DEF ClaimInv
<1>12. CASE ResetContexts
  <2>1. /\ env'.pc = [env.pc EXCEPT ![Machine] = At("lower")]
        /\ env'.held = env.held /\ dev'.claimed = dev.claimed
        /\ \A h \in Hart : env.pc[Vcpu(h)] = Idle
    BY <1>12, PlacesDiffer DEF ResetContexts, Types, ClaimInv, Resetting
  <2>2. \A h \in Hart : env'.pc[Vcpu(h)] = Idle
    BY <2>1, <1>types, ThreadsDiffer
  <2> QED
    BY <2>1, <2>2, MoveKeepsClaim, ThreadsDiffer, <1>known, <1>places
<1>13. CASE LowerOutputs
  <2>1. /\ env'.pc = [env.pc EXCEPT ![Machine] = At("idle")]
        /\ env'.held = env.held /\ dev'.claimed = dev.claimed
        /\ \A h \in Hart : env.pc[Vcpu(h)] = Idle
    BY <1>13, PlacesDiffer, PlacesKnown DEF LowerOutputs, Types, ClaimInv, Resetting
  <2>2. \A h \in Hart : env'.pc[Vcpu(h)] = Idle
    BY <2>1, <1>types, ThreadsDiffer
  <2> QED
    BY <2>1, <2>2, MoveKeepsClaim, ThreadsDiffer, <1>known, <1>places
<1>14. CASE UNCHANGED vars
  BY <1>14 DEF ClaimInv, Taking, InClaim, Resetting, vars
<1> QED
  BY <1>1, <1>2, <1>3, <1>31, <1>32, <1>4, <1>5, <1>6, <1>7, <1>8, <1>9, <1>10, <1>11, <1>12, <1>13, <1>14 DEF Next

\* While a hart or a device has its update before it, nothing is promised.
LEMMA MovingIsNotQuiet ==
  ASSUME Types, NEW t \in Thread, NEW p, p # Idle, env'.pc = [env.pc EXCEPT ![t] = p]
  PROVE  ~Quiet'
BY DEF Types, Quiet

LEMMA NextLine == Types /\ LineInv /\ [Next]_vars => LineInv'
<1> SUFFICES ASSUME Types, LineInv, [Next]_vars PROVE LineInv'
  OBVIOUS
<1>types. /\ env.pc \in [Thread -> Where]
          /\ dev.enable \in [Ctx -> Enables \cup {{}}]
  BY DEF Types
<1>1. ASSUME NEW s \in Src, NEW level \in BOOLEAN, SetIrq(s, level) PROVE LineInv'
  <2>1. CASE level
    <3>1. /\ dev' = [dev EXCEPT !.pending = @ \cup {s}]
          /\ env' = [env EXCEPT !.pc[Device(s)] = At("update"), !.owed = @ \cup {s}]
      BY <1>1, <2>1, Zenon DEF SetIrq
    <3>2. env'.pc = [env.pc EXCEPT ![Device(s)] = At("update")] /\ dev'.enable = dev.enable
      BY <3>1 DEF Types
    <3>3. ~Quiet' /\ env'.pc[Machine] = env.pc[Machine]
      BY <3>2, <1>types, MovingIsNotQuiet, ThreadsDiffer, PlacesDiffer
    <3> QED
      BY <3>2, <3>3 DEF LineInv
  <2>2. CASE ~level
    BY <1>1, <2>2 DEF SetIrq, vars, LineInv, Quiet, Candidates
  <2> QED
    BY <2>1, <2>2
<1>2. ASSUME NEW t \in Thread, UpdateOutputs(t) PROVE LineInv'
  <2>1. /\ env'.pc = [env.pc EXCEPT ![t] = Idle] /\ dev'.line = [c \in Ctx |-> Candidates(c) # {}]
        /\ dev'.pending = dev.pending /\ dev'.claimed = dev.claimed /\ dev'.enable = dev.enable
        /\ dev'.priority = dev.priority /\ dev'.threshold = dev.threshold
    BY <1>2 DEF UpdateOutputs, Types
  <2>2. \A c \in Ctx : Candidates(c)' = Candidates(c)
    BY <2>1 DEF Candidates
  <2>3. env'.pc[Machine] = At("lower") => env.pc[Machine] = At("lower")
    BY <2>1, <1>types, ThreadsDiffer, PlacesDiffer
  <2>4. \A c \in Ctx : dev'.line[c] <=> Candidates(c) # {}
    BY <2>1, Zenon
  <2> QED
    BY <2>1, <2>2, <2>3, <2>4 DEF LineInv
<1>3. ASSUME NEW h \in Hart, NEW c \in Ctx, Claim(h, c) PROVE LineInv'
  <2>1. \A s \in Best(c) : <<"take", s, c>> # Idle
    BY Parts, Apart DEF Best, Candidates, Types
  <2>2. PICK w : w # Idle /\ dev' = dev /\ env' = [env EXCEPT !.pc[Vcpu(h)] = w]
    BY <1>3, <2>1, ClaimMoves, PlacesDiffer
  <2>3. env'.pc = [env.pc EXCEPT ![Vcpu(h)] = w]
    BY <2>2 DEF Types
  <2>4. ~Quiet' /\ env'.pc[Machine] = env.pc[Machine]
    BY <2>2, <2>3, <1>types, MovingIsNotQuiet, ThreadsDiffer
  <2> QED
    BY <2>2, <2>4 DEF LineInv
<1>31. ASSUME NEW h \in Hart, TakePending(h) PROVE LineInv'
  <2>1. PICK s \in Src, c \in Ctx :
          /\ dev' = [dev EXCEPT !.pending = @ \ {s}]
          /\ env' = [env EXCEPT !.pc[Vcpu(h)] = <<"mark", s, c>>, !.owed = @ \ {s}]
    BY <1>31, TakeMoves
  <2>2. /\ env'.pc = [env.pc EXCEPT ![Vcpu(h)] = <<"mark", s, c>>] /\ dev'.enable = dev.enable
        /\ <<"mark", s, c>> # Idle
    BY <2>1, Parts, Apart DEF Types
  <2>3. ~Quiet' /\ env'.pc[Machine] = env.pc[Machine]
    BY <2>2, <1>types, MovingIsNotQuiet, ThreadsDiffer
  <2> QED
    BY <2>2, <2>3 DEF LineInv
<1>32. ASSUME NEW h \in Hart, MarkClaimed(h) PROVE LineInv'
  <2>1. env'.pc = [env.pc EXCEPT ![Vcpu(h)] = At("update")] /\ dev'.enable = dev.enable
    BY <1>32, MarkMoves DEF Types
  <2>2. ~Quiet' /\ env'.pc[Machine] = env.pc[Machine]
    BY <2>1, <1>types, MovingIsNotQuiet, ThreadsDiffer, PlacesDiffer
  <2> QED
    BY <2>1, <2>2 DEF LineInv
<1>4. ASSUME NEW h \in Hart, NEW c \in Ctx, NEW s \in Src \cup {0}, Complete(h, c, s) PROVE LineInv'
  <2>1. PICK w \in Clearing \cup {At("update")} : env' = [env EXCEPT !.pc[Vcpu(h)] = w]
    BY <1>4, CompleteMoves
  <2>2. w # Idle /\ env'.pc = [env.pc EXCEPT ![Vcpu(h)] = w] /\ dev'.enable = dev.enable
    BY <1>4, <2>1, Apart, PlacesDiffer DEF Complete, Types
  <2>3. ~Quiet' /\ env'.pc[Machine] = env.pc[Machine]
    BY <2>2, <1>types, MovingIsNotQuiet, ThreadsDiffer
  <2> QED
    BY <2>2, <2>3 DEF LineInv
<1>5. ASSUME NEW h \in Hart, ClearClaimed(h) PROVE LineInv'
  <2>1. env'.pc = [env.pc EXCEPT ![Vcpu(h)] = At("update")] /\ dev'.enable = dev.enable
    BY <1>5, ClearMoves DEF Types
  <2>2. ~Quiet' /\ env'.pc[Machine] = env.pc[Machine]
    BY <2>1, <1>types, MovingIsNotQuiet, ThreadsDiffer, PlacesDiffer
  <2> QED
    BY <2>1, <2>2 DEF LineInv
<1>6. ASSUME NEW h \in Hart, NEW s \in Src, NEW v \in Prios, WritePriority(h, s, v) PROVE LineInv'
  <2>1. env'.pc = [env.pc EXCEPT ![Vcpu(h)] = At("update")] /\ dev'.enable = dev.enable
    BY <1>6 DEF WritePriority, Types
  <2>2. ~Quiet' /\ env'.pc[Machine] = env.pc[Machine]
    BY <2>1, <1>types, MovingIsNotQuiet, ThreadsDiffer, PlacesDiffer, PlacesKnown
  <2> QED
    BY <2>1, <2>2 DEF LineInv
<1>7. ASSUME NEW h \in Hart, NEW c \in Ctx, NEW v \in Enables, WriteEnable(h, c, v) PROVE LineInv'
  <2>1. env'.pc = [env.pc EXCEPT ![Vcpu(h)] = At("update")] /\ env.pc[Machine] = Idle
    BY <1>7 DEF WriteEnable, Ready, Resetting, Types
  <2>2. ~Quiet' /\ env'.pc[Machine] = Idle
    BY <2>1, <1>types, MovingIsNotQuiet, ThreadsDiffer, PlacesDiffer
  <2> QED
    BY <2>1, <2>2, PlacesDiffer DEF LineInv
<1>8. ASSUME NEW h \in Hart, NEW c \in Ctx, NEW v \in Thrs, WriteThreshold(h, c, v) PROVE LineInv'
  <2>1. env'.pc = [env.pc EXCEPT ![Vcpu(h)] = At("update")] /\ dev'.enable = dev.enable
    BY <1>8 DEF WriteThreshold, Types
  <2>2. ~Quiet' /\ env'.pc[Machine] = env.pc[Machine]
    BY <2>1, <1>types, MovingIsNotQuiet, ThreadsDiffer, PlacesDiffer, PlacesKnown
  <2> QED
    BY <2>1, <2>2 DEF LineInv
<1>9. CASE ResetPriority
  <2>1. env'.pc = [env.pc EXCEPT ![Machine] = At("pending")]
    BY <1>9 DEF ResetPriority, Types
  <2>2. ~Quiet' /\ env'.pc[Machine] = At("pending")
    BY <2>1, <1>types, MovingIsNotQuiet, ThreadsDiffer, PlacesDiffer
  <2> QED
    BY <2>2, PlacesDiffer DEF LineInv
<1>10. CASE ResetPending
  <2>1. env'.pc = [env.pc EXCEPT ![Machine] = At("claimed")]
    BY <1>10 DEF ResetPending, Types
  <2>2. ~Quiet' /\ env'.pc[Machine] = At("claimed")
    BY <2>1, <1>types, MovingIsNotQuiet, ThreadsDiffer, PlacesDiffer
  <2> QED
    BY <2>2, PlacesDiffer DEF LineInv
<1>11. CASE ResetClaimed
  <2>1. env'.pc = [env.pc EXCEPT ![Machine] = At("contexts")]
    BY <1>11 DEF ResetClaimed, Types
  <2>2. ~Quiet' /\ env'.pc[Machine] = At("contexts")
    BY <2>1, <1>types, MovingIsNotQuiet, ThreadsDiffer, PlacesDiffer
  <2> QED
    BY <2>2, PlacesDiffer DEF LineInv
<1>12. CASE ResetContexts
  <2>1. env'.pc = [env.pc EXCEPT ![Machine] = At("lower")] /\ dev'.enable = [c \in Ctx |-> {}]
    BY <1>12 DEF ResetContexts, Types
  <2>2. ~Quiet' /\ \A c \in Ctx : dev'.enable[c] = {}
    BY <2>1, MovingIsNotQuiet, ThreadsDiffer, PlacesDiffer
  <2> QED
    BY <2>2 DEF LineInv
<1>13. CASE LowerOutputs
  <2>1. /\ env'.pc = [env.pc EXCEPT ![Machine] = Idle] /\ dev'.line = [c \in Ctx |-> FALSE]
        /\ dev'.enable = dev.enable /\ env.pc[Machine] = At("lower")
    BY <1>13 DEF LowerOutputs, Types
  <2>2. \A c \in Ctx : Candidates(c)' = {} /\ ~dev'.line[c]
    BY <2>1 DEF LineInv, Candidates
  <2>3. env'.pc[Machine] # At("lower")
    BY <2>1, <1>types, ThreadsDiffer, PlacesDiffer
  <2> QED
    BY <2>2, <2>3, Zenon DEF LineInv
<1>14. CASE UNCHANGED vars
  BY <1>14 DEF LineInv, Quiet, Candidates, vars
<1> QED
  BY <1>1, <1>2, <1>3, <1>31, <1>32, <1>4, <1>5, <1>6, <1>7, <1>8, <1>9, <1>10, <1>11, <1>12, <1>13, <1>14 DEF Next

LEMMA InitInv == Init => ClaimInv /\ LineInv
<1> SUFFICES ASSUME Init PROVE ClaimInv /\ LineInv
  OBVIOUS
<1>1. /\ \A t \in Thread : env.pc[t] = Idle
      /\ \A c \in Ctx : env.held[c] = {} /\ dev.enable[c] = {} /\ ~dev.line[c]
  BY DEF Init
<1>2. \A h \in Hart : ~InClaim(h) /\ \A s \in Src : ~Taking(h, s)
  BY <1>1, ThreadsDiffer, Apart, PlacesKnown DEF InClaim, Taking
<1>3. ClaimInv
  BY <1>1, <1>2, ThreadsDiffer DEF ClaimInv, Resetting
<1>4. \A c \in Ctx : Candidates(c) = {}
  BY <1>1 DEF Candidates
<1>5. LineInv
  BY <1>1, <1>4, ThreadsDiffer, PlacesDiffer DEF LineInv
<1> QED
  BY <1>3, <1>5

-----------------------------------------------------------------------------
\* claim_irq() hands a source to one context only, until some hart completes
\* it: for any number of harts, contexts and sources, with devices raising
\* lines between the scan and the marking, and resets running in between.
THEOREM ClaimedByOne == Spec => []ClaimExclusive
<1>1. Types /\ ClaimInv => ClaimExclusive
  BY DEF ClaimInv, ClaimExclusive
<1> QED
  BY <1>1, InitTypes, InitInv, NextTypes, NextClaim, PTL DEF Spec

\* Whatever the order in which stores and update_outputs() of different threads
\* come, the lines agree with the registers when the last of them is done.
THEOREM LinesAgree == Spec => []LineSettles
<1>1. Types /\ LineInv => LineSettles
  BY DEF LineInv, LineSettles, Quiet
<1> QED
  BY <1>1, InitTypes, InitInv, NextTypes, NextLine, PTL DEF Spec

\* A raise is pending until a claim clears it or the machine is reset: set_irq()
\* needs no lock for that, because only claim_irq() clears a pending bit.
THEOREM RaiseNotForgotten == Spec => []RaiseStaysPending
<1>1. Init => RaiseStaysPending
  BY DEF Init, RaiseStaysPending
<1>2. ASSUME Types, RaiseStaysPending, [Next]_vars PROVE RaiseStaysPending'
  <2>1. ASSUME NEW s \in Src, NEW level \in BOOLEAN, SetIrq(s, level) PROVE RaiseStaysPending'
    <3>1. CASE level
      <4>1. /\ dev' = [dev EXCEPT !.pending = @ \cup {s}]
            /\ env' = [env EXCEPT !.pc[Device(s)] = At("update"), !.owed = @ \cup {s}]
        BY <2>1, <3>1, Zenon DEF SetIrq
      <4> QED
        BY <4>1, <1>2 DEF Types, RaiseStaysPending
    <3>2. CASE ~level
      BY <2>1, <3>2, <1>2 DEF SetIrq, vars, RaiseStaysPending
    <3> QED
      BY <3>1, <3>2
  <2>2. ASSUME NEW h \in Hart, NEW c \in Ctx, Claim(h, c) PROVE RaiseStaysPending'
    <3>1. dev' = dev /\ env'.owed = env.owed
      BY <2>2, <1>2, ClaimMoves DEF Types
    <3> QED
      BY <3>1, <1>2 DEF RaiseStaysPending
  <2>21. ASSUME NEW h \in Hart, TakePending(h) PROVE RaiseStaysPending'
    <3>1. PICK s \in Src : dev'.pending = dev.pending \ {s} /\ env'.owed = env.owed \ {s}
      BY <2>21, <1>2, TakeMoves DEF Types
    <3> QED
      BY <3>1, <1>2 DEF RaiseStaysPending
  <2>22. ASSUME NEW h \in Hart, MarkClaimed(h) PROVE RaiseStaysPending'
    <3>1. dev'.pending = dev.pending /\ env'.owed = env.owed
      BY <2>22, <1>2, MarkMoves DEF Types
    <3> QED
      BY <3>1, <1>2 DEF RaiseStaysPending
  <2>3. ASSUME NEW t \in Thread, UpdateOutputs(t) PROVE RaiseStaysPending'
    BY <2>3, <1>2 DEF UpdateOutputs, Types, RaiseStaysPending
  <2>4. ASSUME NEW h \in Hart, NEW c \in Ctx, NEW s \in Src \cup {0}, Complete(h, c, s) PROVE RaiseStaysPending'
    BY <2>4, <1>2 DEF Complete, Types, RaiseStaysPending
  <2>5. ASSUME NEW h \in Hart, ClearClaimed(h) PROVE RaiseStaysPending'
    BY <2>5, <1>2 DEF ClearClaimed, Types, RaiseStaysPending
  <2>6. ASSUME NEW h \in Hart, NEW s \in Src, NEW v \in Prios, WritePriority(h, s, v) PROVE RaiseStaysPending'
    BY <2>6, <1>2 DEF WritePriority, Types, RaiseStaysPending
  <2>7. ASSUME NEW h \in Hart, NEW c \in Ctx, NEW v \in Enables, WriteEnable(h, c, v) PROVE RaiseStaysPending'
    BY <2>7, <1>2 DEF WriteEnable, Types, RaiseStaysPending
  <2>8. ASSUME NEW h \in Hart, NEW c \in Ctx, NEW v \in Thrs, WriteThreshold(h, c, v) PROVE RaiseStaysPending'
    BY <2>8, <1>2 DEF WriteThreshold, Types, RaiseStaysPending
  <2>9. CASE ResetPriority
    BY <2>9, <1>2 DEF ResetPriority, Types, RaiseStaysPending
  <2>10. CASE ResetPending
    BY <2>10, <1>2 DEF ResetPending, Types, RaiseStaysPending
  <2>11. CASE ResetClaimed
    BY <2>11, <1>2 DEF ResetClaimed, Types, RaiseStaysPending
  <2>12. CASE ResetContexts
    BY <2>12, <1>2 DEF ResetContexts, Types, RaiseStaysPending
  <2>13. CASE LowerOutputs
    BY <2>13, <1>2 DEF LowerOutputs, Types, RaiseStaysPending
  <2>14. CASE UNCHANGED vars
    BY <2>14, <1>2 DEF vars, RaiseStaysPending
  <2> QED
    BY <1>2, <2>1, <2>2, <2>21, <2>22, <2>3, <2>4, <2>5, <2>6, <2>7, <2>8, <2>9, <2>10, <2>11, <2>12, <2>13, <2>14 DEF Next
<1> QED
  BY <1>1, <1>2, InitTypes, NextTypes, PTL DEF Spec
=============================================================================
