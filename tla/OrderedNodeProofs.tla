--------------------------- MODULE OrderedNodeProofs ---------------------------
(***************************************************************************)
(* The ordered lane, for every set of frames, every cap, every replay      *)
(* window, every cutover delay and every number of views and epochs.       *)
(*                                                                         *)
(* Heights.  HeightsAscend needs only that the monotonicity floor covers   *)
(* the chain.  EpochsDisjoint is not inductive: a ceiling must be armed    *)
(* above all that is already sealed, although it is computed from          *)
(* last_engine_view, which a stalled pass leaves behind.  ChangeIsObserved *)
(* is the fact that saves it: the barrier ends the pass at the changing    *)
(* block, so an unarmed change is never older than the block sealed last.  *)
(*                                                                         *)
(* Then the boundary served to state sync, the fail-stop, the custody      *)
(* counters, the replay window, the bounds of the state, and last what an  *)
(* accepted frame is owed: once, in order, never lost.                     *)
(***************************************************************************)
EXTENDS OrderedNode, TLAPS, SequenceTheorems, FiniteSetTheorems,
        WellFoundedInduction

Delivery == [view : View, batch : Batch]
SealedBlock == [epoch : Nat, height : Nat, batch : Batch, ran : BOOLEAN]

LaneTypeOK ==
    /\ outstanding \subseteq Frame
    /\ pending \in Seq(Frame)
    /\ queue \in Seq(Batch)
    /\ views \subseteq View
    /\ inbox \in Seq(Delivery)
    /\ deferred \in Seq(Delivery)
    /\ epoch \in Nat /\ viewBase \in Nat /\ ceiling \in Nat
    /\ changed \in BOOLEAN
    /\ lastEngineView \in Nat /\ finalized \in Nat /\ finalizedView \in Nat
    /\ resumeFloor \in Nat /\ appliedFloor \in Nat
    /\ pass \in [last : Nat, sealed : Nat, broke : BOOLEAN]
    /\ chain \in Seq(SealedBlock)

LEMMA FirstBlock ==
    ASSUME LaneTypeOK, deferred # <<>>
    PROVE /\ Block \in Delivery
          /\ Block = deferred[1]
          /\ Block.view \in Nat /\ Block.view >= 1
          /\ Tail(deferred) \in Seq(Delivery)
          /\ AppHeight \in Nat
<1>1. deferred \in Seq(Delivery) /\ viewBase \in Nat
  BY DEF LaneTypeOK
<1>2. Head(deferred) \in Delivery /\ Tail(deferred) \in Seq(Delivery)
  BY <1>1, HeadTailProperties
<1>3. Head(deferred) = deferred[1]
  BY <1>1
<1>4. \A d \in Delivery : d.view \in Nat /\ d.view >= 1
  BY NodeAssumption DEF Delivery, View
<1> QED
  BY <1>1, <1>2, <1>3, <1>4 DEF Block, AppHeight

LEMMA InitType == Init => LaneTypeOK
<1> SUFFICES ASSUME Init PROVE LaneTypeOK
  OBVIOUS
<1>1. Len(Recovered) \in Nat /\ DOMAIN Recovered = 1..Len(Recovered)
  BY NodeAssumption
<1>2. chain \in Seq(SealedBlock)
  <2>0. \A i \in DOMAIN Recovered : Recovered[i] \in Seq(Frame)
    BY NodeAssumption
  <2>1. \A i \in 1..Len(Recovered) : Recovered[i] \in Batch /\ i \in Nat
    BY <1>1, <2>0 DEF Batch
  <2>2. chain = [i \in 1..Len(Recovered) |->
                  [epoch |-> 0, height |-> i, batch |-> Recovered[i], ran |-> TRUE]]
    BY <1>1 DEF Init
  <2>3. chain \in [1..Len(Recovered) -> SealedBlock]
    BY <2>1, <2>2 DEF SealedBlock
  <2> QED
    BY <1>1, <2>3
<1>3. /\ outstanding \subseteq Frame /\ views \subseteq View
      /\ pending \in Seq(Frame) /\ queue \in Seq(Batch)
      /\ inbox \in Seq(Delivery) /\ deferred \in Seq(Delivery)
  BY DEF Init
<1>4. pass \in [last : Nat, sealed : Nat, broke : BOOLEAN]
  BY DEF Init, NoPass
<1>5. /\ epoch \in Nat /\ viewBase \in Nat /\ ceiling \in Nat /\ changed \in BOOLEAN
      /\ lastEngineView \in Nat /\ finalized \in Nat /\ finalizedView \in Nat
      /\ resumeFloor \in Nat /\ appliedFloor \in Nat
  BY <1>1 DEF Init
<1> QED
  BY <1>2, <1>3, <1>4, <1>5 DEF LaneTypeOK

\* Certify: what the engine hands over is a delivery.
LEMMA CertifyType ==
    ASSUME LaneTypeOK, NEW v \in View,
           NEW b \in Foreign \cup Elems(queue) \cup Elems(Recovered), Certify(v, b)
    PROVE LaneTypeOK'
<1>1. b \in Batch
  <2>1. b \in Foreign => b \in Batch
    BY NodeAssumption DEF Batch
  <2>2. b \in Elems(queue) => b \in Batch
    BY DEF LaneTypeOK, Elems
  <2>3. b \in Elems(Recovered) => b \in Batch
    BY NodeAssumption DEF Batch, Elems
  <2> QED
    BY <2>1, <2>2, <2>3
<1>2. inbox' \in Seq(Delivery)
  <2>1. [view |-> v, batch |-> b] \in Delivery
    BY <1>1 DEF Delivery
  <2>2. inbox' = inbox \/ inbox' = Append(inbox, [view |-> v, batch |-> b])
    BY DEF Certify
  <2>3. inbox \in Seq(Delivery)
    BY DEF LaneTypeOK
  <2>4. Append(inbox, [view |-> v, batch |-> b]) \in Seq(Delivery)
    BY <2>1, <2>3, AppendProperties
  <2> QED
    BY <2>2, <2>3, <2>4
<1>3. queue' \in Seq(Batch)
  <2>1. CASE UNCHANGED queue
    BY <2>1 DEF LaneTypeOK
  <2>2. ASSUME NEW k \in DOMAIN queue,
               queue' = SubSeq(queue, 1, k - 1) \o SubSeq(queue, k + 1, Len(queue))
        PROVE queue' \in Seq(Batch)
    <3>1. queue \in Seq(Batch) /\ k \in 1..Len(queue) /\ Len(queue) \in Nat
      BY DEF LaneTypeOK
    <3>2. SubSeq(queue, 1, k - 1) \in Seq(Batch)
      BY <3>1, SubSeqProperties
    <3>3. SubSeq(queue, k + 1, Len(queue)) \in Seq(Batch)
      BY <3>1, SubSeqProperties
    <3> QED
      BY <2>2, <3>2, <3>3
  <2> QED
    BY <2>1, <2>2 DEF Certify, Unqueue
<1> QED
  BY <1>2, <1>3 DEF Certify, LaneTypeOK, custodyVars, epochVars, boundary, drainVars

LEMMA ProposeType == ASSUME LaneTypeOK, ProposeBatch PROVE LaneTypeOK'
<1>1. PICK n \in 1..Len(pending) :
        /\ queue' = Append(queue, SubSeq(pending, 1, n))
        /\ pending' = SubSeq(pending, n + 1, Len(pending))
  BY DEF ProposeBatch
<1>2. pending \in Seq(Frame) /\ Len(pending) \in Nat
  BY DEF LaneTypeOK
<1>3. SubSeq(pending, 1, n) \in Seq(Frame)
  BY <1>2, SubSeqProperties
<1>4. SubSeq(pending, n + 1, Len(pending)) \in Seq(Frame)
  BY <1>2, SubSeqProperties
<1>5. queue' \in Seq(Batch)
  BY <1>1, <1>3 DEF LaneTypeOK, Batch
<1> QED
  BY <1>1, <1>4, <1>5 DEF ProposeBatch, LaneTypeOK, epochVars, boundary, drainVars

LEMMA CarryType == ASSUME LaneTypeOK, NEW s \in Carries PROVE s \in Seq(Frame)
<1>1. IsFiniteSet(outstanding) /\ Cardinality(outstanding) \in Nat
  BY NodeAssumption, FS_Subset, FS_CardinalityType DEF LaneTypeOK
<1>2. s \in [1..Cardinality(outstanding) -> Frame]
  BY DEF Carries, LaneTypeOK
<1> QED
  BY <1>1, <1>2

LEMMA SealType == ASSUME LaneTypeOK, deferred # <<>>, NEW ran \in BOOLEAN, Seal(ran)
                  PROVE /\ deferred' \in Seq(Delivery)
                        /\ appliedFloor' = AppHeight /\ appliedFloor' \in Nat
                        /\ chain' \in Seq(SealedBlock)
<1>1. [epoch |-> epoch, height |-> AppHeight, batch |-> Block.batch, ran |-> ran]
        \in SealedBlock
  BY FirstBlock DEF SealedBlock, Delivery, LaneTypeOK
<1>2. chain \in Seq(SealedBlock)
  BY DEF LaneTypeOK
<1>3. chain' \in Seq(SealedBlock)
  BY <1>1, <1>2, AppendProperties DEF Seal
<1> QED
  BY <1>3, FirstBlock DEF Seal

LEMMA NextType == LaneTypeOK /\ [Next]_vars => LaneTypeOK'
<1> SUFFICES ASSUME LaneTypeOK, [Next]_vars PROVE LaneTypeOK'
  OBVIOUS
<1> USE DEF custodyVars, engineVars, epochVars, boundary, drainVars
<1>1. ASSUME NEW f \in Frame, Submit(f) PROVE LaneTypeOK'
  <2>1. pending' \in Seq(Frame)
    BY <1>1, AppendProperties DEF Submit, LaneTypeOK
  <2> QED
    BY <1>1, <2>1 DEF Submit, LaneTypeOK
<1>2. CASE BeginFlush \/ EndFlush \/ RefuseOutOfOrder \/ Demoted
  BY <1>2 DEF BeginFlush, EndFlush, RefuseOutOfOrder, Demoted, LaneTypeOK
<1>3. CASE ProposeBatch
  BY <1>3, ProposeType
<1>4. ASSUME NEW v \in View, NEW b \in Foreign \cup Elems(queue) \cup Elems(Recovered),
             Certify(v, b)
      PROVE LaneTypeOK'
  BY <1>4, CertifyType
<1>5. CASE BeginDrain
  <2>1. deferred \o inbox \in Seq(Delivery)
    BY ConcatProperties DEF LaneTypeOK
  <2> QED
    BY <1>5, <2>1, EmptySeq DEF BeginDrain, LaneTypeOK, NoPass
<1>6. CASE SkipResumeReplay \/ Discard
  BY <1>6, FirstBlock DEF SkipResumeReplay, Discard, Draining, Reaches, PassOver, LaneTypeOK
<1>7. CASE SealRefused
  BY <1>7, FirstBlock, SealType DEF SealRefused, Reaches, Draining, LaneTypeOK
<1>8. CASE Stall
  BY <1>8 DEF Stall, LaneTypeOK, NoPass
<1>9. CASE HostFatal
  BY <1>9, FirstBlock DEF HostFatal, Reaches, Draining, LaneTypeOK
<1>10. CASE EndDrain
  BY <1>10 DEF EndDrain, BoundaryView, LaneTypeOK, NoPass
<1>11. ASSUME NEW moved \in BOOLEAN, Execute(moved) PROVE LaneTypeOK'
  <2>1. outstanding' \subseteq Frame
    BY <1>11 DEF Execute, ReleaseCustody, LaneTypeOK
  <2>2. pass' \in [last : Nat, sealed : Nat, broke : BOOLEAN]
    BY <1>11, FirstBlock DEF Execute, Reaches, Draining
  <2> QED
    BY <1>11, <2>1, <2>2, SealType DEF Execute, Reaches, Draining, LaneTypeOK
<1>12. CASE Observe
  BY <1>12, NodeAssumption DEF Observe, Armed, LaneTypeOK
<1>13. CASE Cutover
  <2>1. pending' \in Seq(Frame)
    BY <1>13, CarryType DEF Cutover
  <2>2. queue' \in Seq(Batch) /\ inbox' \in Seq(Delivery) /\ deferred' \in Seq(Delivery)
    <3>1. queue' = <<>> /\ inbox' = <<>> /\ deferred' = <<>>
      BY <1>13 DEF Cutover
    <3> QED
      BY <3>1, EmptySeq
  <2>3. /\ viewBase' \in Nat /\ epoch' \in Nat /\ ceiling' \in Nat
        /\ lastEngineView' \in Nat /\ finalizedView' \in Nat /\ views' \subseteq View
    <3>1. /\ viewBase' = viewBase + ceiling /\ epoch' = epoch + 1 /\ ceiling' = 0
          /\ lastEngineView' = 0 /\ finalizedView' = 0 /\ views' = {}
      BY <1>13 DEF Cutover, NextBase
    <3>2. viewBase \in Nat /\ epoch \in Nat /\ ceiling \in Nat
      BY DEF LaneTypeOK
    <3> QED
      BY <3>1, <3>2
  <2>4. UNCHANGED <<outstanding, finalized, resumeFloor, appliedFloor, pass, chain>>
    BY <1>13 DEF Cutover
  <2>5. changed' \in BOOLEAN
    BY <1>13, Zenon DEF Cutover
  <2> QED
    BY <2>1, <2>2, <2>3, <2>4, <2>5 DEF LaneTypeOK
<1>14. CASE UNCHANGED vars
  BY <1>14 DEF vars, LaneTypeOK
<1> QED
  BY <1>1, <1>2, <1>3, <1>4, <1>5, <1>6, <1>7, <1>8, <1>9, <1>10, <1>11, <1>12, <1>13,
     <1>14
  DEF Next, Drain

(***************************************************************************)
(* Heights                                                                 *)
(***************************************************************************)
ChainBelowFloor == \A i \in DOMAIN chain : chain[i].height <= appliedFloor
ChainEpochs     == \A i \in DOMAIN chain : chain[i].epoch <= epoch

\* The ceiling is above everything sealed.
CeilingAbove == ceiling # 0 => appliedFloor < viewBase + ceiling

\* A membership change no ceiling was armed for is the block sealed last.
ChangeIsObserved ==
    changed /\ ceiling = 0 /\ turn # "halted" =>
      \/ /\ turn = "drain" /\ pass.broke /\ pass.last # 0
         /\ appliedFloor = viewBase + pass.last
      \/ /\ turn = "tick" /\ lastEngineView # 0
         /\ appliedFloor = viewBase + lastEngineView

HeightInv ==
    /\ LaneTypeOK
    /\ ChainBelowFloor
    /\ ChainEpochs
    /\ CeilingAbove
    /\ ChangeIsObserved
    /\ HeightsAscend
    /\ EpochsDisjoint

heightVars == <<chain, appliedFloor, epoch, viewBase, ceiling, changed>>

LEMMA InitHeight == Init => HeightInv
<1> SUFFICES ASSUME Init PROVE HeightInv
  OBVIOUS
<1>1. LaneTypeOK
  BY InitType
<1>2. Len(Recovered) \in Nat /\ DOMAIN Recovered = 1..Len(Recovered)
  BY NodeAssumption
<1>3. DOMAIN chain = 1..Len(Recovered)
  BY <1>2 DEF Init
<1>4. \A i \in 1..Len(Recovered) : chain[i].height = i /\ chain[i].epoch = 0
  BY <1>2 DEF Init
<1> QED
  BY <1>1, <1>2, <1>3, <1>4
  DEF Init, HeightInv, ChainBelowFloor, ChainEpochs, CeilingAbove, ChangeIsObserved,
      HeightsAscend, EpochsDisjoint

\* Sealing a block above the floor and below the ceiling.
LEMMA SealHeight ==
    ASSUME HeightInv, Reaches, ~IsDiscarded, NEW ran \in BOOLEAN, Seal(ran),
           UNCHANGED <<epoch, viewBase, ceiling>>
    PROVE /\ ChainBelowFloor' /\ ChainEpochs' /\ CeilingAbove'
          /\ HeightsAscend' /\ EpochsDisjoint'
<1>1. /\ AppHeight \in Nat /\ AppHeight = viewBase + Block.view /\ Block.view \in Nat
      /\ AppHeight > appliedFloor
  BY FirstBlock, SMTT(30) DEF HeightInv, Reaches, Draining, IsResumeReplay, IsOutOfOrder, AppHeight,
     LaneTypeOK
<1>2. /\ chain \in Seq(SealedBlock) /\ appliedFloor \in Nat /\ epoch \in Nat
      /\ viewBase \in Nat /\ ceiling \in Nat
  BY DEF HeightInv, LaneTypeOK
<1> DEFINE n == Len(chain)
           e == [epoch |-> epoch, height |-> AppHeight, batch |-> Block.batch, ran |-> ran]
<1>3. n \in Nat /\ DOMAIN chain = 1..n
  BY <1>2
<1>4. e.height = AppHeight /\ e.epoch = epoch
  OBVIOUS
<1> HIDE DEF e
<1>5. chain' = Append(chain, e) /\ appliedFloor' = AppHeight
  BY DEF Seal, e
<1>6. /\ DOMAIN chain' = 1..(n + 1)
      /\ \A i \in 1..n : chain'[i] = chain[i]
      /\ chain'[n + 1] = e
  <2>1. e \in SealedBlock
    BY <1>1, <1>2, FirstBlock DEF e, SealedBlock, HeightInv, Reaches, Draining, Delivery
  <2> QED
    BY <1>2, <1>3, <1>5, <2>1, AppendProperties
<1>7. \A i \in 1..n : chain[i].height \in Nat /\ chain[i].height <= appliedFloor
                      /\ chain[i].epoch <= epoch
  <2>1. \A i \in 1..n : chain[i] \in SealedBlock
    BY <1>2, <1>3
  <2>2. \A c \in SealedBlock : c.height \in Nat
    BY DEF SealedBlock
  <2>3. \A i \in 1..n : chain[i].height <= appliedFloor /\ chain[i].epoch <= epoch
    BY <1>3 DEF HeightInv, ChainBelowFloor, ChainEpochs
  <2> QED
    BY <2>1, <2>2, <2>3
<1>8. ChainBelowFloor'
  BY <1>1, <1>2, <1>3, <1>4, <1>5, <1>6, <1>7 DEF ChainBelowFloor
<1>9. ChainEpochs'
  BY <1>2, <1>3, <1>4, <1>6, <1>7 DEF ChainEpochs
<1>10. CeilingAbove'
  BY <1>1, <1>2, <1>5 DEF CeilingAbove, IsDiscarded
<1>11. HeightsAscend'
  <2> SUFFICES ASSUME NEW i \in 1..(n + 1), NEW j \in 1..(n + 1), i < j
               PROVE chain'[i].height < chain'[j].height
    BY <1>6 DEF HeightsAscend
  <2>1. i \in 1..n
    BY <1>3
  <2>2. CASE j \in 1..n
    BY <1>3, <1>6, <2>1, <2>2 DEF HeightInv, HeightsAscend
  <2>3. CASE j = n + 1
    BY <1>1, <1>2, <1>4, <1>6, <1>7, <2>1, <2>3, SMTT(30)
  <2> QED
    BY <1>3, <2>2, <2>3
<1>12. EpochsDisjoint'
  BY <1>2, <1>3, <1>4, <1>6 DEF HeightInv, EpochsDisjoint
<1> QED
  BY <1>8, <1>9, <1>10, <1>11, <1>12

\* Steps that leave the heights alone.
LEMMA QuietHeight ==
    ASSUME HeightInv, UNCHANGED heightVars
    PROVE /\ ChainBelowFloor' /\ ChainEpochs' /\ CeilingAbove'
          /\ HeightsAscend' /\ EpochsDisjoint'
BY DEF heightVars, HeightInv, ChainBelowFloor, ChainEpochs, CeilingAbove, HeightsAscend,
   EpochsDisjoint

LEMMA NextHeight == HeightInv /\ [Next]_vars => HeightInv'
<1> SUFFICES ASSUME HeightInv, [Next]_vars PROVE HeightInv'
  OBVIOUS
<1>t. LaneTypeOK'
  BY NextType DEF HeightInv
<1>n. /\ LaneTypeOK
      /\ viewBase \in Nat /\ ceiling \in Nat /\ appliedFloor \in Nat
      /\ lastEngineView \in Nat /\ Delay \in Nat /\ Delay >= 1
  BY NodeAssumption DEF HeightInv, LaneTypeOK
<1> DEFINE Quiet == UNCHANGED heightVars /\ ChangeIsObserved'
<1>q. Quiet => HeightInv'
  BY <1>t, QuietHeight DEF HeightInv
<1> USE DEF custodyVars, engineVars, epochVars, boundary, drainVars, heightVars
<1>1. ASSUME NEW f \in Frame, Submit(f) PROVE Quiet
  BY <1>1 DEF Submit, HeightInv, ChangeIsObserved
<1>2. ASSUME BeginFlush \/ EndFlush \/ RefuseOutOfOrder \/ Demoted PROVE Quiet
  BY <1>2 DEF BeginFlush, EndFlush, RefuseOutOfOrder, Demoted, HeightInv, ChangeIsObserved
<1>3. ASSUME ProposeBatch PROVE Quiet
  BY <1>3 DEF ProposeBatch, HeightInv, ChangeIsObserved
<1>4. ASSUME NEW v \in View, NEW b \in Foreign \cup Elems(queue) \cup Elems(Recovered),
             Certify(v, b)
      PROVE Quiet
  BY <1>4 DEF Certify, HeightInv, ChangeIsObserved
<1>5. ASSUME BeginDrain PROVE Quiet
  BY <1>5 DEF BeginDrain, HeightInv, ChangeIsObserved
<1>6. ASSUME SkipResumeReplay \/ Discard PROVE Quiet
  BY <1>6 DEF SkipResumeReplay, Discard, Reaches, Draining, PassOver, HeightInv,
     ChangeIsObserved
<1>7. CASE SealRefused
  <2>1. ChainBelowFloor' /\ ChainEpochs' /\ CeilingAbove' /\ HeightsAscend' /\ EpochsDisjoint'
    BY <1>7, SealHeight DEF SealRefused
  <2>2. ~(changed /\ ceiling = 0) /\ UNCHANGED <<changed, ceiling>>
    BY <1>7 DEF SealRefused, Reaches, Draining, HeightInv, ChangeIsObserved
  <2> QED
    BY <1>t, <2>1, <2>2 DEF HeightInv, ChangeIsObserved
<1>8. ASSUME Stall PROVE Quiet
  BY <1>8 DEF Stall, Reaches, Draining, HeightInv, ChangeIsObserved
<1>9. CASE HostFatal
  <2>1. /\ appliedFloor' = AppHeight /\ AppHeight > appliedFloor
        /\ AppHeight = viewBase + Block.view /\ Block.view \in Nat
        /\ ceiling # 0 => Block.view < ceiling
    BY <1>9, <1>n, FirstBlock, SMTT(30) DEF HostFatal, Reaches, Draining, IsResumeReplay, IsOutOfOrder,
       IsDiscarded, AppHeight, LaneTypeOK
  <2>2. UNCHANGED <<chain, epoch, viewBase, ceiling>> /\ turn' = "halted"
    BY <1>9 DEF HostFatal
  <2>3. ChainBelowFloor'
    <3>1. \A i \in DOMAIN chain : chain[i] \in SealedBlock
      BY <1>n DEF LaneTypeOK
    <3>2. \A c \in SealedBlock : c.height \in Nat
      BY DEF SealedBlock
    <3> QED
      BY <1>n, <2>1, <2>2, <3>1, <3>2 DEF HeightInv, ChainBelowFloor
  <2>4. CeilingAbove'
    BY <1>n, <2>1, <2>2 DEF CeilingAbove
  <2>5. ChainEpochs' /\ HeightsAscend' /\ EpochsDisjoint' /\ ChangeIsObserved'
    BY <2>2 DEF HeightInv, ChainEpochs, HeightsAscend, EpochsDisjoint, ChangeIsObserved
  <2> QED
    BY <1>t, <2>3, <2>4, <2>5 DEF HeightInv
<1>10. ASSUME EndDrain PROVE Quiet
  BY <1>10 DEF EndDrain, HeightInv, ChangeIsObserved
<1>11. ASSUME NEW moved \in BOOLEAN, Execute(moved) PROVE HeightInv'
  <2>1. ChainBelowFloor' /\ ChainEpochs' /\ CeilingAbove' /\ HeightsAscend' /\ EpochsDisjoint'
    BY <1>11, SealHeight DEF Execute
  <2>2. ~(changed /\ ceiling = 0) /\ UNCHANGED <<ceiling, viewBase>>
    BY <1>11 DEF Execute, Reaches, Draining, HeightInv, ChangeIsObserved
  <2>3. /\ pass' = [last |-> Block.view, sealed |-> Block.view, broke |-> moved]
        /\ changed' = (changed \/ moved) /\ turn = "drain" /\ turn' = turn
        /\ appliedFloor' = viewBase + Block.view /\ Block.view # 0
    BY <1>11, <1>n, FirstBlock DEF Execute, Seal, Reaches, Draining, AppHeight
  <2>4. ChangeIsObserved'
    BY <2>2, <2>3 DEF ChangeIsObserved
  <2> QED
    BY <1>t, <2>1, <2>4 DEF HeightInv
<1>12. CASE Observe
  <2>1. UNCHANGED <<chain, appliedFloor, epoch, viewBase, changed>>
    BY <1>12 DEF Observe
  <2>2. ceiling' = Armed /\ turn = "tick"
    BY <1>12 DEF Observe
  <2>3. CeilingAbove'
    BY <1>n, <2>1, <2>2 DEF Armed, HeightInv, CeilingAbove, ChangeIsObserved
  <2>4. ChangeIsObserved'
    BY <1>n, <2>1, <2>2 DEF Armed, HeightInv, ChangeIsObserved
  <2>5. ChainBelowFloor' /\ ChainEpochs' /\ HeightsAscend' /\ EpochsDisjoint'
    BY <2>1 DEF HeightInv, ChainBelowFloor, ChainEpochs, HeightsAscend, EpochsDisjoint
  <2> QED
    BY <1>t, <2>3, <2>4, <2>5 DEF HeightInv
<1>13. CASE Cutover
  <2>1. /\ epoch' = epoch + 1 /\ viewBase' = viewBase + ceiling /\ ceiling' = 0
        /\ changed' = FALSE /\ UNCHANGED <<chain, appliedFloor>>
    BY <1>13 DEF Cutover, NextBase
  <2>2. ceiling # 0
    BY <1>13, <1>n DEF Cutover, Due, Armed
  <2>3. appliedFloor < viewBase'
    BY <2>1, <2>2 DEF HeightInv, CeilingAbove
  <2>4. \A i \in DOMAIN chain : /\ chain[i].height \in Nat /\ chain[i].height <= appliedFloor
                                /\ chain[i].epoch \in Nat /\ chain[i].epoch <= epoch
    <3>1. \A i \in DOMAIN chain : chain[i] \in SealedBlock
      BY <1>n DEF LaneTypeOK
    <3>2. \A c \in SealedBlock : c.height \in Nat /\ c.epoch \in Nat
      BY DEF SealedBlock
    <3> QED
      BY <3>1, <3>2 DEF HeightInv, ChainBelowFloor, ChainEpochs
  <2>5. epoch \in Nat /\ viewBase' \in Nat
    BY <1>n, <2>1 DEF LaneTypeOK
  <2>6. EpochsDisjoint'
    BY <1>n, <2>1, <2>3, <2>4, <2>5 DEF EpochsDisjoint
  <2>7. ChainEpochs'
    BY <2>1, <2>4, <2>5 DEF ChainEpochs
  <2>8. ChainBelowFloor' /\ CeilingAbove' /\ ChangeIsObserved' /\ HeightsAscend'
    BY <2>1 DEF HeightInv, ChainBelowFloor, CeilingAbove, ChangeIsObserved, HeightsAscend
  <2> QED
    BY <1>t, <2>6, <2>7, <2>8 DEF HeightInv
<1>14. ASSUME UNCHANGED vars PROVE Quiet
  BY <1>14 DEF vars, HeightInv, ChangeIsObserved
<1> QED
  BY <1>q, <1>1, <1>2, <1>3, <1>4, <1>5, <1>6, <1>7, <1>8, <1>9, <1>10, <1>11, <1>12, <1>13,
     <1>14
  DEF Next, Drain

\* The inductive invariant of the lane's heights holds in every reachable
\* state: whatever drain_delivered, observe_members and cutover do, in
\* whatever order the engine's inbox releases its views.
THEOREM NodeHeightInvariant == Spec => []HeightInv
<1>1. Init => HeightInv
  BY InitHeight
<1>2. HeightInv /\ [Next]_vars => HeightInv'
  BY NextHeight
<1> QED
  BY <1>1, <1>2, PTL DEF Spec

\* drain_delivered seals blocks at strictly ascending heights over the whole
\* life of the process, cutovers included: a height is never sealed twice.
THEOREM NodeHeightsAscend == Spec => []HeightsAscend
<1>1. HeightInv => HeightsAscend
  BY DEF HeightInv
<1> QED
  BY <1>1, NodeHeightInvariant, PTL

\* The discard at the cutover ceiling keeps every block of an epoch below the
\* base of the next one, stalled passes included.
THEOREM NodeEpochsDisjoint == Spec => []EpochsDisjoint
<1>1. HeightInv => EpochsDisjoint
  BY DEF HeightInv
<1> QED
  BY <1>1, NodeHeightInvariant, PTL

\* A height names one block of one epoch.
THEOREM NodeChainOrdered == Spec => []ChainOrdered
<1>1. HeightInv => ChainOrdered
  BY DEF HeightInv, ChainOrdered
<1> QED
  BY <1>1, NodeHeightInvariant, PTL

(***************************************************************************)
(* The boundary                                                            *)
(***************************************************************************)
\* The view the pass will publish is one it sealed, under the current base.
SealedThisPass ==
    /\ pass.sealed # 0 => \E i \in DOMAIN chain : chain[i].height = viewBase + pass.sealed
    /\ turn \in {"idle", "flush", "tick"} => pass.sealed = 0

BoundaryInv == HeightInv /\ SealedThisPass /\ FinalizedSealed

LEMMA InitBoundary == Init => BoundaryInv
<1> SUFFICES ASSUME Init PROVE BoundaryInv
  OBVIOUS
<1>1. Len(Recovered) \in Nat /\ DOMAIN Recovered = 1..Len(Recovered)
  BY NodeAssumption
<1>2. finalized # 0 => \E i \in DOMAIN chain : chain[i].height = finalized
  BY <1>1 DEF Init
<1> QED
  BY <1>2, InitHeight DEF Init, BoundaryInv, SealedThisPass, FinalizedSealed, NoPass

\* A block once sealed stays in the history.
LEMMA SealKeeps ==
    ASSUME LaneTypeOK, deferred # <<>>, NEW ran \in BOOLEAN, Seal(ran)
    PROVE /\ \A i \in DOMAIN chain : i \in DOMAIN chain' /\ chain'[i] = chain[i]
          /\ \E i \in DOMAIN chain' : chain'[i].height = AppHeight
<1> DEFINE e == [epoch |-> epoch, height |-> AppHeight, batch |-> Block.batch, ran |-> ran]
<1>1. e.height = AppHeight
  OBVIOUS
<1>2. e \in SealedBlock
  BY FirstBlock DEF SealedBlock, Delivery, LaneTypeOK
<1>3. chain' = Append(chain, e)
  BY DEF Seal
<1>4. chain \in Seq(SealedBlock)
  BY DEF LaneTypeOK
<1> HIDE DEF e
<1>5. /\ Len(chain) \in Nat /\ DOMAIN chain = 1..Len(chain)
      /\ DOMAIN chain' = 1..(Len(chain) + 1)
      /\ chain'[Len(chain) + 1] = e
      /\ \A i \in 1..Len(chain) : chain'[i] = chain[i]
  BY <1>2, <1>3, <1>4, AppendProperties
<1>6. Len(chain) + 1 \in DOMAIN chain' /\ chain'[Len(chain) + 1].height = AppHeight
  BY <1>1, <1>5
<1> QED
  BY <1>5, <1>6

LEMMA SealBoundary ==
    ASSUME BoundaryInv, Reaches, NEW ran \in BOOLEAN, Seal(ran),
           UNCHANGED <<turn, viewBase, boundary>>, pass'.sealed = Block.view
    PROVE SealedThisPass' /\ FinalizedSealed'
<1>1. LaneTypeOK /\ deferred # <<>> /\ turn = "drain"
  BY DEF BoundaryInv, HeightInv, Reaches, Draining
<1>2. /\ \A i \in DOMAIN chain : i \in DOMAIN chain' /\ chain'[i] = chain[i]
      /\ \E i \in DOMAIN chain' : chain'[i].height = AppHeight
  BY <1>1, SealKeeps
<1>3. SealedThisPass'
  BY <1>1, <1>2 DEF SealedThisPass, AppHeight
<1>4. FinalizedSealed'
  BY <1>2 DEF BoundaryInv, FinalizedSealed, boundary
<1> QED
  BY <1>3, <1>4

LEMMA NextBoundary == BoundaryInv /\ [Next]_vars => BoundaryInv'
<1> SUFFICES ASSUME BoundaryInv, [Next]_vars PROVE BoundaryInv'
  OBVIOUS
<1>h. HeightInv'
  BY NextHeight DEF BoundaryInv
<1>t. LaneTypeOK
  BY DEF BoundaryInv, HeightInv
<1> USE DEF custodyVars, engineVars, epochVars, drainVars
<1>1. ASSUME NEW f \in Frame, Submit(f) PROVE BoundaryInv'
  BY <1>1, <1>h DEF Submit, BoundaryInv, SealedThisPass, FinalizedSealed, boundary
<1>2. CASE BeginFlush \/ EndFlush \/ RefuseOutOfOrder \/ Demoted
  BY <1>2, <1>h DEF BeginFlush, EndFlush, RefuseOutOfOrder, Demoted, BoundaryInv,
     SealedThisPass, FinalizedSealed, boundary
<1>3. CASE ProposeBatch
  BY <1>3, <1>h DEF ProposeBatch, BoundaryInv, SealedThisPass, FinalizedSealed, boundary
<1>4. ASSUME NEW v \in View, NEW b \in Foreign \cup Elems(queue) \cup Elems(Recovered),
             Certify(v, b)
      PROVE BoundaryInv'
  BY <1>4, <1>h DEF Certify, BoundaryInv, SealedThisPass, FinalizedSealed, boundary
<1>5. CASE BeginDrain \/ Stall
  BY <1>5, <1>h DEF BeginDrain, Stall, BoundaryInv, SealedThisPass, FinalizedSealed, boundary,
     NoPass
<1>6. CASE SkipResumeReplay \/ Discard
  <2>1. pass'.sealed = pass.sealed
    BY <1>6, <1>t DEF SkipResumeReplay, Discard, PassOver, LaneTypeOK
  <2> QED
    BY <1>6, <2>1, <1>h DEF SkipResumeReplay, Discard, Reaches, Draining, PassOver, BoundaryInv,
       SealedThisPass, FinalizedSealed, boundary
<1>7. CASE SealRefused
  <2>1. pass'.sealed = Block.view
    BY <1>7, <1>t DEF SealRefused, LaneTypeOK
  <2> QED
    BY <1>7, <2>1, <1>h, SealBoundary DEF SealRefused, BoundaryInv
<1>8. CASE HostFatal
  BY <1>8, <1>h DEF HostFatal, BoundaryInv, SealedThisPass, FinalizedSealed, boundary
<1>9. CASE EndDrain
  <2>1. UNCHANGED <<chain, viewBase>> /\ pass'.sealed = 0
    BY <1>9 DEF EndDrain, NoPass
  <2>2. \/ UNCHANGED <<finalized, finalizedView>>
        \/ /\ finalized' = viewBase + pass.sealed /\ finalizedView' = pass.sealed
           /\ pass.sealed # 0
    BY <1>9 DEF EndDrain, BoundaryView
  <2> QED
    BY <2>1, <2>2, <1>h DEF BoundaryInv, SealedThisPass, FinalizedSealed
<1>10. ASSUME NEW moved \in BOOLEAN, Execute(moved) PROVE BoundaryInv'
  <2>1. pass'.sealed = Block.view
    BY <1>10 DEF Execute
  <2> QED
    BY <1>10, <2>1, <1>h, SealBoundary DEF Execute, BoundaryInv
<1>11. CASE Observe
  BY <1>11, <1>h DEF Observe, BoundaryInv, SealedThisPass, FinalizedSealed, boundary
<1>12. CASE Cutover
  <2>1. finalizedView' = 0 /\ UNCHANGED <<finalized, pass, chain>> /\ turn = "tick"
    BY <1>12 DEF Cutover, Due
  <2> QED
    BY <2>1, <1>h DEF BoundaryInv, SealedThisPass, FinalizedSealed
<1>13. CASE UNCHANGED vars
  BY <1>13, <1>h DEF vars, BoundaryInv, SealedThisPass, FinalizedSealed, boundary
<1> QED
  BY <1>1, <1>2, <1>3, <1>4, <1>5, <1>6, <1>7, <1>8, <1>9, <1>10, <1>11, <1>12, <1>13
  DEF Next, Drain

\* The boundary drain_delivered publishes to state sync is a height this
\* validator sealed, never one it discarded past a ceiling or skipped as a
\* resume replay, and its view is one of the current engine's.
THEOREM NodeFinalizedSealed == Spec => []FinalizedSealed
<1>1. Init => BoundaryInv
  BY InitBoundary
<1>2. BoundaryInv /\ [Next]_vars => BoundaryInv'
  BY NextBoundary
<1>3. BoundaryInv => FinalizedSealed
  BY DEF BoundaryInv
<1> QED
  BY <1>1, <1>2, <1>3, PTL DEF Spec

(***************************************************************************)
(* The fail-stop, when the inbox releases ascending views                  *)
(***************************************************************************)
\* What is delivered and not drained ascends, and is certified.
LaneAscends ==
    /\ \A i, j \in DOMAIN deferred : i < j => deferred[i].view < deferred[j].view
    /\ \A i, j \in DOMAIN inbox : i < j => inbox[i].view < inbox[j].view
    /\ \A i \in DOMAIN deferred, j \in DOMAIN inbox : deferred[i].view < inbox[j].view
    /\ \A i \in DOMAIN deferred : deferred[i].view \in views
    /\ \A i \in DOMAIN inbox : inbox[i].view \in views

\* A view is either a re-report of the recovered history or above the floor.
Sealable(v) == viewBase + v > appliedFloor \/ viewBase + v <= resumeFloor
LaneSealable ==
    turn # "halted" =>
      /\ \A i \in DOMAIN deferred : Sealable(deferred[i].view)
      /\ \A i \in DOMAIN inbox : Sealable(inbox[i].view)

\* Where the floor stands: at the restart, below the epoch, or at a view.
FloorPlaced ==
    \/ appliedFloor <= resumeFloor
    \/ appliedFloor <= viewBase
    \/ \E w \in views : appliedFloor = viewBase + w

AscendInv == HeightInv /\ LaneAscends /\ LaneSealable /\ FloorPlaced

LEMMA InitAscend == Init => AscendInv
<1> SUFFICES ASSUME Init PROVE AscendInv
  OBVIOUS
<1>1. Len(Recovered) \in Nat
  BY NodeAssumption
<1>2. deferred = <<>> /\ inbox = <<>> /\ appliedFloor = resumeFloor /\ resumeFloor \in Nat
  BY <1>1 DEF Init
<1>3. DOMAIN deferred = {} /\ DOMAIN inbox = {}
  BY <1>2
<1> QED
  BY <1>2, <1>3, InitHeight DEF AscendInv, LaneAscends, LaneSealable, FloorPlaced

\* Taking the first delivery, sealed or passed over.
LEMMA TakeFirst ==
    ASSUME AscendInv, deferred # <<>>, deferred' = Tail(deferred),
           UNCHANGED <<inbox, views, viewBase, resumeFloor, turn>>,
           appliedFloor' = appliedFloor \/ appliedFloor' = AppHeight
    PROVE LaneAscends' /\ LaneSealable' /\ FloorPlaced'
<1>1. /\ LaneTypeOK /\ deferred \in Seq(Delivery) /\ inbox \in Seq(Delivery)
      /\ viewBase \in Nat /\ appliedFloor \in Nat /\ resumeFloor \in Nat
  BY DEF AscendInv, HeightInv, LaneTypeOK
<1> DEFINE n == Len(deferred)
<1>2. /\ n \in Nat /\ n >= 1 /\ DOMAIN deferred = 1..n
      /\ DOMAIN deferred' = 1..(n - 1)
      /\ \A i \in 1..(n - 1) : deferred'[i] = deferred[i + 1]
  BY <1>1, HeadTailProperties
<1>3. Block = deferred[1] /\ Block.view \in Nat /\ AppHeight = viewBase + Block.view
  BY <1>1, FirstBlock DEF AppHeight
<1>4. \A d \in Delivery : d.view \in Nat
  BY NodeAssumption DEF Delivery, View
<1>5. /\ \A i \in 1..n : deferred[i].view \in Nat
      /\ \A i \in DOMAIN inbox : inbox[i].view \in Nat
  BY <1>1, <1>2, <1>4
<1> HIDE DEF n
<1>6. LaneAscends'
  BY <1>2, <1>5, SMTT(30) DEF AscendInv, LaneAscends
<1>7. LaneSealable'
  <2> SUFFICES ASSUME turn # "halted"
               PROVE /\ \A i \in 1..(n - 1) :
                           \/ viewBase + deferred'[i].view > appliedFloor'
                           \/ viewBase + deferred'[i].view <= resumeFloor
                     /\ \A i \in DOMAIN inbox :
                           \/ viewBase + inbox[i].view > appliedFloor'
                           \/ viewBase + inbox[i].view <= resumeFloor
    BY <1>2 DEF LaneSealable, Sealable
  <2>1. CASE appliedFloor' = appliedFloor
    BY <1>2, <2>1 DEF AscendInv, LaneSealable, Sealable
  <2>2. CASE appliedFloor' = AppHeight
    <3>1. \A i \in 1..(n - 1) : deferred'[i].view > Block.view /\ deferred'[i].view \in Nat
      BY <1>2, <1>3, <1>5 DEF AscendInv, LaneAscends
    <3>2. \A i \in DOMAIN inbox : inbox[i].view > Block.view
      BY <1>2, <1>3, <1>5 DEF AscendInv, LaneAscends
    <3> QED
      BY <1>1, <1>2, <1>3, <1>5, <2>2, <3>1, <3>2, SMTT(30) DEF Sealable
  <2> QED
    BY <2>1, <2>2
<1>8. FloorPlaced'
  <2>1. Block.view \in views
    BY <1>2, <1>3 DEF AscendInv, LaneAscends
  <2> QED
    BY <1>3, <2>1 DEF AscendInv, FloorPlaced
<1> QED
  BY <1>6, <1>7, <1>8

\* The views the engine certifies are above every view it certified before.
LEMMA CertifyAscend ==
    ASSUME Ascending, AscendInv, NEW v \in View,
           NEW b \in Foreign \cup Elems(queue) \cup Elems(Recovered), Certify(v, b)
    PROVE LaneAscends' /\ LaneSealable' /\ FloorPlaced'
<1>1. /\ LaneTypeOK /\ deferred \in Seq(Delivery) /\ inbox \in Seq(Delivery)
      /\ viewBase \in Nat /\ appliedFloor \in Nat /\ resumeFloor \in Nat
      /\ views \subseteq View
  BY DEF AscendInv, HeightInv, LaneTypeOK
<1>2. /\ UNCHANGED <<deferred, viewBase, appliedFloor, resumeFloor, turn>>
      /\ views' = views \cup {v} /\ \A w \in views : w < v
  BY DEF Certify, MayCertify, epochVars, drainVars
<1>3. v \in Nat /\ v >= 1
  BY NodeAssumption DEF View
<1> DEFINE e == [view |-> v, batch |-> b]
           n == Len(inbox)
<1>4. e.view = v
  OBVIOUS
<1>5. inbox' = inbox \/ inbox' = Append(inbox, e)
  BY DEF Certify
<1>6. n \in Nat /\ DOMAIN inbox = 1..n
  BY <1>1
<1> HIDE DEF e
<1>7. inbox' = Append(inbox, e) =>
        /\ DOMAIN inbox' = 1..(n + 1) /\ inbox'[n + 1] = e
        /\ \A i \in 1..n : inbox'[i] = inbox[i]
  BY <1>1, <1>6
<1> HIDE DEF n
<1>8. Sealable(v)
  <2>1. CASE appliedFloor <= resumeFloor
    BY <1>1, <1>3, <2>1 DEF Sealable
  <2>2. CASE appliedFloor <= viewBase
    BY <1>1, <1>3, <2>2 DEF Sealable
  <2>3. ASSUME NEW w \in views, appliedFloor = viewBase + w PROVE Sealable(v)
    <3>1. w \in Nat /\ w < v
      BY <1>1, <1>2, NodeAssumption DEF View
    <3> QED
      BY <1>1, <1>3, <2>3, <3>1 DEF Sealable
  <2> QED
    BY <2>1, <2>2, <2>3 DEF AscendInv, FloorPlaced
<1>9. LaneAscends'
  <2>1. CASE inbox' = inbox
    BY <1>2, <2>1 DEF AscendInv, LaneAscends
  <2>2. CASE inbox' = Append(inbox, e)
    <3>1. /\ DOMAIN inbox' = 1..(n + 1) /\ inbox'[n + 1].view = v
          /\ \A i \in 1..n : inbox'[i] = inbox[i] /\ inbox[i].view < v
          /\ \A i \in DOMAIN deferred : deferred[i].view < v
      BY <1>2, <1>4, <1>6, <1>7, <2>2 DEF AscendInv, LaneAscends
    <3>2. \A i \in DOMAIN inbox' : i \in 1..n \/ i = n + 1
      BY <1>6, <3>1
    <3>3. \A i, j \in DOMAIN inbox' : i < j => inbox'[i].view < inbox'[j].view
      <4> SUFFICES ASSUME NEW i \in DOMAIN inbox', NEW j \in DOMAIN inbox', i < j
                   PROVE inbox'[i].view < inbox'[j].view
        OBVIOUS
      <4>1. i \in 1..n
        BY <1>6, <3>1, <3>2
      <4> QED
        BY <1>6, <3>1, <3>2, <4>1 DEF AscendInv, LaneAscends
    <3>4. /\ \A i \in DOMAIN deferred', j \in DOMAIN inbox' : deferred'[i].view < inbox'[j].view
          /\ \A i \in DOMAIN deferred' : deferred'[i].view \in views'
          /\ \A i \in DOMAIN inbox' : inbox'[i].view \in views'
      BY <1>2, <1>6, <3>1, <3>2 DEF AscendInv, LaneAscends
    <3> QED
      BY <1>2, <3>3, <3>4 DEF AscendInv, LaneAscends
  <2> QED
    BY <1>5, <2>1, <2>2
<1>10. LaneSealable'
  <2>1. \A i \in DOMAIN inbox' : \/ i \in DOMAIN inbox /\ inbox'[i] = inbox[i]
                                 \/ inbox'[i].view = v
    BY <1>4, <1>5, <1>6, <1>7
  <2> QED
    BY <1>2, <1>8, <2>1 DEF AscendInv, LaneSealable, Sealable
<1>11. FloorPlaced'
  BY <1>2 DEF AscendInv, FloorPlaced
<1> QED
  BY <1>9, <1>10, <1>11

\* The pass takes over what the inbox holds.
LEMMA BeginAscend ==
    ASSUME AscendInv, BeginDrain
    PROVE LaneAscends' /\ LaneSealable' /\ FloorPlaced'
<1>1. deferred \in Seq(Delivery) /\ inbox \in Seq(Delivery)
  BY DEF AscendInv, HeightInv, LaneTypeOK
<1>2. /\ deferred' = deferred \o inbox /\ inbox' = <<>> /\ turn = "idle"
      /\ UNCHANGED <<views, viewBase, appliedFloor, resumeFloor>>
  BY DEF BeginDrain, epochVars
<1> DEFINE m == Len(deferred)
           n == Len(inbox)
<1>3. /\ m \in Nat /\ n \in Nat /\ DOMAIN deferred = 1..m /\ DOMAIN inbox = 1..n
      /\ DOMAIN deferred' = 1..(m + n) /\ DOMAIN inbox' = {}
      /\ \A i \in 1..(m + n) : deferred'[i] = IF i <= m THEN deferred[i] ELSE inbox[i - m]
  BY <1>1, <1>2
<1> HIDE DEF m, n
<1>4. \A i \in 1..(m + n) : \/ i \in 1..m /\ deferred'[i] = deferred[i]
                            \/ /\ i > m /\ i - m \in 1..n /\ deferred'[i] = inbox[i - m]
  BY <1>3
<1>5. LaneAscends'
  <2>1. \A i, j \in DOMAIN deferred' : i < j => deferred'[i].view < deferred'[j].view
    <3> SUFFICES ASSUME NEW i \in 1..(m + n), NEW j \in 1..(m + n), i < j
                 PROVE deferred'[i].view < deferred'[j].view
      BY <1>3
    <3>1. CASE j \in 1..m
      <4>1. i \in 1..m /\ deferred'[i] = deferred[i] /\ deferred'[j] = deferred[j]
        BY <1>3, <1>4, <3>1
      <4> QED
        BY <1>3, <3>1, <4>1 DEF AscendInv, LaneAscends
    <3>2. CASE j > m /\ i \in 1..m
      BY <1>3, <1>4, <3>2 DEF AscendInv, LaneAscends
    <3>3. CASE j > m /\ i > m
      <4>1. /\ i - m \in 1..n /\ j - m \in 1..n /\ i - m < j - m
            /\ deferred'[i] = inbox[i - m] /\ deferred'[j] = inbox[j - m]
        BY <1>3, <1>4, <3>3
      <4>2. \A p, q \in 1..n : p < q => inbox[p].view < inbox[q].view
        BY <1>3 DEF AscendInv, LaneAscends
      <4> QED
        BY <4>1, <4>2
    <3> QED
      BY <1>3, <3>1, <3>2, <3>3
  <2>2. \A i \in DOMAIN deferred' : deferred'[i].view \in views'
    BY <1>2, <1>3, <1>4 DEF AscendInv, LaneAscends
  <2> QED
    BY <1>3, <2>1, <2>2 DEF LaneAscends
<1>6. LaneSealable'
  BY <1>2, <1>3, <1>4 DEF AscendInv, LaneSealable, Sealable
<1>7. FloorPlaced'
  BY <1>2 DEF AscendInv, FloorPlaced
<1> QED
  BY <1>5, <1>6, <1>7

LEMMA NextAscend == ASSUME Ascending PROVE AscendInv /\ [Next]_vars => AscendInv'
<1> SUFFICES ASSUME AscendInv, [Next]_vars PROVE AscendInv'
  OBVIOUS
<1>h. HeightInv'
  BY NextHeight DEF AscendInv
<1> DEFINE laneVars == <<deferred, inbox, views, viewBase, resumeFloor, appliedFloor>>
           Quiet == UNCHANGED laneVars /\ (turn' # "halted" => turn # "halted")
<1>q. Quiet => AscendInv'
  BY <1>h DEF AscendInv, LaneAscends, LaneSealable, Sealable, FloorPlaced
<1> USE DEF custodyVars, engineVars, epochVars, boundary, drainVars
<1>1. ASSUME NEW f \in Frame, Submit(f) PROVE Quiet
  BY <1>1 DEF Submit
<1>2. ASSUME BeginFlush \/ EndFlush \/ RefuseOutOfOrder \/ Demoted PROVE Quiet
  BY <1>2 DEF BeginFlush, EndFlush, RefuseOutOfOrder, Demoted
<1>3. ASSUME ProposeBatch PROVE Quiet
  BY <1>3 DEF ProposeBatch
<1>4. ASSUME NEW v \in View, NEW b \in Foreign \cup Elems(queue) \cup Elems(Recovered),
             Certify(v, b)
      PROVE AscendInv'
  BY <1>4, <1>h, CertifyAscend DEF AscendInv
<1>5. CASE BeginDrain
  BY <1>5, <1>h, BeginAscend DEF AscendInv
<1>6. CASE SkipResumeReplay \/ Discard
  BY <1>6, <1>h, TakeFirst DEF SkipResumeReplay, Discard, Reaches, Draining, PassOver, AscendInv
<1>7. CASE SealRefused
  BY <1>7, <1>h, TakeFirst DEF SealRefused, Reaches, Draining, Seal, AscendInv
<1>8. ASSUME Stall \/ EndDrain \/ Observe PROVE Quiet
  BY <1>8 DEF Stall, Reaches, Draining, EndDrain, Observe
<1>9. CASE HostFatal
  <2>1. /\ deferred # <<>> /\ turn' = "halted" /\ appliedFloor' = viewBase + Block.view
        /\ UNCHANGED <<deferred, inbox, views, viewBase, resumeFloor>>
    BY <1>9 DEF HostFatal, Reaches, Draining, AppHeight
  <2>2. Block = deferred[1] /\ 1 \in DOMAIN deferred
    BY <2>1, FirstBlock DEF AscendInv, HeightInv, LaneTypeOK
  <2>3. Block.view \in views
    BY <2>2 DEF AscendInv, LaneAscends
  <2> QED
    BY <1>h, <2>1, <2>3 DEF AscendInv, LaneAscends, LaneSealable, FloorPlaced
<1>10. ASSUME NEW moved \in BOOLEAN, Execute(moved) PROVE AscendInv'
  BY <1>10, <1>h, TakeFirst DEF Execute, Reaches, Draining, Seal, AscendInv
<1>11. CASE Cutover
  <2>1. /\ deferred' = <<>> /\ inbox' = <<>> /\ viewBase' = viewBase + ceiling
        /\ appliedFloor' = appliedFloor
    BY <1>11 DEF Cutover, NextBase
  <2>2. DOMAIN deferred' = {} /\ DOMAIN inbox' = {}
    BY <2>1
  <2>3. ceiling # 0
    BY <1>11, NodeAssumption DEF Cutover, Due, Armed, AscendInv, HeightInv, LaneTypeOK
  <2>4. appliedFloor < viewBase + ceiling
    BY <2>3 DEF AscendInv, HeightInv, CeilingAbove
  <2>5. appliedFloor' <= viewBase'
    BY <2>1, <2>4 DEF AscendInv, HeightInv, LaneTypeOK
  <2> QED
    BY <1>h, <2>2, <2>5 DEF AscendInv, LaneAscends, LaneSealable, FloorPlaced
<1>12. ASSUME UNCHANGED vars PROVE Quiet
  BY <1>12 DEF vars
<1> QED
  BY <1>q, <1>1, <1>2, <1>3, <1>4, <1>5, <1>6, <1>7, <1>8, <1>9, <1>10, <1>11, <1>12
  DEF Next, Drain

\* If the inbox hands its views over in ascending order, drain_delivered never
\* answers Error::OutOfOrder, so the run loop's fail-stop on it is never
\* taken: not by the re-reports after a restart, not by a block a stall held
\* back, not by the first views of an epoch.
THEOREM NodeNeverOutOfOrder == Spec => []NeverOutOfOrder
<1> DEFINE IInv == Ascending => AscendInv
<1>1. Init => IInv
  BY InitAscend
<1>2. IInv /\ [Next]_vars => IInv'
  BY NextAscend
<1>3. IInv => NeverOutOfOrder
  <2> SUFFICES ASSUME AscendInv, Draining PROVE ~IsOutOfOrder
    BY DEF NeverOutOfOrder
  <2>1. deferred # <<>> /\ turn = "drain"
    BY DEF Draining
  <2>2. /\ Block = deferred[1] /\ 1 \in DOMAIN deferred /\ AppHeight \in Nat
        /\ appliedFloor \in Nat /\ resumeFloor \in Nat
    BY <2>1, FirstBlock DEF AscendInv, HeightInv, LaneTypeOK
  <2>3. AppHeight > appliedFloor \/ AppHeight <= resumeFloor
    BY <2>1, <2>2 DEF AscendInv, LaneSealable, Sealable, AppHeight
  <2> QED
    BY <2>2, <2>3 DEF IsOutOfOrder, IsResumeReplay
<1> HIDE DEF IInv
<1> QED
  BY <1>1, <1>2, <1>3, PTL DEF Spec

--------------------------------------------------------------------------------
(***************************************************************************)
(* Custody: the counters against the map they bound                        *)
(*                                                                         *)
(* The sum of the community modules is a recursive function over the       *)
(* subsets of its index set.  What it unfolds to, and that frames may be   *)
(* taken out of it in any order, is proved by the least counterexample.    *)
(***************************************************************************)
Pick(s) == CHOOSE x \in s : TRUE
Step(g, s) == IF s = {} THEN 0 ELSE SizeOf[Pick(s)] + g[s \ {Pick(s)}]
Folds(g, T) == g = [s \in SUBSET T |-> Step(g, s)]
Folded(T) == CHOOSE g : Folds(g, T)

\* The sum is the fold above, at its whole index set.
LEMMA BytesIsFold ==
    ASSUME NEW T
    PROVE  BytesOf(T) = Folded(T)[T]
BY DEF BytesOf, MapThenSumSet, MapThenFoldSet, Folded, Folds, Step, Pick

\* The element the fold takes next is one of the set.
LEMMA PickIn ==
    ASSUME NEW s, s # {}
    PROVE  Pick(s) \in s
BY DEF Pick

\* A non-empty family of subsets of a finite set has a least member: every
\* induction below takes a least counterexample.
LEMMA LeastSubset ==
    ASSUME NEW S, IsFiniteSet(S), NEW B \in SUBSET SUBSET S, B # {}
    PROVE  \E T \in B : \A U \in B : U \subseteq T => U = T
<1>1. IsWellFoundedOn(StrictSubsetOrdering(S), SUBSET S)
    BY FS_StrictSubsetOrderingWellFounded, FS_FiniteSubsetsOfFinite
<1>2. PICK T \in B : \A U \in B : ~(<<U, T>> \in StrictSubsetOrdering(S))
    BY <1>1, WFMin
<1>. QED
    BY <1>2 DEF StrictSubsetOrdering

\* Two solutions of the recursion agree where both are defined.
LEMMA FoldsAgree ==
    ASSUME NEW S, IsFiniteSet(S), NEW T \in SUBSET S, NEW U \in SUBSET T,
           NEW g, Folds(g, T), NEW h, Folds(h, U)
    PROVE  g[U] = h[U]
<1>. DEFINE B == {s \in SUBSET U : g[s] # h[s]}
<1>1. SUFFICES ASSUME B # {} PROVE FALSE
    OBVIOUS
<1>2. B \in SUBSET SUBSET S
    OBVIOUS
<1>3. PICK s \in B : \A r \in B : r \subseteq s => r = s
    <2>. HIDE DEF B
    <2>. QED BY <1>1, <1>2, LeastSubset
<1>4. g[s] = Step(g, s) /\ h[s] = Step(h, s)
    BY DEF Folds
<1>5. s # {}
    BY <1>4 DEF Step
<1>6. Pick(s) \in s
    BY <1>5, PickIn
<1>7. s \ {Pick(s)} \notin B
    BY <1>3, <1>6
<1>. QED
    BY <1>4, <1>5, <1>7 DEF Step

\* The recursion has a solution on every finite set.
LEMMA FoldsExists ==
    ASSUME NEW S, IsFiniteSet(S)
    PROVE  \A T \in SUBSET S : Folds(Folded(T), T)
<1>. DEFINE B == {T \in SUBSET S : ~\E g : Folds(g, T)}
<1>1. SUFFICES ASSUME B # {} PROVE FALSE
    BY DEF Folded
<1>2. PICK U \in B : \A T \in B : T \subseteq U => T = U
    <2>1. B \in SUBSET SUBSET S
        OBVIOUS
    <2>. HIDE DEF B
    <2>. QED BY <1>1, <2>1, LeastSubset
<1>. DEFINE h(T) == Folded(T)
            g == [T \in SUBSET U |->
                    IF T = U THEN Step([s \in SUBSET U |-> h(s)[s]], U) ELSE h(T)[T]]
<1>3. \A T \in SUBSET U : T # U => Folds(h(T), T)
    BY <1>2 DEF Folded
<1>4. \A T \in SUBSET U : g[T] = Step(g, T)
    <2>. SUFFICES ASSUME NEW T \in SUBSET U PROVE g[T] = Step(g, T)
        OBVIOUS
    <2>1. CASE T = {}
        <3>1. CASE T = U
            BY <2>1, <3>1 DEF Step
        <3>2. CASE T # U
            BY <2>1, <3>2, <1>3 DEF Step, Folds
        <3>. QED BY <3>1, <3>2
    <2>2. CASE T # {}
        <3>. DEFINE r == T \ {Pick(T)}
        <3>1. Pick(T) \in T /\ r \in SUBSET T /\ r # U /\ r \in SUBSET U
            BY <2>2, PickIn
        <3>2. g[r] = h(r)[r]
            BY <3>1
        <3>3. CASE T = U
            BY <2>2, <3>1, <3>2, <3>3 DEF Step
        <3>4. CASE T # U
            <4>1. Folds(h(T), T) /\ Folds(h(r), r)
                BY <1>3, <3>1, <3>4
            <4>2. h(T)[r] = h(r)[r]
                <5>. HIDE DEF h, r
                <5>. QED BY <4>1, <3>1, FoldsAgree
            <4>3. h(T)[T] = Step(h(T), T)
                BY <4>1 DEF Folds
            <4>. QED
                BY <2>2, <3>2, <3>4, <4>2, <4>3 DEF Step
        <3>. QED BY <3>3, <3>4
    <2>. QED BY <2>1, <2>2
<1>5. Folds(g, U)
    BY <1>4 DEF Folds
<1>. QED
    BY <1>2, <1>5

\* The sum unfolds: the picked element and the sum of the rest.
LEMMA BytesUnfold ==
    ASSUME NEW S, IsFiniteSet(S)
    PROVE  BytesOf(S) =
             IF S = {} THEN 0
             ELSE SizeOf[Pick(S)] + BytesOf(S \ {Pick(S)})
<1>. DEFINE r == S \ {Pick(S)}
<1>1. Folds(Folded(S), S) /\ Folds(Folded(r), r)
    BY FoldsExists
<1>2. Folded(S)[S] = Step(Folded(S), S)
    BY <1>1 DEF Folds
<1>3. Folded(S)[r] = Folded(r)[r]
    BY <1>1, FoldsAgree
<1>. QED
    BY <1>2, <1>3, BytesIsFold DEF Step

\* No frames, no bytes.
LEMMA BytesEmpty == BytesOf({}) = 0
BY BytesUnfold, FS_EmptySet

\* A sum of naturals is one.
LEMMA BytesType ==
    ASSUME NEW S, IsFiniteSet(S), \A x \in S : SizeOf[x] \in Nat
    PROVE  \A T \in SUBSET S : BytesOf(T) \in Nat
<1>. DEFINE B == {T \in SUBSET S : BytesOf(T) \notin Nat}
<1>1. SUFFICES ASSUME B # {} PROVE FALSE
    OBVIOUS
<1>2. PICK U \in B : \A T \in B : T \subseteq U => T = U
    <2>1. B \in SUBSET SUBSET S
        OBVIOUS
    <2>. HIDE DEF B
    <2>. QED BY <1>1, <2>1, LeastSubset
<1>. DEFINE r == U \ {Pick(U)}
<1>3. IsFiniteSet(U)
    BY FS_Subset
<1>4. U # {}
    <2>1. BytesOf(U) \notin Nat
        BY <1>2
    <2>. QED
        BY <2>1, BytesEmpty
<1>5. Pick(U) \in U
    BY <1>4, PickIn
<1>6. BytesOf(r) \in Nat
    BY <1>2, <1>5
<1>7. BytesOf(U) = SizeOf[Pick(U)] + BytesOf(r)
    BY <1>3, <1>4, BytesUnfold
<1>. QED
    BY <1>2, <1>5, <1>6, <1>7

\* Any element may be taken first: the sum does not depend on the order.
LEMMA BytesRemove ==
    ASSUME NEW S, IsFiniteSet(S), \A x \in S : SizeOf[x] \in Nat
    PROVE  \A T \in SUBSET S : \A x \in T :
              BytesOf(T) = SizeOf[x] + BytesOf(T \ {x})
<1>. DEFINE P(T) == \A x \in T :
                      BytesOf(T) = SizeOf[x] + BytesOf(T \ {x})
            B == {T \in SUBSET S : ~P(T)}
<1>1. SUFFICES ASSUME B # {} PROVE FALSE
    OBVIOUS
<1>2. PICK U \in B : \A T \in B : T \subseteq U => T = U
    <2>1. B \in SUBSET SUBSET S
        OBVIOUS
    <2>. HIDE DEF B
    <2>. QED BY <1>1, <2>1, LeastSubset
<1>3. PICK x \in U : BytesOf(U) # SizeOf[x] + BytesOf(U \ {x})
    BY <1>2
<1>. DEFINE c == Pick(U)
            sum(T) == BytesOf(T)
<1>4. c \in U /\ sum(U) = SizeOf[c] + sum(U \ {c})
    <2>1. IsFiniteSet(U)
        BY FS_Subset
    <2>. QED BY <2>1, PickIn, BytesUnfold
<1>5. c # x
    BY <1>3, <1>4
<1>6. P(U \ {c}) /\ P(U \ {x})
    BY <1>2, <1>3, <1>4
<1>. DEFINE rest == (U \ {x}) \ {c}
<1>8. (U \ {c}) \ {x} = rest
    OBVIOUS
<1>7. sum(U \ {c}) = SizeOf[x] + sum(rest) /\ sum(U \ {x}) = SizeOf[c] + sum(rest)
    BY <1>3, <1>4, <1>5, <1>6, <1>8
<1>9. sum(rest) \in Nat /\ SizeOf[x] \in Nat /\ SizeOf[c] \in Nat
    BY <1>3, <1>4, BytesType
<1>. HIDE DEF sum, c, P, rest
<1>10. sum(U) = SizeOf[x] + sum(U \ {x})
    BY <1>4, <1>7, <1>9
<1>. QED
    BY <1>3, <1>10 DEF sum

\* Disjoint parts add up.
LEMMA BytesUnion ==
    ASSUME NEW S, IsFiniteSet(S), \A x \in S : SizeOf[x] \in Nat, NEW A \in SUBSET S
    PROVE  \A T \in SUBSET (S \ A) :
              BytesOf(A \cup T) = BytesOf(A) + BytesOf(T)
<1>. DEFINE sum(T) == BytesOf(T)
            B == {T \in SUBSET (S \ A) : sum(A \cup T) # sum(A) + sum(T)}
<1>1. SUFFICES ASSUME B # {} PROVE FALSE
    OBVIOUS
<1>2. PICK U \in B : \A T \in B : T \subseteq U => T = U
    <2>1. B \in SUBSET SUBSET S
        OBVIOUS
    <2>. HIDE DEF B
    <2>. QED BY <1>1, <2>1, LeastSubset
<1>3. sum({}) = 0 /\ sum(A) \in Nat
    BY BytesUnfold, FS_EmptySet, BytesType
<1>4. U # {}
    <2>1. sum(A \cup U) # sum(A) + sum(U)
        BY <1>2
    <2>2. ASSUME U = {} PROVE sum(A \cup U) = sum(A) /\ sum(U) = 0
        <3>1. A \cup U = A
            BY <2>2
        <3>. HIDE DEF sum
        <3>. QED BY <1>3, <2>2, <3>1
    <2>. HIDE DEF sum
    <2>. QED BY <1>3, <2>1, <2>2
<1>5. PICK x \in U : TRUE
    BY <1>4
<1>6. /\ sum(A \cup U) = SizeOf[x] + sum((A \cup U) \ {x})
      /\ sum(U) = SizeOf[x] + sum(U \ {x})
    BY BytesRemove
<1>7. (A \cup U) \ {x} = A \cup (U \ {x})
    OBVIOUS
<1>8. U \ {x} \in SUBSET (S \ A) /\ U \ {x} \notin B
    BY <1>2
<1>9. sum(U \ {x}) \in Nat /\ SizeOf[x] \in Nat
    BY BytesType
<1>. HIDE DEF sum
<1>. QED
    BY <1>2, <1>3, <1>6, <1>7, <1>8, <1>9

\* The frames of one signer.
OfOrigin(X, o) == {f \in X : OriginOf[f] = o}

\* Frames are finitely many, so every set of them has a size and a weight.
LEMMA FramesCount ==
    ASSUME NEW X \in SUBSET Frame, NEW o
    PROVE /\ IsFiniteSet(X) /\ IsFiniteSet(OfOrigin(X, o))
          /\ Cardinality(X) \in Nat /\ Cardinality(OfOrigin(X, o)) \in Nat
          /\ BytesOf(X) \in Nat
<1>1. IsFiniteSet(Frame) /\ \A f \in Frame : SizeOf[f] \in Nat
  BY NodeAssumption
<1>2. IsFiniteSet(X) /\ IsFiniteSet(OfOrigin(X, o))
  BY <1>1, FS_Subset DEF OfOrigin
<1>3. BytesOf(X) \in Nat
  BY <1>1, BytesType
<1> QED
  BY <1>2, <1>3, FS_CardinalityType

\* submit_frame's counters: one frame more.
LEMMA FrameEnters ==
    ASSUME NEW X \in SUBSET Frame, NEW f \in Frame \ X, NEW o
    PROVE /\ Cardinality(X \cup {f}) = Cardinality(X) + 1
          /\ BytesOf(X \cup {f}) = BytesOf(X) + SizeOf[f]
          /\ OriginOf[f] = o =>
               Cardinality(OfOrigin(X \cup {f}, o)) = Cardinality(OfOrigin(X, o)) + 1
          /\ OriginOf[f] # o =>
               Cardinality(OfOrigin(X \cup {f}, o)) = Cardinality(OfOrigin(X, o))
<1> DEFINE Y == X \cup {f}
<1>1. IsFiniteSet(X) /\ IsFiniteSet(OfOrigin(X, o)) /\ Y \in SUBSET Frame /\ f \in Y
  BY FramesCount
<1>2. Y \ {f} = X
  OBVIOUS
<1>3. SizeOf[f] \in Nat /\ BytesOf(X) \in Nat
  BY NodeAssumption, FramesCount
<1>4. BytesOf(Y) = SizeOf[f] + BytesOf(Y \ {f})
  BY <1>1, NodeAssumption, BytesRemove
<1>5. Cardinality(Y) = Cardinality(X) + 1
  BY <1>1, FS_AddElement
<1>6. BytesOf(Y) = BytesOf(X) + SizeOf[f]
  <2>1. BytesOf(Y \ {f}) = BytesOf(X)
    BY <1>2, Zenon
  <2> HIDE DEF Y
  <2> QED
    BY <1>3, <1>4, <2>1
<1>7. OriginOf[f] = o => Cardinality(OfOrigin(Y, o)) = Cardinality(OfOrigin(X, o)) + 1
  <2> SUFFICES ASSUME OriginOf[f] = o
               PROVE Cardinality(OfOrigin(Y, o)) = Cardinality(OfOrigin(X, o)) + 1
    OBVIOUS
  <2>1. OfOrigin(Y, o) = OfOrigin(X, o) \cup {f} /\ f \notin OfOrigin(X, o)
    BY DEF OfOrigin
  <2> HIDE DEF Y
  <2> QED
    BY <1>1, <2>1, FS_AddElement
<1>8. OriginOf[f] # o => OfOrigin(Y, o) = OfOrigin(X, o)
  BY DEF OfOrigin
<1> QED
  BY <1>5, <1>6, <1>7, <1>8

\* release_custody's counters: what is given back is what leaves.
LEMMA FramesLeave ==
    ASSUME NEW X \in SUBSET Frame, NEW R, NEW o
    PROVE /\ Cardinality(X \ R) <= Cardinality(X)
          /\ BytesOf(X) = BytesOf(X \ R) + BytesOf(R \cap X)
          /\ Cardinality(OfOrigin(X, o)) =
               Cardinality(OfOrigin(X \ R, o)) + Cardinality(R \cap OfOrigin(X, o))
          /\ Cardinality(R \cap OfOrigin(X, o)) \in Nat /\ BytesOf(R \cap X) \in Nat
<1>1. IsFiniteSet(X) /\ IsFiniteSet(OfOrigin(X, o)) /\ \A f \in X : SizeOf[f] \in Nat
  BY FramesCount, NodeAssumption
<1>2. Cardinality(X \ R) <= Cardinality(X)
  BY <1>1, FS_Subset
<1>3. BytesOf((X \ R) \cup (R \cap X)) = BytesOf(X \ R) + BytesOf(R \cap X)
  <2>1. R \cap X \in SUBSET (X \ (X \ R)) /\ X \ R \in SUBSET X
    OBVIOUS
  <2> QED
    BY <1>1, <2>1, BytesUnion
<1>4. (X \ R) \cup (R \cap X) = X
  OBVIOUS
<1> DEFINE A == OfOrigin(X \ R, o)
           B == R \cap OfOrigin(X, o)
<1>5. A \cup B = OfOrigin(X, o) /\ A \cap B = {} /\ IsFiniteSet(A) /\ IsFiniteSet(B)
  BY <1>1, FS_Subset DEF OfOrigin
<1>6. /\ Cardinality(A \cup B) = Cardinality(A) + Cardinality(B) - Cardinality(A \cap B)
      /\ Cardinality(A) \in Nat /\ Cardinality(B) \in Nat
  <2> HIDE DEF A, B
  <2> QED
    BY <1>5, FS_Union, FS_CardinalityType
<1>7. Cardinality({}) = 0
  BY FS_EmptySet
<1>8. R \cap X \in SUBSET Frame
  OBVIOUS
<1>9. BytesOf(R \cap X) \in Nat
  BY <1>8, FramesCount
<1>10. Cardinality(OfOrigin(X, o)) = Cardinality(A) + Cardinality(B)
  <2>1. Cardinality(A \cup B) = Cardinality(OfOrigin(X, o)) /\ Cardinality(A \cap B) = 0
    BY <1>5, <1>7, Zenon
  <2> HIDE DEF A, B
  <2> QED
    BY <1>6, <2>1
<1>11. BytesOf(X) = BytesOf(X \ R) + BytesOf(R \cap X)
  BY <1>3, <1>4
<1> QED
  BY <1>2, <1>6, <1>9, <1>10, <1>11

CustodyInv ==
    /\ LaneTypeOK
    /\ custodyBytes \in Nat
    /\ perOrigin \in [Origin -> Nat]
    /\ CustodyAccounted

LEMMA HeldIs == \A o : Held(o) = OfOrigin(outstanding, o)
BY DEF Held, OfOrigin

LEMMA InitCustody == Init => CustodyInv
<1> SUFFICES ASSUME Init PROVE CustodyInv
  OBVIOUS
<1>1. outstanding = {} /\ custodyBytes = 0 /\ perOrigin = [o \in Origin |-> 0]
  BY DEF Init
<1>2. BytesOf({}) = 0 /\ Cardinality({}) = 0
  BY BytesEmpty, FS_EmptySet
<1>3. \A o : Held(o) = {}
  BY <1>1 DEF Held
<1>4. CustodyAccounted
  <2>1. MaxCustodyFrames \in Nat /\ MaxCustodyBytes \in Nat /\ MaxPerOrigin \in Nat
    BY NodeAssumption
  <2>2. \A o \in Origin : perOrigin[o] = 0 /\ perOrigin[o] = Cardinality(Held(o))
    BY <1>1, <1>2, <1>3
  <2>3. custodyBytes = BytesOf(outstanding) /\ Cardinality(outstanding) = 0
    BY <1>1, <1>2
  <2> QED
    BY <1>1, <2>1, <2>2, <2>3 DEF CustodyAccounted
<1> QED
  BY <1>1, <1>4, InitType DEF CustodyInv

LEMMA SubmitCustody ==
    ASSUME CustodyInv, LaneTypeOK', NEW f \in Frame, Submit(f)
    PROVE CustodyInv'
<1>1. /\ outstanding \in SUBSET Frame /\ outstanding' = outstanding \cup {f}
      /\ f \in Frame \ outstanding
      /\ Cardinality(outstanding) < MaxCustodyFrames
      /\ custodyBytes + SizeOf[f] <= MaxCustodyBytes
      /\ custodyBytes' = custodyBytes + SizeOf[f]
      /\ perOrigin[OriginOf[f]] < MaxPerOrigin
      /\ perOrigin' = [perOrigin EXCEPT ![OriginOf[f]] = @ + 1]
  BY DEF Submit, CustodyInv, LaneTypeOK
<1>2. SizeOf[f] \in Nat /\ OriginOf[f] \in Origin /\ MaxCustodyFrames \in Nat /\ MaxPerOrigin \in Nat
  BY NodeAssumption
<1>3. /\ custodyBytes \in Nat /\ perOrigin \in [Origin -> Nat]
      /\ custodyBytes = BytesOf(outstanding)
      /\ \A o \in Origin : /\ perOrigin[o] = Cardinality(OfOrigin(outstanding, o))
                           /\ perOrigin[o] <= MaxPerOrigin
  BY HeldIs DEF CustodyInv, CustodyAccounted
<1>4. /\ Cardinality(outstanding') = Cardinality(outstanding) + 1
      /\ Cardinality(outstanding) \in Nat
      /\ BytesOf(outstanding') = BytesOf(outstanding) + SizeOf[f]
  BY <1>1, FrameEnters, FramesCount
<1>5. ASSUME NEW o \in Origin
      PROVE perOrigin'[o] = Cardinality(OfOrigin(outstanding', o)) /\ perOrigin'[o] <= MaxPerOrigin
  <2>1. Cardinality(OfOrigin(outstanding', o)) =
          IF OriginOf[f] = o THEN Cardinality(OfOrigin(outstanding, o)) + 1
          ELSE Cardinality(OfOrigin(outstanding, o))
    <3>1. /\ OriginOf[f] = o =>
               Cardinality(OfOrigin(outstanding \cup {f}, o)) = Cardinality(OfOrigin(outstanding, o)) + 1
          /\ OriginOf[f] # o =>
               Cardinality(OfOrigin(outstanding \cup {f}, o)) = Cardinality(OfOrigin(outstanding, o))
      <4>1. outstanding \in SUBSET Frame /\ f \in Frame \ outstanding
        BY <1>1
      <4> QED
        BY <4>1, FrameEnters, ZenonT(30)
    <3>2. Cardinality(OfOrigin(outstanding', o)) = Cardinality(OfOrigin(outstanding \cup {f}, o))
      BY <1>1, Zenon
    <3> QED
      BY <3>1, <3>2
  <2>2. perOrigin'[o] = IF OriginOf[f] = o THEN perOrigin[o] + 1 ELSE perOrigin[o]
    BY <1>1, <1>2, <1>3
  <2>3. perOrigin[o] \in Nat
    BY <1>3
  <2> QED
    BY <1>1, <1>2, <1>3, <2>1, <2>2, <2>3
<1>6. \A o : Held(o)' = OfOrigin(outstanding', o)
  BY DEF Held, OfOrigin
<1>7. perOrigin' \in [Origin -> Nat] /\ custodyBytes' \in Nat
  BY <1>1, <1>2, <1>3
<1>8. custodyBytes' = BytesOf(outstanding') /\ custodyBytes' <= MaxCustodyBytes
  BY <1>1, <1>3, <1>4
<1>9. Cardinality(outstanding') <= MaxCustodyFrames
  BY <1>1, <1>2, <1>4
<1>10. CustodyAccounted'
  BY <1>5, <1>6, <1>8, <1>9 DEF CustodyAccounted
<1> QED
  BY <1>7, <1>10 DEF CustodyInv

LEMMA ReleaseKeepsCustody ==
    ASSUME CustodyInv, LaneTypeOK', NEW R, ReleaseCustody(R)
    PROVE CustodyInv'
<1>1. /\ outstanding \in SUBSET Frame /\ outstanding' = outstanding \ R
      /\ custodyBytes' = custodyBytes - BytesOf(R \cap outstanding)
      /\ perOrigin' = [o \in Origin |-> perOrigin[o] - Cardinality(R \cap OfOrigin(outstanding, o))]
  BY HeldIs DEF ReleaseCustody, CustodyInv, LaneTypeOK
<1>2. /\ custodyBytes \in Nat /\ perOrigin \in [Origin -> Nat]
      /\ custodyBytes = BytesOf(outstanding)
      /\ custodyBytes <= MaxCustodyBytes
      /\ Cardinality(outstanding) <= MaxCustodyFrames
      /\ MaxCustodyFrames \in Nat /\ MaxCustodyBytes \in Nat /\ MaxPerOrigin \in Nat
      /\ \A o \in Origin : /\ perOrigin[o] = Cardinality(OfOrigin(outstanding, o))
                           /\ perOrigin[o] <= MaxPerOrigin
  BY HeldIs, NodeAssumption DEF CustodyInv, CustodyAccounted
<1>3. /\ Cardinality(outstanding') <= Cardinality(outstanding)
      /\ Cardinality(outstanding) \in Nat /\ Cardinality(outstanding') \in Nat
      /\ BytesOf(outstanding) = BytesOf(outstanding') + BytesOf(R \cap outstanding)
      /\ BytesOf(R \cap outstanding) \in Nat /\ BytesOf(outstanding') \in Nat
  <2>1. outstanding' \in SUBSET Frame
    BY <1>1
  <2> QED
    BY <1>1, <2>1, FramesLeave, FramesCount
<1>4. ASSUME NEW o \in Origin
      PROVE /\ perOrigin'[o] = Cardinality(OfOrigin(outstanding', o)) /\ perOrigin'[o] <= MaxPerOrigin
            /\ perOrigin'[o] \in Nat
  <2>1. /\ Cardinality(OfOrigin(outstanding, o)) =
             Cardinality(OfOrigin(outstanding', o)) + Cardinality(R \cap OfOrigin(outstanding, o))
        /\ Cardinality(R \cap OfOrigin(outstanding, o)) \in Nat
        /\ Cardinality(OfOrigin(outstanding', o)) \in Nat
    <3>1. outstanding \ R \in SUBSET Frame
      BY <1>1
    <3>2. /\ Cardinality(OfOrigin(outstanding, o)) =
               Cardinality(OfOrigin(outstanding \ R, o))
                 + Cardinality(R \cap OfOrigin(outstanding, o))
          /\ Cardinality(R \cap OfOrigin(outstanding, o)) \in Nat
          /\ Cardinality(OfOrigin(outstanding \ R, o)) \in Nat
      <4>1. outstanding \in SUBSET Frame
        BY <1>1
      <4> QED
        BY <3>1, <4>1, FramesLeave, FramesCount, Zenon
    <3>3. Cardinality(OfOrigin(outstanding', o)) = Cardinality(OfOrigin(outstanding \ R, o))
      BY <1>1, Zenon
    <3> QED
      BY <3>2, <3>3
  <2>2. perOrigin'[o] = perOrigin[o] - Cardinality(R \cap OfOrigin(outstanding, o))
    BY <1>1
  <2> QED
    BY <1>2, <2>1, <2>2
<1>5. \A o : Held(o)' = OfOrigin(outstanding', o)
  BY DEF Held, OfOrigin
<1>6. perOrigin' \in [Origin -> Nat]
  BY <1>1, <1>4
<1>7. custodyBytes' = BytesOf(outstanding') /\ custodyBytes' <= MaxCustodyBytes
  BY <1>1, <1>2, <1>3
<1>8. Cardinality(outstanding') <= MaxCustodyFrames
  BY <1>2, <1>3
<1>9. CustodyAccounted'
  BY <1>4, <1>5, <1>7, <1>8 DEF CustodyAccounted
<1>10. custodyBytes' \in Nat
  BY <1>3, <1>7
<1> QED
  BY <1>6, <1>9, <1>10 DEF CustodyInv

LEMMA NextCustody == CustodyInv /\ [Next]_vars => CustodyInv'
<1> SUFFICES ASSUME CustodyInv, [Next]_vars PROVE CustodyInv'
  OBVIOUS
<1>t. LaneTypeOK'
  BY NextType DEF CustodyInv
<1> DEFINE Quiet == UNCHANGED <<outstanding, custodyBytes, perOrigin>>
<1>q. Quiet => CustodyInv'
  BY <1>t DEF CustodyInv, CustodyAccounted, Held
<1> USE DEF custodyVars
<1>1. ASSUME NEW f \in Frame, Submit(f) PROVE CustodyInv'
  BY <1>1, <1>t, SubmitCustody
<1>2. ASSUME BeginFlush \/ ProposeBatch \/ EndFlush PROVE Quiet
  BY <1>2 DEF BeginFlush, ProposeBatch, EndFlush
<1>3. ASSUME NEW v \in View, NEW b \in Foreign \cup Elems(queue) \cup Elems(Recovered),
             Certify(v, b)
      PROVE Quiet
  BY <1>3 DEF Certify
<1>4. ASSUME BeginDrain \/ SkipResumeReplay \/ RefuseOutOfOrder \/ Discard PROVE Quiet
  BY <1>4 DEF BeginDrain, SkipResumeReplay, RefuseOutOfOrder, Discard, PassOver
<1>5. ASSUME SealRefused \/ Stall \/ HostFatal \/ EndDrain PROVE Quiet
  BY <1>5 DEF SealRefused, Stall, HostFatal, EndDrain
<1>6. ASSUME NEW moved \in BOOLEAN, Execute(moved) PROVE CustodyInv'
  BY <1>6, <1>t, ReleaseKeepsCustody DEF Execute
<1>7. ASSUME Observe \/ Cutover \/ Demoted PROVE Quiet
  BY <1>7 DEF Observe, Cutover, Demoted
<1>8. ASSUME UNCHANGED vars PROVE Quiet
  BY <1>8 DEF vars
<1> QED
  BY <1>q, <1>1, <1>2, <1>3, <1>4, <1>5, <1>6, <1>7, <1>8 DEF Next, Drain

\* The counters that submit_frame compares with the mempool caps are those of
\* the custody map, and the map is within the caps, whatever clients retry,
\* foreign batches release and cutovers carry.
THEOREM NodeCustodyAccounted == Spec => []CustodyAccounted
<1>1. Init => CustodyInv
  BY InitCustody
<1>2. CustodyInv /\ [Next]_vars => CustodyInv'
  BY NextCustody
<1>3. CustodyInv => CustodyAccounted
  BY DEF CustodyInv
<1> QED
  BY <1>1, <1>2, <1>3, PTL DEF Spec

--------------------------------------------------------------------------------
(***************************************************************************)
(* The replay window                                                       *)
(***************************************************************************)
\* What the newest entries of a queue are.
LEMMA NewestIs ==
    ASSUME NEW S, NEW q \in Seq(S), NEW n \in Nat \ {0}
    PROVE /\ Newest(q, n) \in Seq(S)
          /\ Len(Newest(q, n)) = IF Len(q) > n THEN n ELSE Len(q)
          /\ \A i \in 1..Len(Newest(q, n)) :
                Newest(q, n)[i] = q[Len(q) - Len(Newest(q, n)) + i]
<1> DEFINE k == Len(q)
           a == IF k > n THEN k - n + 1 ELSE 1
           s == SubSeq(q, a, k)
<1>1. k \in Nat /\ a \in Nat /\ a >= 1 /\ a <= k + 1
  OBVIOUS
<1>2. /\ s \in Seq(S)
      /\ Len(s) = IF a <= k THEN k - a + 1 ELSE 0
      /\ \A i \in 1..Len(s) : s[i] = q[a + i - 1]
  <2>1. \A i \in a..k : q[i] \in S
    BY <1>1
  <2> QED
    BY <1>1, <2>1, SubSeqProperties
<1> DEFINE l == Len(s)
<1>3. l = (IF k > n THEN n ELSE k) /\ a - 1 = k - l /\ l \in Nat
  <2>1. l = IF a <= k THEN k - a + 1 ELSE 0
    BY <1>2
  <2> HIDE DEF l, k
  <2>2. CASE k > n
    <3>1. a = k - n + 1
      BY <2>2
    <3> HIDE DEF a
    <3> QED
      BY <1>1, <2>1, <2>2, <3>1
  <2>3. CASE ~(k > n)
    <3>1. a = 1
      BY <2>3
    <3> HIDE DEF a
    <3> QED
      BY <1>1, <2>1, <2>3, <3>1
  <2> QED
    BY <2>2, <2>3
<1>4. \A i \in 1..Len(s) : s[i] = q[k - Len(s) + i]
  <2> SUFFICES ASSUME NEW i \in 1..Len(s) PROVE s[i] = q[k - Len(s) + i]
    OBVIOUS
  <2>1. s[i] = q[a + i - 1]
    BY <1>2
  <2>2. a + i - 1 = k - Len(s) + i
    <3>1. i \in Nat
      BY <1>3
    <3> HIDE DEF l, a, k
    <3> QED
      BY <1>1, <1>3, <3>1 DEF l
  <2> QED
    BY <2>1, <2>2
<1>5. Newest(q, n) = s
  BY DEF Newest
<1> QED
  BY <1>2, <1>3, <1>4, <1>5

\* The window is the batches of the blocks sealed last.
WindowIs ==
    /\ window \in Seq(Batch)
    /\ Len(window) = IF Len(chain) > WindowHeights THEN WindowHeights ELSE Len(chain)
    /\ \A i \in 1..Len(window) : window[i] = chain[Len(chain) - Len(window) + i].batch

WindowInv == LaneTypeOK /\ WindowIs /\ NoReplayInWindow

\* The same of the blocks sealed before this process started.
RecoveredOnce ==
    \A i, j \in DOMAIN Recovered :
        i < j /\ Recovered[i] = Recovered[j] => j - i > WindowHeights

LEMMA InitWindow == ASSUME RecoveredOnce PROVE Init => WindowInv
<1> SUFFICES ASSUME Init PROVE WindowInv
  OBVIOUS
<1> DEFINE n == Len(Recovered)
<1>1. Recovered \in Seq(Batch) /\ n \in Nat /\ DOMAIN Recovered = 1..n
  <2>1. n \in Nat /\ DOMAIN Recovered = 1..n /\ \A i \in 1..n : Recovered[i] \in Batch
    BY NodeAssumption DEF Batch
  <2>2. Recovered = [i \in 1..n |-> Recovered[i]]
    BY NodeAssumption
  <2>3. Recovered \in [1..n -> Batch]
    BY <2>1, <2>2
  <2> QED
    BY <2>1, <2>3
<1>2. LaneTypeOK
  BY InitType
<1>3. DOMAIN chain = 1..n /\ \A i \in 1..n : chain[i].batch = Recovered[i]
  BY <1>1 DEF Init
<1>4. Len(chain) = n
  BY <1>1, <1>2, <1>3 DEF LaneTypeOK
<1>5. window = Newest(Recovered, WindowHeights) /\ WindowHeights \in Nat \ {0}
  BY NodeAssumption DEF Init
<1>6. /\ window \in Seq(Batch) /\ Len(window) = IF n > WindowHeights THEN WindowHeights ELSE n
      /\ \A i \in 1..Len(window) : window[i] = Recovered[n - Len(window) + i]
  BY <1>1, <1>5, NewestIs
<1> HIDE DEF n
<1>7. WindowIs
  <2> SUFFICES ASSUME NEW i \in 1..Len(window)
               PROVE window[i] = chain[n - Len(window) + i].batch
    BY <1>4, <1>6 DEF WindowIs
  <2>1. n - Len(window) + i \in 1..n
    BY <1>1, <1>5, <1>6
  <2> QED
    BY <1>3, <1>6, <2>1
<1>8. NoReplayInWindow
  BY <1>1, <1>3 DEF NoReplayInWindow, RecoveredOnce
<1> QED
  BY <1>2, <1>7, <1>8 DEF WindowInv

\* A block is sealed: run only if the window does not hold its batch.
LEMMA SealWindow ==
    ASSUME WindowInv, deferred # <<>>, NEW ran \in BOOLEAN, Seal(ran), ran => ~IsReplayed
    PROVE WindowIs' /\ NoReplayInWindow'
<1> DEFINE n == Len(chain)
           w == Len(window)
           b == Block.batch
           e == [epoch |-> epoch, height |-> AppHeight, batch |-> b, ran |-> ran]
           q == Append(window, b)
           W == WindowHeights
<1>1. /\ window \in Seq(Batch) /\ w = IF n > W THEN W ELSE n
      /\ \A i \in 1..w : window[i] = chain[n - w + i].batch
      /\ chain \in Seq(SealedBlock) /\ n \in Nat /\ w \in Nat
      /\ DOMAIN chain = 1..n /\ DOMAIN window = 1..w /\ W \in Nat \ {0}
  <2>1. W \in Nat \ {0} /\ WindowIs /\ chain \in Seq(SealedBlock)
    BY NodeAssumption DEF WindowInv, LaneTypeOK
  <2>2. n \in Nat /\ DOMAIN chain = 1..n
    BY <2>1
  <2>3. window \in Seq(Batch) /\ w \in Nat /\ DOMAIN window = 1..w
    BY <2>1 DEF WindowIs
  <2> QED
    BY <2>1, <2>2, <2>3 DEF WindowIs
<1>2. b \in Batch /\ e \in SealedBlock /\ e.batch = b /\ e.ran = ran
  BY FirstBlock DEF WindowInv, Delivery, SealedBlock, LaneTypeOK
<1>3. chain' = Append(chain, e) /\ window' = Newest(q, W)
  BY DEF Seal
<1> HIDE DEF b, e
<1>4. /\ Len(chain') = n + 1 /\ DOMAIN chain' = 1..(n + 1) /\ chain'[n + 1] = e
      /\ \A i \in 1..n : chain'[i] = chain[i]
  BY <1>1, <1>2, <1>3, AppendProperties
<1>5. /\ q \in Seq(Batch) /\ Len(q) = w + 1 /\ q[w + 1] = b
      /\ \A i \in 1..w : q[i] = window[i]
  BY <1>1, <1>2, AppendProperties
<1> HIDE DEF q
<1>6. /\ window' \in Seq(Batch) /\ Len(window') = IF w + 1 > W THEN W ELSE w + 1
      /\ \A i \in 1..Len(window') : window'[i] = q[w + 1 - Len(window') + i]
  BY <1>1, <1>3, <1>5, NewestIs, SMTT(30)
<1> HIDE DEF n, w, W
<1>7. WindowIs'
  <2> DEFINE m == Len(window')
  <2>1. m = IF n + 1 > W THEN W ELSE n + 1
    BY <1>1, <1>6
  <2>2. m \in Nat /\ m <= w + 1 /\ m <= n + 1
    BY <1>1, <1>6
  <2> HIDE DEF m
  <2>3. ASSUME NEW i \in 1..m PROVE window'[i] = chain'[n + 1 - m + i].batch
    <3> DEFINE j == w + 1 - m + i
               c == n + 1 - m + i
    <3>1. j \in 1..(w + 1) /\ c \in 1..(n + 1) /\ c - (n + 1) = j - (w + 1)
      BY <1>1, <2>2
    <3>2. window'[i] = q[j]
      BY <1>6 DEF m
    <3>3. CASE j = w + 1
      <4>1. c = n + 1
        <5>1. n \in Nat /\ w \in Nat /\ c \in Nat /\ j \in Nat
          BY <1>1, <3>1
        <5> HIDE DEF j, c
        <5> QED
          BY <3>1, <3>3, <5>1
      <4> QED
        BY <1>2, <1>4, <1>5, <3>2, <3>3, <4>1
    <3>4. CASE j # w + 1
      <4>1. j \in 1..w /\ c \in 1..n /\ c = n - w + j
        <5> HIDE DEF j, c
        <5> QED
          BY <1>1, <3>1, <3>4
      <4>2. q[j] = window[j] /\ chain'[c] = chain[c] /\ window[j] = chain[n - w + j].batch
        <5> HIDE DEF j, c
        <5> QED
          BY <1>1, <1>4, <1>5, <4>1
      <4> QED
        BY <3>2, <4>1, <4>2
    <3> QED
      BY <3>3, <3>4
  <2>4. Len(window') = m /\ W = WindowHeights /\ Len(chain') = n + 1
    BY <1>4 DEF m, W
  <2>5. Len(window') = IF Len(chain') > WindowHeights THEN WindowHeights ELSE Len(chain')
    BY <2>1, <2>4, Zenon
  <2>6. \A i \in 1..Len(window') : window'[i] = chain'[Len(chain') - Len(window') + i].batch
    <3>1. \A i \in 1..m : window'[i] = chain'[n + 1 - m + i].batch
      BY <2>3
    <3> SUFFICES ASSUME NEW i \in 1..Len(window')
                 PROVE window'[i] = chain'[Len(chain') - Len(window') + i].batch
      OBVIOUS
    <3>2. i \in 1..m
      BY <2>4
    <3>3. Len(chain') - Len(window') + i = n + 1 - m + i
      BY <1>1, <2>2, <2>4, <3>2
    <3> QED
      BY <3>1, <3>2, <3>3
  <2> QED
    BY <1>6, <2>5, <2>6, Zenon DEF WindowIs
<1>8. NoReplayInWindow'
  <2> SUFFICES ASSUME NEW i \in 1..(n + 1), NEW j \in 1..(n + 1), i < j,
                      chain'[i].ran, chain'[j].ran, chain'[i].batch = chain'[j].batch
               PROVE j - i > W
    BY <1>4 DEF NoReplayInWindow, Ran, W
  <2>1. i \in 1..n
    BY <1>1
  <2>2. CASE j \in 1..n
    BY <1>1, <1>4, <2>1, <2>2 DEF WindowInv, NoReplayInWindow, Ran, W
  <2>3. CASE j = n + 1
    <3>1. ran /\ chain[i].batch = b
      BY <1>2, <1>4, <2>1, <2>3
    <3>2. \A k \in 1..w : window[k] # b
      BY <1>1, <3>1 DEF IsReplayed, Elems, b
    <3>3. ASSUME j - i <= W PROVE FALSE
      <4> DEFINE k == i - n + w
      <4>1. i > n - w
        BY <1>1, <2>1, <2>3, <3>3
      <4>2. k \in 1..w /\ n - w + k = i
        BY <1>1, <2>1, <4>1
      <4> QED
        BY <1>1, <3>1, <3>2, <4>2
    <3>4. i \in Nat /\ j \in Nat /\ W \in Nat
      BY <1>1
    <3> QED
      BY <3>3, <3>4
  <2>4. j \in 1..n \/ j = n + 1
    BY <1>1
  <2> QED
    BY <2>2, <2>3, <2>4
<1> QED
  BY <1>7, <1>8

LEMMA NextWindow == WindowInv /\ [Next]_vars => WindowInv'
<1> SUFFICES ASSUME WindowInv, [Next]_vars PROVE WindowInv'
  OBVIOUS
<1>t. LaneTypeOK'
  BY NextType DEF WindowInv
<1> DEFINE Quiet == UNCHANGED <<window, chain>>
<1>q. Quiet => WindowInv'
  BY <1>t DEF WindowInv, WindowIs, NoReplayInWindow, Ran
<1> USE DEF drainVars
<1>1. ASSUME NEW f \in Frame, Submit(f) PROVE Quiet
  BY <1>1 DEF Submit
<1>2. ASSUME BeginFlush \/ ProposeBatch \/ EndFlush PROVE Quiet
  BY <1>2 DEF BeginFlush, ProposeBatch, EndFlush
<1>3. ASSUME NEW v \in View, NEW b \in Foreign \cup Elems(queue) \cup Elems(Recovered),
             Certify(v, b)
      PROVE Quiet
  BY <1>3 DEF Certify
<1>4. ASSUME BeginDrain \/ SkipResumeReplay \/ RefuseOutOfOrder \/ Discard PROVE Quiet
  BY <1>4 DEF BeginDrain, SkipResumeReplay, RefuseOutOfOrder, Discard, PassOver
<1>5. CASE SealRefused
  BY <1>5, <1>t, SealWindow DEF SealRefused, Reaches, Draining, WindowInv
<1>6. ASSUME Stall \/ HostFatal \/ EndDrain PROVE Quiet
  BY <1>6 DEF Stall, HostFatal, EndDrain
<1>7. ASSUME NEW moved \in BOOLEAN, Execute(moved) PROVE WindowInv'
  BY <1>7, <1>t, SealWindow DEF Execute, Reaches, Draining, WindowInv
<1>8. ASSUME Observe \/ Cutover \/ Demoted PROVE Quiet
  BY <1>8 DEF Observe, Cutover, Demoted
<1>9. ASSUME UNCHANGED vars PROVE Quiet
  BY <1>9 DEF vars
<1> QED
  BY <1>q, <1>1, <1>2, <1>3, <1>4, <1>5, <1>6, <1>7, <1>8, <1>9 DEF Next, Drain

\* A batch of bytes that ran does not run again within the window's heights,
\* across cutovers, which reset the engine's own gate, and across the restart,
\* as long as the blocks recovered at it had run by the same rule.
THEOREM NodeNoReplayInWindow == ASSUME RecoveredOnce PROVE Spec => []NoReplayInWindow
<1>1. Init => WindowInv
  BY InitWindow
<1>2. WindowInv /\ [Next]_vars => WindowInv'
  BY NextWindow
<1>3. WindowInv => NoReplayInWindow
  BY DEF WindowInv
<1> QED
  BY <1>1, <1>2, <1>3, PTL DEF Spec

--------------------------------------------------------------------------------
(***************************************************************************)
(* The boundary is the tip once nothing waits                              *)
(*                                                                         *)
(* A stall returns before the boundary is assigned.  What saves it is that *)
(* the block it stalled at will be sealed, and no cutover clears it away:  *)
(* it lies below the ceiling, and the engine clock, which the stalled pass *)
(* did not move, has not reached the ceiling either.                       *)
(***************************************************************************)
Tip == chain[Len(chain)].height

TipServed == finalized = Tip /\ pass.sealed = 0

TipPassed ==
    /\ turn = "drain" /\ pass.sealed # 0
    /\ Tip = viewBase + pass.sealed /\ finalized < Tip

TipWaits ==
    /\ turn = "drain" => pass.sealed = 0 /\ ~pass.broke
    /\ deferred # <<>>
    /\ AppHeight > resumeFloor /\ AppHeight > appliedFloor
    /\ ceiling # 0 => Block.view < ceiling /\ lastEngineView < ceiling
    /\ changed => ceiling # 0

TipPlaced == turn # "halted" /\ chain # <<>> => TipServed \/ TipPassed \/ TipWaits

\* A reached ceiling is acted on in the same tick.
ClockBelowCeiling ==
    turn \in {"idle", "flush", "drain"} /\ ceiling # 0 => lastEngineView < ceiling

TipInv == BoundaryInv /\ ClockBelowCeiling /\ TipPlaced

LEMMA InitTip == Init => TipInv
<1> SUFFICES ASSUME Init PROVE TipInv
  OBVIOUS
<1>1. Len(Recovered) \in Nat /\ DOMAIN Recovered = 1..Len(Recovered) /\ LaneTypeOK
  BY NodeAssumption, InitType
<1>2. DOMAIN chain = 1..Len(Recovered) /\ \A i \in 1..Len(Recovered) : chain[i].height = i
  BY <1>1 DEF Init
<1>3. Len(chain) = Len(Recovered) /\ chain \in Seq(SealedBlock)
  BY <1>1, <1>2 DEF LaneTypeOK
<1>4. chain # <<>> => Len(chain) \in 1..Len(Recovered)
  BY <1>1, <1>3, EmptySeq
<1>5. finalized = Len(Recovered) /\ pass.sealed = 0 /\ ceiling = 0
  BY DEF Init, NoPass
<1>6. TipPlaced
  BY <1>2, <1>3, <1>4, <1>5 DEF TipPlaced, TipServed, Tip
<1> QED
  BY <1>5, <1>6, InitBoundary DEF TipInv, ClockBelowCeiling

\* A block is sealed, above the boundary served so far.
LEMMA SealTip ==
    ASSUME BoundaryInv, Reaches, NEW ran \in BOOLEAN, Seal(ran),
           UNCHANGED <<turn, viewBase, finalized>>, pass'.sealed = Block.view
    PROVE TipPassed'
<1>1. LaneTypeOK /\ deferred # <<>> /\ turn = "drain"
  BY DEF BoundaryInv, HeightInv, Reaches, Draining
<1>2. /\ Block.view \in Nat /\ Block.view >= 1 /\ AppHeight \in Nat
      /\ AppHeight = viewBase + Block.view /\ AppHeight > appliedFloor
  BY <1>1, FirstBlock DEF Reaches, Draining, IsResumeReplay, IsOutOfOrder, AppHeight, LaneTypeOK
<1>3. appliedFloor \in Nat /\ finalized \in Nat /\ viewBase \in Nat /\ chain \in Seq(SealedBlock)
  BY <1>1 DEF LaneTypeOK
<1>4. finalized < AppHeight
  <2>1. finalized # 0 => finalized <= appliedFloor
    BY DEF BoundaryInv, FinalizedSealed, HeightInv, ChainBelowFloor
  <2>2. AppHeight > 0
    BY <1>2, <1>3
  <2> QED
    BY <1>2, <1>3, <2>1, <2>2
<1> DEFINE e == [epoch |-> epoch, height |-> AppHeight, batch |-> Block.batch, ran |-> ran]
<1>5. e.height = AppHeight /\ e \in SealedBlock
  BY <1>1, <1>2, FirstBlock DEF SealedBlock, Delivery, LaneTypeOK
<1>6. chain' = Append(chain, e)
  BY DEF Seal
<1> HIDE DEF e
<1>7. chain'[Len(chain')] = e
  BY <1>3, <1>5, <1>6, AppendProperties
<1>8. Tip' = AppHeight
  BY <1>5, <1>7 DEF Tip
<1> QED
  BY <1>1, <1>2, <1>4, <1>8 DEF TipPassed

LEMMA NextTip == TipInv /\ [Next]_vars => TipInv'
<1> SUFFICES ASSUME TipInv, [Next]_vars PROVE TipInv'
  OBVIOUS
<1>b. BoundaryInv' /\ BoundaryInv /\ LaneTypeOK
  BY NextBoundary DEF TipInv, BoundaryInv, HeightInv
<1> DEFINE Same == UNCHANGED <<chain, finalized, deferred, ceiling, changed, pass, viewBase,
                               resumeFloor, appliedFloor, lastEngineView>>
           Quiet == /\ Same
                    /\ \/ turn' = turn
                       \/ turn' = "halted"
                       \/ turn \in {"idle", "flush"} /\ turn' \in {"idle", "flush"}
<1>q. Quiet => TipInv'
  <2> SUFFICES ASSUME Quiet PROVE TipInv'
    OBVIOUS
  <2>1. UNCHANGED <<Tip, Block, AppHeight>>
    BY DEF Tip, Block, AppHeight
  <2>2. TipPlaced'
    BY <2>1 DEF TipInv, TipPlaced, TipServed, TipPassed, TipWaits
  <2> QED
    BY <1>b, <2>2 DEF TipInv, ClockBelowCeiling
<1> USE DEF custodyVars, engineVars, epochVars, boundary, drainVars
<1>1. ASSUME NEW f \in Frame, Submit(f) PROVE Quiet
  BY <1>1 DEF Submit
<1>2. ASSUME BeginFlush \/ ProposeBatch \/ EndFlush PROVE Quiet
  BY <1>2 DEF BeginFlush, ProposeBatch, EndFlush
<1>3. ASSUME NEW v \in View, NEW b \in Foreign \cup Elems(queue) \cup Elems(Recovered),
             Certify(v, b)
      PROVE Quiet
  BY <1>3 DEF Certify
<1>4. CASE BeginDrain
  <2>1. /\ turn = "idle" /\ turn' = "drain" /\ deferred' = deferred \o inbox
        /\ pass'.sealed = 0 /\ ~pass'.broke
        /\ UNCHANGED <<chain, finalized, ceiling, changed, viewBase, resumeFloor, appliedFloor,
                       lastEngineView>>
    BY <1>4 DEF BeginDrain, NoPass
  <2>2. deferred \in Seq(Delivery) /\ inbox \in Seq(Delivery)
    BY <1>b DEF LaneTypeOK
  <2>3. deferred # <<>> => deferred' # <<>> /\ Head(deferred') = Head(deferred)
    <3>1. deferred # <<>> => Len(deferred) >= 1 /\ Len(deferred) \in Nat
      BY <2>2, EmptySeq
    <3> QED
      BY <2>1, <2>2, <3>1
  <2>4. Tip' = Tip
    BY <2>1 DEF Tip
  <2>5. TipPlaced'
    BY <2>1, <2>3, <2>4 DEF TipInv, TipPlaced, TipServed, TipPassed, TipWaits, AppHeight, Block
  <2> QED
    BY <1>b, <2>1, <2>5 DEF TipInv, ClockBelowCeiling
<1>5. CASE SkipResumeReplay \/ Discard
  <2>1. /\ ~TipWaits
    <3>1. Draining /\ (IsResumeReplay \/ IsDiscarded)
      BY <1>5 DEF SkipResumeReplay, Discard, Reaches
    <3>2. AppHeight \in Nat /\ Block.view \in Nat /\ resumeFloor \in Nat /\ ceiling \in Nat
      BY <1>b, <3>1, FirstBlock DEF Draining, LaneTypeOK
    <3> QED
      BY <3>1, <3>2 DEF TipWaits, IsResumeReplay, IsDiscarded
  <2>2. /\ UNCHANGED <<chain, finalized, turn, viewBase, ceiling, lastEngineView>>
        /\ pass' = [pass EXCEPT !.last = Block.view]
    BY <1>5 DEF SkipResumeReplay, Discard, PassOver
  <2>3. pass'.sealed = pass.sealed
    BY <1>b, <2>2 DEF LaneTypeOK
  <2>4. Tip' = Tip
    BY <2>2 DEF Tip
  <2>5. TipPlaced'
    BY <2>1, <2>2, <2>3, <2>4 DEF TipInv, TipPlaced, TipServed, TipPassed
  <2> QED
    BY <1>b, <2>2, <2>5 DEF TipInv, ClockBelowCeiling
<1>6. CASE SealRefused
  <2>1. /\ Reaches /\ Seal(FALSE) /\ UNCHANGED <<turn, viewBase, finalized, ceiling, lastEngineView>>
        /\ pass' = [pass EXCEPT !.last = Block.view, !.sealed = Block.view]
    BY <1>6 DEF SealRefused
  <2>2. pass'.sealed = Block.view
    BY <1>b, <2>1 DEF LaneTypeOK
  <2>3. TipPassed'
    BY <1>b, <2>1, <2>2, SealTip
  <2> QED
    BY <1>b, <2>1, <2>3 DEF TipInv, TipPlaced, ClockBelowCeiling
<1>7. CASE Stall
  <2>1. /\ Reaches /\ ~IsDiscarded /\ turn = "drain" /\ turn' = "tick" /\ pass'.sealed = 0
        /\ ~pass.broke /\ deferred # <<>>
        /\ UNCHANGED <<chain, finalized, deferred, ceiling, changed, viewBase, resumeFloor,
                       appliedFloor, lastEngineView>>
    BY <1>7 DEF Stall, NoPass, Reaches, Draining
  <2>2. UNCHANGED <<Tip, Block, AppHeight>>
    BY <2>1 DEF Tip, Block, AppHeight
  <2>3. AppHeight > resumeFloor /\ AppHeight > appliedFloor
    BY <1>b, <2>1, FirstBlock DEF Reaches, IsResumeReplay, IsOutOfOrder, LaneTypeOK
  <2>4. ceiling # 0 => Block.view < ceiling /\ lastEngineView < ceiling
    BY <1>b, <2>1, FirstBlock DEF IsDiscarded, LaneTypeOK, TipInv, ClockBelowCeiling
  <2>5. changed => ceiling # 0
    BY <1>b, <2>1 DEF BoundaryInv, HeightInv, ChangeIsObserved
  <2>6. TipWaits'
    BY <2>1, <2>2, <2>3, <2>4, <2>5 DEF TipWaits
  <2> QED
    BY <1>b, <2>1, <2>6 DEF TipInv, TipPlaced, ClockBelowCeiling
<1>8. CASE RefuseOutOfOrder \/ HostFatal \/ Demoted
  BY <1>b, <1>8 DEF RefuseOutOfOrder, HostFatal, Demoted, TipInv, TipPlaced, ClockBelowCeiling
<1>9. CASE EndDrain
  <2>1. /\ turn = "drain" /\ turn' = "tick" /\ (deferred = <<>> \/ pass.broke)
        /\ UNCHANGED <<chain, viewBase>> /\ pass'.sealed = 0
    BY <1>9 DEF EndDrain, NoPass
  <2>2. Tip' = Tip
    BY <2>1 DEF Tip
  <2>3. TipServed => finalized' = finalized
    BY <1>9 DEF TipServed, EndDrain, BoundaryView
  <2>4. TipPassed => finalized' = Tip
    BY <1>9 DEF TipPassed, EndDrain, BoundaryView
  <2>5. ~TipWaits
    BY <2>1 DEF TipWaits
  <2>6. TipPlaced'
    BY <2>1, <2>2, <2>3, <2>4, <2>5 DEF TipInv, TipPlaced, TipServed
  <2> QED
    BY <1>b, <2>1, <2>6 DEF TipInv, ClockBelowCeiling
<1>10. ASSUME NEW moved \in BOOLEAN, Execute(moved) PROVE TipInv'
  <2>1. /\ Reaches /\ Seal(TRUE) /\ UNCHANGED <<turn, viewBase, finalized, ceiling, lastEngineView>>
        /\ pass'.sealed = Block.view
    BY <1>10 DEF Execute
  <2>2. TipPassed'
    BY <1>b, <2>1, SealTip
  <2> QED
    BY <1>b, <2>1, <2>2 DEF TipInv, TipPlaced, ClockBelowCeiling
<1>11. CASE Observe
  <2>1. /\ turn = "tick" /\ turn' = "idle" /\ ~Due /\ ceiling' = Armed
        /\ UNCHANGED <<chain, finalized, deferred, changed, pass, viewBase, resumeFloor,
                       appliedFloor, lastEngineView>>
    BY <1>11 DEF Observe
  <2>2. UNCHANGED <<Tip, Block, AppHeight>>
    BY <2>1 DEF Tip, Block, AppHeight
  <2>3. lastEngineView \in Nat /\ Armed \in Nat
    BY <1>b, NodeAssumption DEF LaneTypeOK, Armed
  <2>4. ClockBelowCeiling'
    BY <2>1, <2>3 DEF ClockBelowCeiling, Due
  <2>5. TipWaits => ceiling' = ceiling
    BY <2>1 DEF TipWaits, Armed
  <2>6. TipPlaced'
    BY <2>1, <2>2, <2>5 DEF TipInv, TipPlaced, TipServed, TipPassed, TipWaits
  <2> QED
    BY <1>b, <2>4, <2>6 DEF TipInv
<1>12. CASE Cutover
  <2>1. /\ Due /\ ceiling' = 0 /\ UNCHANGED <<chain, finalized, pass>> /\ turn = "tick"
    BY <1>12 DEF Cutover, Due
  <2>2. Tip' = Tip
    BY <2>1 DEF Tip
  <2>3. lastEngineView \in Nat /\ ceiling \in Nat
    BY <1>b DEF LaneTypeOK
  <2>4. ~TipWaits
    BY <2>1, <2>3 DEF TipWaits, Due, Armed
  <2>5. TipPlaced'
    BY <2>1, <2>2, <2>4 DEF TipInv, TipPlaced, TipServed, TipPassed
  <2> QED
    BY <1>b, <2>1, <2>5 DEF TipInv, ClockBelowCeiling
<1>13. ASSUME UNCHANGED vars PROVE Quiet
  BY <1>13 DEF vars
<1> QED
  BY <1>q, <1>1, <1>2, <1>3, <1>4, <1>5, <1>6, <1>7, <1>8, <1>9, <1>10, <1>11, <1>12, <1>13
  DEF Next, Drain

\* The boundary served to state sync is always a sealed height, and the last
\* one whenever the loop is between turns with nothing left to drain: a stall
\* delays it and no cutover strands it.
THEOREM NodeBoundaryIsTip == Spec => []BoundaryIsTip
<1>1. Init => TipInv
  BY InitTip
<1>2. TipInv /\ [Next]_vars => TipInv'
  BY NextTip
<1>3. TipInv => BoundaryIsTip
  <2> SUFFICES ASSUME TipInv PROVE FinalizedSealed /\ FinalizedIsTip
    BY DEF BoundaryIsTip
  <2>1. turn = "idle" /\ deferred = <<>> /\ chain # <<>> => TipServed
    BY DEF TipInv, TipPlaced, TipPassed, TipWaits
  <2> QED
    BY <2>1 DEF TipInv, BoundaryInv, FinalizedIsTip, TipServed, Tip
<1> QED
  BY <1>1, <1>2, <1>3, PTL DEF Spec

--------------------------------------------------------------------------------
(***************************************************************************)
(* Types and bounds                                                        *)
(***************************************************************************)
\* The heights of e epochs.
Span(e) == MaxView * e

LEMMA SpanIs ==
    /\ \A e \in Nat : Span(e) \in Nat /\ Span(e + 1) = Span(e) + MaxView
    /\ \A d, e \in Nat : d <= e => Span(d) <= Span(e)
    /\ Span(0) = 0 /\ Height = 0..Span(MaxEpoch + 1)
<1>1. MaxView \in Nat /\ MaxEpoch \in Nat
  BY NodeAssumption
<1>2. \A e \in Nat : MaxView * e \in Nat /\ MaxView * (e + 1) = MaxView * e + MaxView
  BY <1>1
<1>3. ASSUME NEW d \in Nat, NEW e \in Nat, d <= e PROVE MaxView * d <= MaxView * e
  <2> DEFINE k == e - d
  <2>1. k \in Nat /\ e = d + k
    BY <1>3
  <2> HIDE DEF k
  <2>2. MaxView * (d + k) = MaxView * d + MaxView * k /\ MaxView * k \in Nat /\ MaxView * d \in Nat
    BY <1>1, <2>1
  <2> QED
    BY <2>1, <2>2
<1>4. MaxView * 0 = 0
  BY <1>1
<1> QED
  BY <1>1, <1>2, <1>3, <1>4 DEF Span, Height

BoundsInv ==
    /\ accepted \subseteq Frame
    /\ turn \in {"idle", "flush", "drain", "tick", "halted"}
    /\ flushed \in 0..FlushBatches
    /\ epoch <= MaxEpoch /\ viewBase <= Span(epoch)
    /\ ceiling <= MaxView + Delay
    /\ lastEngineView <= MaxView /\ finalizedView <= MaxView
    /\ pass.last <= MaxView /\ pass.sealed <= MaxView
    /\ appliedFloor <= Span(epoch + 1) /\ finalized <= Span(epoch + 1)
    /\ resumeFloor = Len(Recovered)

TypeInv == CustodyInv /\ BoundsInv

LEMMA InitBounds == Init => BoundsInv
<1> SUFFICES ASSUME Init PROVE BoundsInv
  OBVIOUS
<1>1. /\ Len(Recovered) \in Nat /\ Len(Recovered) <= MaxView /\ MaxView \in Nat
      /\ MaxEpoch \in Nat /\ Delay \in Nat /\ FlushBatches \in Nat
  BY NodeAssumption
<1>2. Span(0) = 0 /\ Span(0 + 1) = MaxView
  BY <1>1, SpanIs
<1>3. /\ epoch = 0 /\ viewBase = 0 /\ ceiling = 0 /\ lastEngineView = 0 /\ finalizedView = 0
      /\ pass = NoPass /\ appliedFloor = Len(Recovered) /\ finalized = Len(Recovered)
      /\ resumeFloor = Len(Recovered) /\ flushed = 0 /\ accepted = {} /\ turn = "idle"
  BY DEF Init
<1>4. pass.last = 0 /\ pass.sealed = 0
  BY <1>3 DEF NoPass
<1> QED
  BY <1>1, <1>2, <1>3, <1>4 DEF BoundsInv

\* The height of the next block is one of the epoch's.
LEMMA BlockBounds ==
    ASSUME LaneTypeOK, BoundsInv, deferred # <<>>
    PROVE AppHeight <= Span(epoch + 1) /\ Block.view <= MaxView
<1>1. Block.view \in Nat /\ Block.view <= MaxView
  BY FirstBlock, NodeAssumption DEF Delivery, View
<1>2. viewBase \in Nat /\ epoch \in Nat /\ MaxView \in Nat /\ viewBase <= Span(epoch)
  BY NodeAssumption DEF LaneTypeOK, BoundsInv
<1>3. Span(epoch) \in Nat /\ Span(epoch + 1) = Span(epoch) + MaxView
  BY <1>2, SpanIs
<1> QED
  BY <1>1, <1>2, <1>3 DEF AppHeight

LEMMA NextBounds == LaneTypeOK /\ BoundsInv /\ [Next]_vars => BoundsInv'
<1> SUFFICES ASSUME LaneTypeOK, BoundsInv, [Next]_vars PROVE BoundsInv'
  OBVIOUS
<1> DEFINE Still == UNCHANGED <<epoch, viewBase, ceiling, resumeFloor>>
           Clock == UNCHANGED <<lastEngineView, finalizedView, finalized>>
           Pass == UNCHANGED <<pass, appliedFloor>>
           Turn == /\ turn' \in {"idle", "flush", "drain", "tick", "halted"}
                   /\ flushed' \in 0..FlushBatches
                   /\ accepted' \subseteq Frame
<1>q. Still /\ Clock /\ Pass /\ Turn => BoundsInv'
  BY DEF BoundsInv
<1>n. 0 \in 0..FlushBatches /\ FlushBatches \in Nat /\ MaxView \in Nat /\ Delay \in Nat \ {0}
  BY NodeAssumption
<1>z. NoPass.last = 0 /\ NoPass.sealed = 0
  BY DEF NoPass
<1> USE DEF custodyVars, engineVars, epochVars, boundary, drainVars
<1>1. ASSUME NEW f \in Frame, Submit(f) PROVE Still /\ Clock /\ Pass /\ Turn
  BY <1>1 DEF Submit, BoundsInv
<1>2. ASSUME BeginFlush \/ EndFlush PROVE Still /\ Clock /\ Pass /\ Turn
  BY <1>2, <1>n DEF BeginFlush, EndFlush, BoundsInv
<1>3. ASSUME ProposeBatch PROVE Still /\ Clock /\ Pass /\ Turn
  <2>1. flushed < FlushBatches /\ flushed' = flushed + 1 /\ flushed \in 0..FlushBatches
    BY <1>3 DEF ProposeBatch, BoundsInv
  <2>2. flushed' \in 0..FlushBatches
    BY <1>n, <2>1
  <2> QED
    BY <1>3, <2>2 DEF ProposeBatch, BoundsInv
<1>4. ASSUME NEW v \in View, NEW b \in Foreign \cup Elems(queue) \cup Elems(Recovered),
             Certify(v, b)
      PROVE Still /\ Clock /\ Pass /\ Turn
  BY <1>4 DEF Certify, BoundsInv
<1>5. CASE BeginDrain \/ Stall
  <2>1. Still /\ Clock /\ Turn /\ pass' = NoPass /\ appliedFloor' = appliedFloor
    BY <1>5 DEF BeginDrain, Stall, BoundsInv
  <2> QED
    BY <1>n, <1>z, <2>1 DEF BoundsInv
<1>6. CASE SkipResumeReplay \/ Discard
  <2>1. /\ Still /\ Clock /\ Turn /\ deferred # <<>>
        /\ pass' = [pass EXCEPT !.last = Block.view] /\ appliedFloor' = appliedFloor
    BY <1>6 DEF SkipResumeReplay, Discard, Reaches, Draining, PassOver, BoundsInv
  <2>2. pass'.last = Block.view /\ pass'.sealed = pass.sealed
    BY <2>1 DEF LaneTypeOK
  <2> QED
    BY <2>1, <2>2, BlockBounds DEF BoundsInv
<1>7. CASE RefuseOutOfOrder \/ Demoted
  BY <1>7 DEF RefuseOutOfOrder, Demoted, BoundsInv
<1>8. CASE SealRefused
  <2>1. /\ Still /\ Clock /\ Turn /\ deferred # <<>>
        /\ pass' = [pass EXCEPT !.last = Block.view, !.sealed = Block.view]
        /\ appliedFloor' = AppHeight
    BY <1>8 DEF SealRefused, Reaches, Draining, Seal, BoundsInv
  <2>2. pass'.last = Block.view /\ pass'.sealed = Block.view
    BY <2>1 DEF LaneTypeOK
  <2> QED
    BY <2>1, <2>2, BlockBounds DEF BoundsInv
<1>9. ASSUME NEW moved \in BOOLEAN, Execute(moved) PROVE BoundsInv'
  <2>1. /\ Still /\ Clock /\ Turn /\ deferred # <<>> /\ appliedFloor' = AppHeight
        /\ pass' = [last |-> Block.view, sealed |-> Block.view, broke |-> moved]
    BY <1>9 DEF Execute, Reaches, Draining, Seal, BoundsInv
  <2>2. pass'.last = Block.view /\ pass'.sealed = Block.view
    BY <2>1
  <2> QED
    BY <2>1, <2>2, BlockBounds DEF BoundsInv
<1>10. CASE HostFatal
  <2>1. Still /\ Clock /\ Turn /\ deferred # <<>> /\ appliedFloor' = AppHeight /\ pass' = pass
    BY <1>10 DEF HostFatal, Reaches, Draining, BoundsInv
  <2> QED
    BY <2>1, BlockBounds DEF BoundsInv
<1>11. CASE EndDrain
  <2>1. Still /\ Turn /\ pass' = NoPass /\ appliedFloor' = appliedFloor
    BY <1>11 DEF EndDrain, BoundsInv
  <2>2. lastEngineView' = pass.last \/ lastEngineView' = lastEngineView
    BY <1>11 DEF EndDrain
  <2>3. \/ finalized' = finalized /\ finalizedView' = finalizedView
        \/ finalized' = viewBase + pass.sealed /\ finalizedView' = pass.sealed
    BY <1>11 DEF EndDrain, BoundaryView
  <2>4. viewBase + pass.sealed <= Span(epoch + 1)
    <3>1. /\ viewBase \in Nat /\ pass.sealed \in Nat /\ epoch \in Nat
          /\ viewBase <= Span(epoch) /\ pass.sealed <= MaxView
      BY DEF LaneTypeOK, BoundsInv
    <3>2. Span(epoch) \in Nat /\ Span(epoch + 1) = Span(epoch) + MaxView
      BY <3>1, SpanIs
    <3> QED
      BY <1>n, <3>1, <3>2
  <2> QED
    BY <1>n, <1>z, <2>1, <2>2, <2>3, <2>4 DEF BoundsInv
<1>12. CASE Observe
  <2>1. /\ UNCHANGED <<epoch, viewBase, resumeFloor>> /\ Clock /\ Pass /\ Turn /\ ceiling' = Armed
    BY <1>12 DEF Observe, BoundsInv
  <2>2. Armed <= MaxView + Delay
    BY <1>n, SMTT(30) DEF Armed, LaneTypeOK, BoundsInv
  <2> QED
    BY <2>1, <2>2 DEF BoundsInv
<1>13. CASE Cutover
  <2>1. /\ Due /\ epoch < MaxEpoch /\ epoch' = epoch + 1 /\ viewBase' = viewBase + ceiling
        /\ ceiling' = 0 /\ lastEngineView' = 0 /\ finalizedView' = 0
        /\ UNCHANGED <<finalized, appliedFloor, resumeFloor, pass>>
        /\ Turn
    BY <1>13, <1>n DEF Cutover, NextBase, BoundsInv
  <2>2. /\ epoch \in Nat /\ MaxEpoch \in Nat /\ viewBase \in Nat /\ ceiling \in Nat
        /\ lastEngineView \in Nat /\ finalized \in Nat /\ appliedFloor \in Nat
    BY NodeAssumption DEF LaneTypeOK
  <2>3. ceiling <= MaxView
    <3>1. lastEngineView <= MaxView /\ Armed # 0 /\ lastEngineView >= Armed
      BY <2>1 DEF BoundsInv, Due
    <3> QED
      BY <1>n, <2>2, <3>1 DEF Armed
  <2>4. /\ Span(epoch) \in Nat /\ Span(epoch + 1) = Span(epoch) + MaxView
        /\ Span(epoch + 1) \in Nat /\ Span(epoch + 1 + 1) = Span(epoch + 1) + MaxView
    <3>1. Span(epoch) \in Nat /\ Span(epoch + 1) = Span(epoch) + MaxView
      BY <2>2, SpanIs
    <3> DEFINE d == epoch + 1
    <3>2. d \in Nat
      BY <2>2
    <3> HIDE DEF d
    <3>3. Span(d) \in Nat /\ Span(d + 1) = Span(d) + MaxView
      BY <3>2, SpanIs
    <3> QED
      BY <3>1, <3>3 DEF d
  <2>5. viewBase <= Span(epoch) /\ appliedFloor <= Span(epoch + 1) /\ finalized <= Span(epoch + 1)
    BY DEF BoundsInv
  <2>6. viewBase' <= Span(epoch') /\ appliedFloor' <= Span(epoch' + 1) /\ finalized' <= Span(epoch' + 1)
    BY <1>n, <2>1, <2>2, <2>3, <2>4, <2>5
  <2>7. epoch' <= MaxEpoch
    BY <2>1, <2>2
  <2> QED
    BY <1>n, <2>1, <2>6, <2>7 DEF BoundsInv
<1>14. ASSUME UNCHANGED vars PROVE Still /\ Clock /\ Pass /\ Turn
  BY <1>14 DEF vars, BoundsInv
<1> QED
  BY <1>q, <1>1, <1>2, <1>3, <1>4, <1>5, <1>6, <1>7, <1>8, <1>9, <1>10, <1>11, <1>12, <1>13,
     <1>14
  DEF Next, Drain

\* Every variable keeps its type; all heights lie within the views of the
\* epochs there are, because a cutover's base is at most one epoch's views
\* above the last one.
THEOREM NodeTypeOK == Spec => []TypeOK
<1>1. Init => TypeInv
  BY InitCustody, InitBounds DEF TypeInv
<1>2. TypeInv /\ [Next]_vars => TypeInv'
  BY NextCustody, NextBounds DEF TypeInv, CustodyInv
<1>3. TypeInv => TypeOK
  <2> SUFFICES ASSUME CustodyInv, BoundsInv, LaneTypeOK PROVE TypeOK
    BY DEF TypeInv, CustodyInv
  <2>1. /\ MaxView \in Nat /\ MaxEpoch \in Nat /\ Delay \in Nat /\ Len(Recovered) \in Nat
        /\ Len(Recovered) <= MaxView
    BY NodeAssumption
  <2>2. epoch \in Nat /\ epoch <= MaxEpoch
    BY DEF LaneTypeOK, BoundsInv
  <2>3. /\ Span(epoch) <= Span(MaxEpoch + 1) /\ Span(epoch + 1) <= Span(MaxEpoch + 1)
        /\ Span(0 + 1) <= Span(MaxEpoch + 1) /\ Span(0 + 1) = MaxView
        /\ Span(epoch) \in Nat /\ Span(epoch + 1) \in Nat /\ Span(MaxEpoch + 1) \in Nat
    <3>1. /\ epoch <= MaxEpoch + 1 /\ epoch + 1 <= MaxEpoch + 1 /\ 0 + 1 <= MaxEpoch + 1
          /\ epoch + 1 \in Nat /\ MaxEpoch + 1 \in Nat /\ 0 + 1 \in Nat
      BY <2>1, <2>2
    <3>2. Span(0 + 1) = Span(0) + MaxView /\ Span(0) = 0
      BY SpanIs
    <3> DEFINE d == epoch + 1
               m == MaxEpoch + 1
               o == 0 + 1
    <3>3. d \in Nat /\ m \in Nat /\ o \in Nat /\ epoch <= m /\ d <= m /\ o <= m
      BY <3>1
    <3> HIDE DEF d, m, o
    <3>4. /\ Span(epoch) <= Span(m) /\ Span(d) <= Span(m) /\ Span(o) <= Span(m)
          /\ Span(epoch) \in Nat /\ Span(d) \in Nat /\ Span(m) \in Nat
      BY <2>2, <3>3, SpanIs
    <3> QED
      BY <2>1, <3>2, <3>4 DEF d, m, o
  <2>4. /\ viewBase \in Nat /\ viewBase <= Span(epoch)
        /\ appliedFloor \in Nat /\ appliedFloor <= Span(epoch + 1)
        /\ finalized \in Nat /\ finalized <= Span(epoch + 1) /\ resumeFloor = Len(Recovered)
    BY DEF LaneTypeOK, BoundsInv
  <2>5. viewBase \in Height /\ appliedFloor \in Height /\ finalized \in Height /\ resumeFloor \in Height
    <3>1. Height = 0..Span(MaxEpoch + 1)
      BY SpanIs
    <3> QED
      BY <2>1, <2>3, <2>4, <3>1
  <2>6. /\ epoch \in 0..MaxEpoch /\ ceiling \in 0..(MaxView + Delay)
        /\ lastEngineView \in 0..MaxView /\ finalizedView \in 0..MaxView
    BY <2>1, <2>2 DEF LaneTypeOK, BoundsInv
  <2>7. pass \in [last : 0..MaxView, sealed : 0..MaxView, broke : BOOLEAN]
    <3>1. /\ pass \in [last : Nat, sealed : Nat, broke : BOOLEAN]
          /\ pass.last <= MaxView /\ pass.sealed <= MaxView
      BY DEF LaneTypeOK, BoundsInv
    <3> QED
      BY <2>1, <3>1
  <2> QED
    BY <2>5, <2>6, <2>7 DEF TypeOK, LaneTypeOK, CustodyInv, BoundsInv
<1> QED
  BY <1>1, <1>2, <1>3, PTL DEF Spec

(***************************************************************************)
(* Accepted frames: once, in order, never lost                             *)
(*                                                                         *)
(* The argument gives every accepted frame a rank.  Chain, deferred        *)
(* deliveries, inbox, queue and pending batch are one line through which   *)
(* frames move without overtaking, so ranks rise along it; within an       *)
(* origin they rise with the sequence numbers.  Packing, certification,    *)
(* delivery and execution leave the ranks alone.  Only a cutover, which    *)
(* sorts what is in custody, deals new ones, above all that were dealt.    *)
(***************************************************************************)
\* Batches other validators proposed, and the frames in them.
AlienBatches == Foreign \cup Elems(Recovered) \cup {Junk}
AlienFrames  == UNION {Members(b) : b \in Foreign \cup Elems(Recovered)}

\* The frames of this node in a batch, in order.
ListOf(b) == IF b \in AlienBatches THEN <<>> ELSE b

BatchesOf(q) == [i \in DOMAIN q |-> q[i].batch]
FramesIn(q)  == UNION {Elems(ListOf(q[i])) : i \in DOMAIN q}

Below(A, B, rank) == \A f \in A : \A g \in B : rank[f] < rank[g]
Rises(s, rank)    == \A m, n \in DOMAIN s : m < n => rank[s[m]] < rank[s[n]]
Climbs(q, rank) ==
    /\ \A i \in DOMAIN q : Rises(ListOf(q[i]), rank)
    /\ \A i, j \in DOMAIN q :
          i < j => Below(Elems(ListOf(q[i])), Elems(ListOf(q[j])), rank)

\* One batch more at the end.
LEMMA LineAppend ==
    ASSUME NEW S, NEW q \in Seq(S), NEW b \in S, NEW rank
    PROVE /\ FramesIn(Append(q, b)) = FramesIn(q) \cup Elems(ListOf(b))
          /\ Climbs(q, rank) /\ Rises(ListOf(b), rank)
               /\ Below(FramesIn(q), Elems(ListOf(b)), rank)
             => Climbs(Append(q, b), rank)
<1> DEFINE r == Append(q, b)
           n == Len(q)
<1>1. /\ n \in Nat /\ DOMAIN q = 1..n /\ DOMAIN r = 1..(n + 1) /\ r[n + 1] = b
      /\ \A i \in 1..n : r[i] = q[i]
  BY AppendProperties
<1> HIDE DEF r, n
<1>2. \A i \in 1..(n + 1) : i \in 1..n \/ i = n + 1
  BY <1>1
<1>3. n + 1 \in 1..(n + 1) /\ \A i \in 1..n : i \in 1..(n + 1)
  BY <1>1
<1>4. FramesIn(r) = FramesIn(q) \cup Elems(ListOf(b))
  <2>1. ASSUME NEW f \in FramesIn(r) PROVE f \in FramesIn(q) \cup Elems(ListOf(b))
    BY <1>1, <1>2 DEF FramesIn
  <2>2. ASSUME NEW f \in FramesIn(q) PROVE f \in FramesIn(r)
    BY <1>1, <1>3 DEF FramesIn
  <2>3. ASSUME NEW f \in Elems(ListOf(b)) PROVE f \in FramesIn(r)
    BY <1>1, <1>3 DEF FramesIn
  <2> QED
    BY <2>1, <2>2, <2>3
<1>5. ASSUME Climbs(q, rank), Rises(ListOf(b), rank), Below(FramesIn(q), Elems(ListOf(b)), rank)
      PROVE Climbs(r, rank)
  <2>1. \A i \in DOMAIN r : Rises(ListOf(r[i]), rank)
    BY <1>1, <1>2, <1>5 DEF Climbs
  <2>2. ASSUME NEW i \in DOMAIN r, NEW j \in DOMAIN r, i < j
        PROVE Below(Elems(ListOf(r[i])), Elems(ListOf(r[j])), rank)
    <3>1. i \in 1..n
      BY <1>1, <2>2
    <3>2. CASE j \in 1..n
      BY <1>1, <1>5, <2>2, <3>1, <3>2 DEF Climbs
    <3>3. CASE j = n + 1
      <4>1. r[i] = q[i] /\ r[j] = b /\ i \in DOMAIN q
        BY <1>1, <3>1, <3>3
      <4>2. Elems(ListOf(q[i])) \subseteq FramesIn(q)
        BY <4>1 DEF FramesIn
      <4> QED
        BY <1>5, <4>1, <4>2 DEF Below
    <3> QED
      BY <1>1, <1>2, <3>2, <3>3
  <2> QED
    BY <2>1, <2>2 DEF Climbs
<1> QED
  BY <1>4, <1>5 DEF r

\* The first batch goes.
LEMMA LineTail ==
    ASSUME NEW S, NEW q \in Seq(S), q # <<>>, NEW rank
    PROVE /\ FramesIn(q) = Elems(ListOf(Head(q))) \cup FramesIn(Tail(q))
          /\ Climbs(q, rank) => /\ Climbs(Tail(q), rank) /\ Rises(ListOf(Head(q)), rank)
                                /\ Below(Elems(ListOf(Head(q))), FramesIn(Tail(q)), rank)
<1> DEFINE r == Tail(q)
           n == Len(q)
<1>1. /\ n \in Nat /\ n >= 1 /\ DOMAIN q = 1..n /\ DOMAIN r = 1..(n - 1) /\ q[1] = Head(q)
      /\ \A i \in 1..(n - 1) : r[i] = q[i + 1]
  BY HeadTailProperties, EmptySeq
<1> HIDE DEF r, n
<1>2. /\ 1 \in 1..n /\ \A i \in 1..(n - 1) : i + 1 \in 1..n
      /\ \A i \in 1..n : i = 1 \/ (i - 1 \in 1..(n - 1) /\ (i - 1) + 1 = i)
  BY <1>1
<1>3. \A i \in 1..n : i = 1 \/ q[i] = r[i - 1]
  BY <1>1, <1>2
<1>4. FramesIn(q) = Elems(ListOf(Head(q))) \cup FramesIn(r)
  <2>1. ASSUME NEW f \in FramesIn(q) PROVE f \in Elems(ListOf(Head(q))) \cup FramesIn(r)
    <3>1. PICK i \in 1..n : f \in Elems(ListOf(q[i]))
      BY <1>1 DEF FramesIn
    <3>2. CASE i = 1
      BY <1>1, <3>1, <3>2
    <3>3. CASE i # 1
      BY <1>1, <1>2, <1>3, <3>1, <3>3 DEF FramesIn
    <3> QED
      BY <3>2, <3>3
  <2>2. ASSUME NEW f \in FramesIn(r) PROVE f \in FramesIn(q)
    BY <1>1, <1>2 DEF FramesIn
  <2>3. ASSUME NEW f \in Elems(ListOf(Head(q))) PROVE f \in FramesIn(q)
    BY <1>1, <1>2 DEF FramesIn
  <2> QED
    BY <2>1, <2>2, <2>3
<1>5. ASSUME Climbs(q, rank)
      PROVE /\ Climbs(r, rank) /\ Rises(ListOf(Head(q)), rank)
            /\ Below(Elems(ListOf(Head(q))), FramesIn(r), rank)
  <2>1. \A i \in DOMAIN r : Rises(ListOf(r[i]), rank)
    BY <1>1, <1>2, <1>5 DEF Climbs
  <2>2. ASSUME NEW i \in 1..(n - 1), NEW j \in 1..(n - 1), i < j
        PROVE Below(Elems(ListOf(r[i])), Elems(ListOf(r[j])), rank)
    <3>1. i + 1 \in DOMAIN q /\ j + 1 \in DOMAIN q /\ i + 1 < j + 1
      BY <1>1, <2>2
    <3> QED
      BY <1>1, <1>5, <3>1 DEF Climbs
  <2>3. Rises(ListOf(Head(q)), rank)
    BY <1>1, <1>2, <1>5 DEF Climbs
  <2>4. ASSUME NEW f \in Elems(ListOf(Head(q))), NEW g \in FramesIn(r) PROVE rank[f] < rank[g]
    <3>1. PICK i \in 1..(n - 1) : g \in Elems(ListOf(r[i]))
      BY <1>1 DEF FramesIn
    <3>2. i + 1 \in DOMAIN q /\ 1 \in DOMAIN q /\ 1 < i + 1 /\ g \in Elems(ListOf(q[i + 1]))
      BY <1>1, <3>1
    <3> QED
      BY <1>1, <1>5, <3>2 DEF Climbs, Below
  <2> QED
    BY <1>1, <2>1, <2>2, <2>3, <2>4 DEF Climbs, Below
<1> QED
  BY <1>4, <1>5 DEF r

\* One line behind another.
LEMMA LineConcat ==
    ASSUME NEW S, NEW p \in Seq(S), NEW q \in Seq(S), NEW rank
    PROVE /\ FramesIn(p \o q) = FramesIn(p) \cup FramesIn(q)
          /\ Climbs(p, rank) /\ Climbs(q, rank) /\ Below(FramesIn(p), FramesIn(q), rank)
             => Climbs(p \o q, rank)
<1> DEFINE r == p \o q
           m == Len(p)
           n == Len(q)
<1>1. /\ m \in Nat /\ n \in Nat /\ DOMAIN p = 1..m /\ DOMAIN q = 1..n /\ DOMAIN r = 1..(m + n)
      /\ \A i \in 1..(m + n) : r[i] = IF i <= m THEN p[i] ELSE q[i - m]
  BY ConcatProperties
<1> HIDE DEF r, m, n
<1>2. \A i \in 1..(m + n) : \/ i \in 1..m /\ r[i] = p[i]
                            \/ i > m /\ i - m \in 1..n /\ r[i] = q[i - m]
  BY <1>1
<1>3. /\ \A i \in 1..m : i \in 1..(m + n) /\ r[i] = p[i]
      /\ \A i \in 1..n : m + i \in 1..(m + n) /\ r[m + i] = q[i]
  BY <1>1
<1>4. FramesIn(r) = FramesIn(p) \cup FramesIn(q)
  <2>1. ASSUME NEW f \in FramesIn(r) PROVE f \in FramesIn(p) \cup FramesIn(q)
    <3>1. PICK i \in 1..(m + n) : f \in Elems(ListOf(r[i]))
      BY <1>1 DEF FramesIn
    <3> QED
      BY <1>1, <1>2, <3>1 DEF FramesIn
  <2>2. ASSUME NEW f \in FramesIn(p) PROVE f \in FramesIn(r)
    BY <1>1, <1>3 DEF FramesIn
  <2>3. ASSUME NEW f \in FramesIn(q) PROVE f \in FramesIn(r)
    <3>1. PICK i \in 1..n : f \in Elems(ListOf(q[i]))
      BY <1>1 DEF FramesIn
    <3> QED
      BY <1>1, <1>3, <3>1 DEF FramesIn
  <2> QED
    BY <2>1, <2>2, <2>3
<1>5. ASSUME Climbs(p, rank), Climbs(q, rank), Below(FramesIn(p), FramesIn(q), rank)
      PROVE Climbs(r, rank)
  <2>1. \A i \in DOMAIN r : Rises(ListOf(r[i]), rank)
    BY <1>1, <1>2, <1>5 DEF Climbs
  <2>2. ASSUME NEW i \in 1..(m + n), NEW j \in 1..(m + n), i < j
        PROVE Below(Elems(ListOf(r[i])), Elems(ListOf(r[j])), rank)
    <3>1. CASE j \in 1..m
      <4>1. i \in 1..m
        BY <1>1, <2>2, <3>1
      <4> QED
        BY <1>1, <1>3, <1>5, <2>2, <3>1, <4>1 DEF Climbs
    <3>2. CASE i \in 1..m /\ j > m
      <4>1. r[i] = p[i] /\ r[j] = q[j - m] /\ i \in DOMAIN p /\ j - m \in DOMAIN q
        BY <1>1, <1>2, <3>2
      <4>2. Elems(ListOf(p[i])) \subseteq FramesIn(p) /\ Elems(ListOf(q[j - m])) \subseteq FramesIn(q)
        BY <4>1 DEF FramesIn
      <4> QED
        BY <1>5, <4>1, <4>2 DEF Below
    <3>3. CASE i > m /\ j > m
      <4>1. /\ r[i] = q[i - m] /\ r[j] = q[j - m] /\ i - m \in DOMAIN q /\ j - m \in DOMAIN q
            /\ i - m < j - m
        BY <1>1, <1>2, <2>2, <3>3
      <4> QED
        BY <1>5, <4>1 DEF Climbs
    <3> QED
      BY <1>1, <3>1, <3>2, <3>3
  <2> QED
    BY <1>1, <2>1, <2>2 DEF Climbs
<1> QED
  BY <1>4, <1>5 DEF r

\* Deliveries and blocks as lines of batches.
LEMMA BatchIs ==
    ASSUME NEW S, NEW B, \A e \in S : e.batch \in B, NEW q \in Seq(S)
    PROVE /\ BatchesOf(q) \in Seq(B) /\ Len(BatchesOf(q)) = Len(q)
          /\ DOMAIN BatchesOf(q) = 1..Len(q) /\ DOMAIN q = 1..Len(q) /\ Len(q) \in Nat
          /\ \A i \in 1..Len(q) : BatchesOf(q)[i] = q[i].batch
<1>1. Len(q) \in Nat /\ DOMAIN q = 1..Len(q) /\ \A i \in 1..Len(q) : q[i] \in S
  OBVIOUS
<1>2. BatchesOf(q) \in [1..Len(q) -> B]
  BY <1>1 DEF BatchesOf
<1>3. BatchesOf(q) \in Seq(B)
  BY <1>1, <1>2
<1> QED
  BY <1>1, <1>2, <1>3 DEF BatchesOf

LEMMA BatchAppend ==
    ASSUME NEW S, NEW B, \A e \in S : e.batch \in B, NEW q \in Seq(S), NEW e \in S
    PROVE BatchesOf(Append(q, e)) = Append(BatchesOf(q), e.batch)
<1> DEFINE r == Append(q, e)
           n == Len(q)
           p == BatchesOf(q)
           s == BatchesOf(r)
           t == Append(p, e.batch)
<1>1. /\ r \in Seq(S) /\ Len(r) = n + 1 /\ r[n + 1] = e
      /\ \A i \in 1..n : r[i] = q[i]
  BY AppendProperties
<1>2. n \in Nat /\ p \in Seq(B) /\ Len(p) = n /\ \A i \in 1..n : p[i] = q[i].batch
  BY BatchIs
<1>3. t \in Seq(B) /\ Len(t) = n + 1 /\ t[n + 1] = e.batch /\ \A i \in 1..n : t[i] = p[i]
  <2> HIDE DEF p, n
  <2> QED
    BY <1>2, AppendProperties
<1> HIDE DEF r
<1>4. s \in Seq(B) /\ Len(s) = Len(r) /\ \A i \in 1..Len(r) : s[i] = r[i].batch
  BY <1>1, BatchIs
<1> HIDE DEF n, p, s, t
<1>5. ASSUME NEW i \in 1..Len(s) PROVE s[i] = t[i]
  <2>1. i \in 1..(n + 1) /\ (i \in 1..n \/ i = n + 1)
    BY <1>1, <1>2, <1>4
  <2>2. s[i] = r[i].batch
    BY <1>1, <1>4, <2>1
  <2> QED
    BY <1>1, <1>2, <1>3, <2>1, <2>2
<1>6. s = t
  BY <1>1, <1>3, <1>4, <1>5, SeqEqual
<1> QED
  BY <1>6 DEF s, t, r, p

LEMMA BatchTail ==
    ASSUME NEW S, NEW B, \A e \in S : e.batch \in B, NEW q \in Seq(S), q # <<>>
    PROVE /\ BatchesOf(q) # <<>> /\ BatchesOf(Tail(q)) = Tail(BatchesOf(q))
          /\ Head(BatchesOf(q)) = Head(q).batch
<1> DEFINE r == Tail(q)
           n == Len(q)
           p == BatchesOf(q)
           s == BatchesOf(r)
           t == Tail(p)
<1>1. /\ r \in Seq(S) /\ Len(r) = n - 1 /\ n \in Nat /\ n >= 1
      /\ \A i \in 1..(n - 1) : r[i] = q[i + 1]
  BY HeadTailProperties, EmptySeq
<1>2. p \in Seq(B) /\ Len(p) = n /\ \A i \in 1..n : p[i] = q[i].batch
  BY BatchIs
<1>3. p # <<>>
  <2> HIDE DEF p, n
  <2> QED
    BY <1>1, <1>2
<1>4. t \in Seq(B) /\ Len(t) = n - 1 /\ \A i \in 1..(n - 1) : t[i] = p[i + 1]
  <2> HIDE DEF p, n
  <2> QED
    BY <1>2, <1>3, HeadTailProperties
<1> HIDE DEF r
<1>5. s \in Seq(B) /\ Len(s) = Len(r) /\ \A i \in 1..Len(r) : s[i] = r[i].batch
  BY <1>1, BatchIs
<1>6. Head(p) = p[1] /\ Head(q) = q[1]
  BY <1>2, <1>3
<1> HIDE DEF n, p, s, t
<1>7. ASSUME NEW i \in 1..Len(s) PROVE s[i] = t[i]
  <2>1. i \in 1..(n - 1) /\ i + 1 \in 1..n
    BY <1>1, <1>5
  <2>2. s[i] = r[i].batch
    BY <1>1, <1>5, <2>1
  <2> QED
    BY <1>1, <1>2, <1>4, <2>1, <2>2
<1>8. s = t
  BY <1>1, <1>4, <1>5, <1>7, SeqEqual
<1>9. p[1] = q[1].batch
  BY <1>1, <1>2
<1> QED
  BY <1>3, <1>6, <1>8, <1>9 DEF s, t, r, p

LEMMA BatchConcat ==
    ASSUME NEW S, NEW B, \A e \in S : e.batch \in B, NEW q \in Seq(S), NEW r \in Seq(S)
    PROVE BatchesOf(q \o r) = BatchesOf(q) \o BatchesOf(r)
<1> DEFINE u == q \o r
           m == Len(q)
           n == Len(r)
           bq == BatchesOf(q)
           br == BatchesOf(r)
           s == BatchesOf(u)
           t == bq \o br
<1>1. /\ u \in Seq(S) /\ Len(u) = m + n /\ m \in Nat /\ n \in Nat
      /\ \A i \in 1..(m + n) : u[i] = IF i <= m THEN q[i] ELSE r[i - m]
  BY ConcatProperties
<1>2. bq \in Seq(B) /\ Len(bq) = m /\ \A i \in 1..m : bq[i] = q[i].batch
  BY BatchIs
<1>3. br \in Seq(B) /\ Len(br) = n /\ \A i \in 1..n : br[i] = r[i].batch
  BY BatchIs
<1> HIDE DEF u
<1>4. s \in Seq(B) /\ Len(s) = Len(u) /\ \A i \in 1..Len(u) : s[i] = u[i].batch
  BY <1>1, BatchIs
<1> HIDE DEF s, bq, br, m, n
<1>5. /\ t \in Seq(B) /\ Len(t) = m + n
      /\ \A i \in 1..(m + n) : t[i] = IF i <= m THEN bq[i] ELSE br[i - m]
  BY <1>2, <1>3, ConcatProperties
<1> HIDE DEF t
<1>6. ASSUME NEW i \in 1..Len(s) PROVE s[i] = t[i]
  <2>1. i \in 1..(m + n) /\ s[i] = u[i].batch
    BY <1>1, <1>4
  <2>2. CASE i <= m
    <3>1. i \in 1..m
      BY <1>1, <2>1, <2>2
    <3> QED
      BY <1>1, <1>2, <1>5, <2>1, <2>2, <3>1
  <2>3. CASE ~(i <= m)
    <3>1. i - m \in 1..n
      BY <1>1, <2>1, <2>3
    <3>2. u[i] = r[i - m] /\ t[i] = br[i - m]
      BY <1>1, <1>5, <2>1, <2>3
    <3> QED
      BY <1>3, <2>1, <3>1, <3>2
  <2> QED
    BY <2>2, <2>3
<1>7. s = t
  BY <1>1, <1>4, <1>5, <1>6, SeqEqual
<1> QED
  BY <1>7 DEF s, t, u, bq, br

\* Taking a batch off the front of the pending frames (take_one_batch).
LEMMA SplitPending ==
    ASSUME NEW S, NEW p \in Seq(S), NEW n \in 1..Len(p), NEW rank
    PROVE LET b == SubSeq(p, 1, n)
              r == SubSeq(p, n + 1, Len(p))
          IN  /\ b \in Seq(S) /\ r \in Seq(S) /\ b # <<>>
              /\ Elems(p) = Elems(b) \cup Elems(r)
              /\ Rises(p, rank) => /\ Rises(b, rank) /\ Rises(r, rank)
                                   /\ Below(Elems(b), Elems(r), rank)
<1> DEFINE b == SubSeq(p, 1, n)
           r == SubSeq(p, n + 1, Len(p))
           l == Len(p)
<1>0. l \in Nat /\ n \in Nat /\ 1 <= n /\ n <= l /\ DOMAIN p = 1..l /\ \A i \in 1..l : p[i] \in S
  OBVIOUS
<1>1. /\ b \in Seq(S) /\ Len(b) = n /\ \A i \in 1..n : b[i] = p[i]
  <2>1. \A i \in 1..n : p[i] \in S
    BY <1>0
  <2>2. n - 1 + 1 = n /\ \A i \in 1..n : 1 + i - 1 = i
    BY <1>0
  <2>3. /\ b \in Seq(S) /\ Len(b) = (IF 1 <= n THEN n - 1 + 1 ELSE 0)
        /\ \A i \in 1..(n - 1 + 1) : b[i] = p[1 + i - 1]
    BY <1>0, <2>1, SubSeqProperties
  <2> QED
    BY <1>0, <2>2, <2>3
<1>2. /\ r \in Seq(S) /\ Len(r) = l - n /\ \A i \in 1..(l - n) : r[i] = p[n + i]
  <2>1. \A i \in (n + 1)..l : p[i] \in S
    BY <1>0
  <2>2. l - (n + 1) + 1 = l - n /\ \A i \in 1..(l - n) : (n + 1) + i - 1 = n + i
    BY <1>0
  <2>3. /\ r \in Seq(S) /\ Len(r) = (IF n + 1 <= l THEN l - (n + 1) + 1 ELSE 0)
        /\ \A i \in 1..(l - (n + 1) + 1) : r[i] = p[(n + 1) + i - 1]
    BY <1>0, <2>1, SubSeqProperties
  <2>4. Len(r) = l - n
    <3> HIDE DEF r, l
    <3>1. CASE n + 1 <= l
      BY <2>2, <2>3, <3>1
    <3>2. CASE ~(n + 1 <= l)
      <4>1. l - n = 0
        BY <1>0, <3>2
      <4> QED
        BY <2>3, <3>2, <4>1
    <3> QED
      BY <3>1, <3>2
  <2> QED
    BY <2>2, <2>3, <2>4
<1> HIDE DEF b, r, l
<1>3. DOMAIN b = 1..n /\ DOMAIN r = 1..(l - n)
  BY <1>1, <1>2
<1>4. /\ \A i \in 1..n : i \in 1..l
      /\ \A i \in 1..(l - n) : n + i \in 1..l
      /\ \A i \in 1..l : i \in 1..n \/ (i - n \in 1..(l - n) /\ n + (i - n) = i)
  BY <1>0
<1>5. Elems(p) = Elems(b) \cup Elems(r)
  <2>1. ASSUME NEW i \in 1..l PROVE p[i] \in Elems(b) \cup Elems(r)
    <3>1. CASE i \in 1..n
      BY <1>1, <1>3, <3>1 DEF Elems
    <3>2. CASE i - n \in 1..(l - n) /\ n + (i - n) = i
      <4>1. r[i - n] = p[i]
        BY <1>2, <3>2
      <4> QED
        BY <1>3, <3>2, <4>1 DEF Elems
    <3> QED
      BY <1>4, <3>1, <3>2
  <2>2. ASSUME NEW i \in 1..n PROVE b[i] \in Elems(p)
    BY <1>0, <1>1, <1>4 DEF Elems
  <2>3. ASSUME NEW i \in 1..(l - n) PROVE r[i] \in Elems(p)
    BY <1>0, <1>2, <1>4 DEF Elems
  <2> QED
    BY <1>0, <1>3, <2>1, <2>2, <2>3 DEF Elems
<1>6. b # <<>>
  BY <1>0, <1>1
<1>7. ASSUME Rises(p, rank)
      PROVE Rises(b, rank) /\ Rises(r, rank) /\ Below(Elems(b), Elems(r), rank)
  <2>1. \A i, j \in 1..l : i < j => rank[p[i]] < rank[p[j]]
    BY <1>0, <1>7 DEF Rises
  <2>2. Rises(b, rank)
    BY <1>1, <1>3, <1>4, <2>1 DEF Rises
  <2>3. ASSUME NEW i \in 1..(l - n), NEW j \in 1..(l - n), i < j
        PROVE rank[r[i]] < rank[r[j]]
    <3>1. n + i \in 1..l /\ n + j \in 1..l /\ n + i < n + j
      BY <1>0, <2>3
    <3> QED
      BY <1>2, <2>1, <3>1
  <2>4. ASSUME NEW i \in 1..n, NEW j \in 1..(l - n) PROVE rank[b[i]] < rank[r[j]]
    <3>1. i \in 1..l /\ n + j \in 1..l /\ i < n + j
      BY <1>0
    <3> QED
      BY <1>1, <1>2, <2>1, <3>1
  <2> QED
    BY <1>3, <2>2, <2>3, <2>4 DEF Rises, Below, Elems
<1> QED
  BY <1>1, <1>2, <1>5, <1>6, <1>7 DEF b, r, l

\* A sequence that rises has no frame twice.
LEMMA RisesOnce ==
    ASSUME NEW p \in Seq(Frame), NEW rank \in [Frame -> Nat], Rises(p, rank)
    PROVE Cardinality(Elems(p)) = Len(p)
<1> DEFINE n == Len(p)
<1>1. n \in Nat /\ DOMAIN p = 1..n /\ p \in [1..n -> Frame] /\ \A i \in 1..n : p[i] \in Frame
  OBVIOUS
<1> HIDE DEF n
<1>2. \A i, j \in 1..n : p[i] = p[j] => i = j
  <2> SUFFICES ASSUME NEW i \in 1..n, NEW j \in 1..n, p[i] = p[j], i # j PROVE FALSE
    OBVIOUS
  <2>1. i < j \/ j < i
    BY <1>1
  <2>2. rank[p[i]] \in Nat
    BY <1>1
  <2> QED
    BY <1>1, <2>1, <2>2 DEF Rises
<1>3. p \in Bijection(1..n, Elems(p))
  <2>1. Elems(p) = {p[i] : i \in 1..n}
    BY <1>1 DEF Elems
  <2>2. p \in [1..n -> Elems(p)]
    BY <1>1, <2>1
  <2> QED
    BY <1>2, <2>1, <2>2 DEF Bijection, Injection, Surjection, IsInjective
<1>4. IsFiniteSet(1..n) /\ Cardinality(1..n) = n
  BY <1>1, FS_Interval
<1>5. Cardinality(Elems(p)) = Cardinality(1..n)
  <2>1. ExistsBijection(1..n, Elems(p))
    BY <1>3 DEF ExistsBijection
  <2> QED
    BY <1>4, <2>1, FS_Bijection
<1> QED
  BY <1>4, <1>5 DEF n
--------------------------------------------------------------------------------
(***************************************************************************)
(* The line: sealed batches C, then the deferred D, the inbox I, the queue *)
(* Q and the pending frames p, with the frames out in custody.             *)
(***************************************************************************)
OnLine(D, I, Q, p) == FramesIn(D) \cup FramesIn(I) \cup FramesIn(Q) \cup Elems(p)

InLine(C, D, I, Q, p, out, rank) ==
    /\ Climbs(C, rank) /\ Climbs(D, rank) /\ Climbs(I, rank) /\ Climbs(Q, rank)
    /\ Rises(p, rank)
    /\ Below(FramesIn(D), FramesIn(I) \cup FramesIn(Q) \cup Elems(p), rank)
    /\ Below(FramesIn(I), FramesIn(Q) \cup Elems(p), rank)
    /\ Below(FramesIn(Q), Elems(p), rank)
    /\ Below(FramesIn(C), out, rank)
    /\ OnLine(D, I, Q, p) \subseteq out

LEMMA NothingIn == FramesIn(<<>>) = {} /\ Elems(<<>>) = {}
  /\ \A rank : Climbs(<<>>, rank) /\ Rises(<<>>, rank)
<1>1. DOMAIN <<>> = {}
  OBVIOUS
<1> QED
  BY <1>1 DEF FramesIn, Elems, Climbs, Rises

\* The first deferred batch is sealed and resolves.
LEMMA LineSeals ==
    ASSUME NEW B, NEW C \in Seq(B), NEW D \in Seq(B), NEW I \in Seq(B), NEW Q \in Seq(B),
           NEW p, NEW out \in SUBSET Frame, NEW rank \in [Frame -> Nat],
           InLine(C, D, I, Q, p, out, rank), D # <<>>, out \subseteq OnLine(D, I, Q, p)
    PROVE LET gone == Elems(ListOf(Head(D)))
          IN  /\ InLine(Append(C, Head(D)), Tail(D), I, Q, p, out \ gone, rank)
              /\ out \ gone \subseteq OnLine(Tail(D), I, Q, p)
              /\ FramesIn(Append(C, Head(D))) \subseteq FramesIn(C) \cup gone
              /\ FramesIn(C) \cup gone \subseteq FramesIn(Append(C, Head(D)))
              /\ gone \subseteq out
<1> DEFINE gone == Elems(ListOf(Head(D)))
           rest == FramesIn(Tail(D)) \cup FramesIn(I) \cup FramesIn(Q) \cup Elems(p)
<1>1. Head(D) \in B /\ Tail(D) \in Seq(B)
  BY HeadTailProperties
<1>2. /\ FramesIn(D) = gone \cup FramesIn(Tail(D))
      /\ Climbs(Tail(D), rank) /\ Rises(ListOf(Head(D)), rank)
      /\ Below(gone, FramesIn(Tail(D)), rank)
  BY LineTail DEF InLine
<1>3. Below(gone, rest, rank)
  BY <1>2 DEF InLine, Below
<1>4. gone \subseteq out /\ rest \subseteq out
  BY <1>2 DEF InLine, OnLine
<1>5. out \ gone = rest
  <2>1. ASSUME NEW f \in rest PROVE f \notin gone
    <3>1. f \in Frame
      BY <1>4
    <3>2. rank[f] \in Nat
      BY <3>1
    <3> QED
      BY <1>3, <3>2 DEF Below
  <2>2. out \subseteq gone \cup rest
    BY <1>2 DEF OnLine
  <2> QED
    BY <1>4, <2>1, <2>2
<1>6. /\ FramesIn(Append(C, Head(D))) = FramesIn(C) \cup gone
      /\ Climbs(Append(C, Head(D)), rank)
  <2>1. Below(FramesIn(C), gone, rank)
    BY <1>4 DEF InLine, Below
  <2> QED
    BY <1>1, <1>2, <2>1, LineAppend DEF InLine
<1>7. Below(FramesIn(C) \cup gone, out \ gone, rank)
  BY <1>3, <1>5 DEF InLine, Below
<1> HIDE DEF gone, rest
<1>8. InLine(Append(C, Head(D)), Tail(D), I, Q, p, out \ gone, rank)
  <2>1. Below(FramesIn(Tail(D)), FramesIn(I) \cup FramesIn(Q) \cup Elems(p), rank)
    BY <1>2 DEF InLine, Below
  <2>2. OnLine(Tail(D), I, Q, p) \subseteq out \ gone
    BY <1>5 DEF OnLine, rest
  <2>3. Below(FramesIn(Append(C, Head(D))), out \ gone, rank)
    BY <1>6, <1>7
  <2> QED
    BY <1>2, <1>6, <2>1, <2>2, <2>3 DEF InLine
<1>9. out \ gone \subseteq OnLine(Tail(D), I, Q, p)
  BY <1>5 DEF OnLine, rest
<1> QED
  BY <1>4, <1>6, <1>8, <1>9 DEF gone

\* The first deferred batch is passed over.
LEMMA LineDrops ==
    ASSUME NEW B, NEW C, NEW D \in Seq(B), NEW I, NEW Q, NEW p, NEW out, NEW rank,
           InLine(C, D, I, Q, p, out, rank), D # <<>>
    PROVE /\ InLine(C, Tail(D), I, Q, p, out, rank)
          /\ OnLine(D, I, Q, p) \subseteq Elems(ListOf(Head(D))) \cup OnLine(Tail(D), I, Q, p)
<1>1. /\ FramesIn(D) = Elems(ListOf(Head(D))) \cup FramesIn(Tail(D)) /\ Climbs(Tail(D), rank)
  BY LineTail DEF InLine
<1>2. Below(FramesIn(Tail(D)), FramesIn(I) \cup FramesIn(Q) \cup Elems(p), rank)
  BY <1>1 DEF InLine, Below
<1>3. OnLine(D, I, Q, p) = Elems(ListOf(Head(D))) \cup OnLine(Tail(D), I, Q, p)
  BY <1>1 DEF OnLine
<1> QED
  BY <1>1, <1>2, <1>3 DEF InLine

\* A pass takes the inbox over.
LEMMA LineDelivers ==
    ASSUME NEW B, NEW C, NEW D \in Seq(B), NEW I \in Seq(B), NEW Q, NEW p, NEW out, NEW rank,
           InLine(C, D, I, Q, p, out, rank)
    PROVE /\ InLine(C, D \o I, <<>>, Q, p, out, rank)
          /\ OnLine(D, I, Q, p) \subseteq OnLine(D \o I, <<>>, Q, p)
<1>1. Below(FramesIn(D), FramesIn(I), rank)
  BY DEF InLine, Below
<1>2. FramesIn(D \o I) = FramesIn(D) \cup FramesIn(I) /\ Climbs(D \o I, rank)
  BY <1>1, LineConcat DEF InLine
<1>3. FramesIn(<<>>) = {} /\ Climbs(<<>>, rank)
  BY NothingIn
<1>4. Below(FramesIn(D \o I), FramesIn(<<>>) \cup FramesIn(Q) \cup Elems(p), rank)
  BY <1>2, <1>3 DEF InLine, Below
<1>5. Below(FramesIn(<<>>), FramesIn(Q) \cup Elems(p), rank)
  BY <1>3 DEF Below
<1>6. OnLine(D \o I, <<>>, Q, p) = OnLine(D, I, Q, p)
  BY <1>2, <1>3 DEF OnLine
<1> QED
  BY <1>2, <1>3, <1>4, <1>5, <1>6 DEF InLine

\* The engine finalizes the head of the queue.
LEMMA LineCertifies ==
    ASSUME NEW B, NEW C, NEW D, NEW I \in Seq(B), NEW Q \in Seq(B), NEW p, NEW out, NEW rank,
           InLine(C, D, I, Q, p, out, rank), Q # <<>>
    PROVE /\ InLine(C, D, Append(I, Head(Q)), Tail(Q), p, out, rank)
          /\ OnLine(D, I, Q, p) \subseteq OnLine(D, Append(I, Head(Q)), Tail(Q), p)
          /\ Below(Elems(ListOf(Head(Q))), FramesIn(Tail(Q)) \cup Elems(p), rank)
          /\ Elems(ListOf(Head(Q))) \cup FramesIn(Tail(Q)) \subseteq FramesIn(Q)
<1> DEFINE h == Elems(ListOf(Head(Q)))
<1>1. /\ FramesIn(Q) = h \cup FramesIn(Tail(Q)) /\ Climbs(Tail(Q), rank)
      /\ Rises(ListOf(Head(Q)), rank) /\ Below(h, FramesIn(Tail(Q)), rank)
  BY LineTail DEF InLine
<1>2. Below(FramesIn(I), h, rank)
  BY <1>1 DEF InLine, Below
<1>3. Head(Q) \in B
  BY HeadTailProperties
<1>4. /\ FramesIn(Append(I, Head(Q))) = FramesIn(I) \cup h
      /\ Climbs(Append(I, Head(Q)), rank)
  BY <1>1, <1>2, <1>3, LineAppend DEF InLine
<1> HIDE DEF h
<1>5. Below(h, FramesIn(Tail(Q)) \cup Elems(p), rank)
  BY <1>1 DEF InLine, Below
<1>6. Below(FramesIn(I) \cup h, FramesIn(Tail(Q)) \cup Elems(p), rank)
  BY <1>1, <1>5 DEF InLine, Below
<1>7. Below(FramesIn(D), (FramesIn(I) \cup h) \cup FramesIn(Tail(Q)) \cup Elems(p), rank)
  BY <1>1 DEF InLine, Below
<1>8. Below(FramesIn(Tail(Q)), Elems(p), rank)
  BY <1>1 DEF InLine, Below
<1>9. OnLine(D, Append(I, Head(Q)), Tail(Q), p) = OnLine(D, I, Q, p)
  BY <1>1, <1>4 DEF OnLine
<1>10. InLine(C, D, Append(I, Head(Q)), Tail(Q), p, out, rank)
  BY <1>1, <1>4, <1>6, <1>7, <1>8, <1>9 DEF InLine
<1> QED
  BY <1>1, <1>5, <1>9, <1>10 DEF h

\* The engine finalizes another validator's batch.
LEMMA LineAdmits ==
    ASSUME NEW B, NEW C, NEW D, NEW I \in Seq(B), NEW Q, NEW p, NEW out, NEW rank,
           InLine(C, D, I, Q, p, out, rank), NEW b \in B, b \in AlienBatches
    PROVE /\ InLine(C, D, Append(I, b), Q, p, out, rank)
          /\ OnLine(D, I, Q, p) \subseteq OnLine(D, Append(I, b), Q, p)
<1>1. ListOf(b) = <<>>
  BY DEF ListOf
<1>2. Elems(ListOf(b)) = {} /\ Rises(ListOf(b), rank)
  BY <1>1, NothingIn
<1>3. Below(FramesIn(I), Elems(ListOf(b)), rank)
  BY <1>2 DEF Below
<1>4. FramesIn(Append(I, b)) = FramesIn(I) /\ Climbs(Append(I, b), rank)
  <2>1. FramesIn(Append(I, b)) = FramesIn(I) \cup Elems(ListOf(b))
    BY LineAppend
  <2>2. Climbs(Append(I, b), rank)
    BY <1>2, <1>3, LineAppend DEF InLine
  <2> QED
    BY <1>2, <2>1, <2>2
<1>5. OnLine(D, Append(I, b), Q, p) = OnLine(D, I, Q, p)
  BY <1>4 DEF OnLine
<1> QED
  BY <1>4, <1>5 DEF InLine

Splits(p, b, r, rank) ==
    /\ Elems(p) = Elems(b) \cup Elems(r)
    /\ Rises(b, rank) /\ Rises(r, rank) /\ Below(Elems(b), Elems(r), rank)

\* The front of the pending frames is proposed.
LEMMA LineProposes ==
    ASSUME NEW B, NEW C, NEW D, NEW I, NEW Q \in Seq(B), NEW p, NEW out, NEW rank,
           InLine(C, D, I, Q, p, out, rank), NEW b \in B, b \notin AlienBatches, NEW r,
           Splits(p, b, r, rank)
    PROVE /\ InLine(C, D, I, Append(Q, b), r, out, rank)
          /\ OnLine(D, I, Q, p) \subseteq OnLine(D, I, Append(Q, b), r)
          /\ FramesIn(Append(Q, b)) \cup Elems(r) \subseteq FramesIn(Q) \cup Elems(p)
<1>0. /\ Elems(p) = Elems(b) \cup Elems(r)
      /\ Rises(b, rank) /\ Rises(r, rank) /\ Below(Elems(b), Elems(r), rank)
  BY DEF Splits
<1>1. ListOf(b) = b
  BY DEF ListOf
<1>2. Below(FramesIn(Q), Elems(b), rank)
  BY <1>0 DEF InLine, Below
<1>3. FramesIn(Append(Q, b)) = FramesIn(Q) \cup Elems(b) /\ Climbs(Append(Q, b), rank)
  <2>1. FramesIn(Append(Q, b)) = FramesIn(Q) \cup Elems(ListOf(b))
    BY LineAppend
  <2>2. Climbs(Append(Q, b), rank)
    BY <1>0, <1>1, <1>2, LineAppend DEF InLine
  <2> QED
    BY <1>1, <2>1, <2>2
<1>4. FramesIn(Append(Q, b)) \cup Elems(r) = FramesIn(Q) \cup Elems(p)
  BY <1>0, <1>3
<1>5. Below(FramesIn(Append(Q, b)), Elems(r), rank)
  BY <1>0, <1>3 DEF InLine, Below
<1>6. Below(FramesIn(I), FramesIn(Append(Q, b)) \cup Elems(r), rank)
  BY <1>4 DEF InLine, Below
<1>7. Below(FramesIn(D), FramesIn(I) \cup FramesIn(Append(Q, b)) \cup Elems(r), rank)
  BY <1>4 DEF InLine, Below
<1>8. OnLine(D, I, Append(Q, b), r) = OnLine(D, I, Q, p)
  BY <1>4 DEF OnLine
<1> QED
  BY <1>0, <1>3, <1>4, <1>5, <1>6, <1>7, <1>8 DEF InLine

\* Only the ranks of the frames on a line matter to it.
LEMMA RisesAgree ==
    ASSUME NEW s, NEW r1, NEW r2, \A f \in Elems(s) : r2[f] = r1[f], Rises(s, r1)
    PROVE Rises(s, r2)
BY DEF Rises, Elems

LEMMA ClimbsAgree ==
    ASSUME NEW q, NEW r1, NEW r2, \A f \in FramesIn(q) : r2[f] = r1[f], Climbs(q, r1)
    PROVE Climbs(q, r2)
<1>1. ASSUME NEW i \in DOMAIN q PROVE \A f \in Elems(ListOf(q[i])) : r2[f] = r1[f]
  BY DEF FramesIn
<1>2. ASSUME NEW i \in DOMAIN q PROVE Rises(ListOf(q[i]), r2)
  BY <1>1, RisesAgree DEF Climbs
<1>3. ASSUME NEW i \in DOMAIN q, NEW j \in DOMAIN q, i < j
      PROVE Below(Elems(ListOf(q[i])), Elems(ListOf(q[j])), r2)
  <2>1. Below(Elems(ListOf(q[i])), Elems(ListOf(q[j])), r1)
    BY <1>3 DEF Climbs
  <2> QED
    BY <1>1, <2>1 DEF Below
<1> QED
  BY <1>2, <1>3 DEF Climbs

Newcomer(f, C, out, rank, top) ==
    /\ f \notin FramesIn(C) \cup out /\ FramesIn(C) \subseteq Frame
    /\ \A g \in FramesIn(C) \cup out : rank[g] < top

\* A new frame joins the end.
LEMMA LineSubmits ==
    ASSUME NEW C, NEW D, NEW I, NEW Q, NEW p \in Seq(Frame),
           NEW out \in SUBSET Frame, NEW rank \in [Frame -> Nat],
           InLine(C, D, I, Q, p, out, rank),
           NEW f \in Frame, NEW top \in Nat, Newcomer(f, C, out, rank, top)
    PROVE LET r2 == [rank EXCEPT ![f] = top]
          IN  /\ InLine(C, D, I, Q, Append(p, f), out \cup {f}, r2)
              /\ OnLine(D, I, Q, p) \cup {f} \subseteq OnLine(D, I, Q, Append(p, f))
<1> DEFINE r2 == [rank EXCEPT ![f] = top]
           n == Len(p)
           s == Append(p, f)
<1>1. r2[f] = top /\ \A g \in FramesIn(C) \cup out : r2[g] = rank[g] /\ r2[g] < top
  BY DEF Newcomer
<1>2. /\ n \in Nat /\ DOMAIN p = 1..n /\ DOMAIN s = 1..(n + 1) /\ s[n + 1] = f
      /\ \A i \in 1..n : s[i] = p[i]
  BY AppendProperties
<1> HIDE DEF r2, n, s
<1>3. n + 1 \in 1..(n + 1) /\ \A i \in 1..(n + 1) : i \in 1..n \/ i = n + 1
  BY <1>2
<1>4. \A i \in 1..n : i \in 1..(n + 1)
  BY <1>2
<1>5. Elems(s) = Elems(p) \cup {f}
  BY <1>2, <1>3, <1>4 DEF Elems
<1>6. OnLine(D, I, Q, p) \subseteq out
  BY DEF InLine
<1>7. /\ FramesIn(D) \subseteq out /\ FramesIn(I) \subseteq out /\ FramesIn(Q) \subseteq out
      /\ Elems(p) \subseteq out
  BY <1>6 DEF OnLine
<1>8. Climbs(C, r2) /\ Climbs(D, r2) /\ Climbs(I, r2) /\ Climbs(Q, r2)
  BY <1>1, <1>7, ClimbsAgree DEF InLine
<1>9. Rises(s, r2)
  <2> SUFFICES ASSUME NEW i \in 1..(n + 1), NEW j \in 1..(n + 1), i < j
               PROVE r2[s[i]] < r2[s[j]]
    BY <1>2 DEF Rises
  <2>0. i \in 1..n
    BY <1>2
  <2>1. i \in 1..n /\ s[i] = p[i] /\ p[i] \in Elems(p)
    BY <1>2, <2>0 DEF Elems
  <2>2. CASE j \in 1..n
    <3>1. s[j] = p[j] /\ p[j] \in Elems(p) /\ rank[p[i]] < rank[p[j]]
      BY <1>2, <2>1, <2>2 DEF Elems, InLine, Rises
    <3> QED
      BY <1>1, <1>7, <2>1, <3>1
  <2>3. CASE j = n + 1
    BY <1>1, <1>2, <1>7, <2>1, <2>3
  <2> QED
    BY <1>3, <2>2, <2>3
<1>10. /\ Below(FramesIn(D), FramesIn(I) \cup FramesIn(Q) \cup Elems(s), r2)
       /\ Below(FramesIn(I), FramesIn(Q) \cup Elems(s), r2)
       /\ Below(FramesIn(Q), Elems(s), r2)
       /\ Below(FramesIn(C), out \cup {f}, r2)
  <2>1. Below(FramesIn(D), FramesIn(I) \cup FramesIn(Q) \cup Elems(s), r2)
    BY <1>1, <1>5, <1>7 DEF InLine, Below
  <2>2. Below(FramesIn(I), FramesIn(Q) \cup Elems(s), r2)
    BY <1>1, <1>5, <1>7 DEF InLine, Below
  <2>3. Below(FramesIn(Q), Elems(s), r2)
    BY <1>1, <1>5, <1>7 DEF InLine, Below
  <2>4. Below(FramesIn(C), out \cup {f}, r2)
    BY <1>1 DEF InLine, Below
  <2> QED
    BY <2>1, <2>2, <2>3, <2>4
<1>11. OnLine(D, I, Q, s) = OnLine(D, I, Q, p) \cup {f}
  BY <1>5 DEF OnLine
<1>12. InLine(C, D, I, Q, s, out \cup {f}, r2)
  BY <1>6, <1>8, <1>9, <1>10, <1>11 DEF InLine
<1> QED
  BY <1>11, <1>12 DEF r2, s

\* The cutover starts the line over with the custody, sorted.
LEMMA LineCarries ==
    ASSUME NEW C, NEW s, NEW out, NEW r1, NEW r2, Climbs(C, r1),
           \A g \in FramesIn(C) : r2[g] = r1[g],
           Elems(s) = out, Rises(s, r2), Below(FramesIn(C), out, r2)
    PROVE InLine(C, <<>>, <<>>, <<>>, s, out, r2) /\ out \subseteq OnLine(<<>>, <<>>, <<>>, s)
<1>1. FramesIn(<<>>) = {} /\ Climbs(<<>>, r2)
  BY NothingIn
<1>2. Climbs(C, r2)
  BY ClimbsAgree
<1>3. OnLine(<<>>, <<>>, <<>>, s) = out
  BY <1>1 DEF OnLine
<1> QED
  BY <1>1, <1>2, <1>3 DEF InLine, Below

Dealt(s, r1, top, r2, t2) ==
    /\ \A f \in Frame \ outstanding : r2[f] = r1[f]
    /\ \A f \in outstanding : top <= r2[f] /\ r2[f] < t2
    /\ top <= t2
    /\ Rises(s, r2)
    /\ \A f, g \in outstanding : SeqOf[f] < SeqOf[g] => r2[f] < r2[g]

\* A carry holds every frame of the custody once, so it can be ranked by its
\* positions.
LEMMA CarryRanks ==
    ASSUME outstanding \subseteq Frame, NEW s \in Carries,
           NEW rank \in [Frame -> Nat], NEW top \in Nat
    PROVE \E r2 \in [Frame -> Nat], t2 \in Nat : Dealt(s, rank, top, r2, t2)
<1> DEFINE n == Cardinality(outstanding)
<1>1. IsFiniteSet(outstanding) /\ n \in Nat
  BY NodeAssumption, FS_Subset, FS_CardinalityType
<1>2. /\ s \in [1..n -> outstanding] /\ Elems(s) = outstanding /\ DOMAIN s = 1..n
      /\ \A i, j \in 1..n : i < j => SeqOf[s[i]] <= SeqOf[s[j]]
  BY DEF Carries
<1> HIDE DEF n
<1>3. \A i, j \in 1..n : s[i] = s[j] => i = j
  <2>1. IsFiniteSet(1..n) /\ Cardinality(1..n) = n
    BY <1>1, FS_Interval
  <2>2. s \in Surjection(1..n, outstanding)
    BY <1>2 DEF Surjection, Elems
  <2>3. s \in Injection(1..n, outstanding)
    BY <1>1, <2>1, <2>2, FS_SurjSameCardinalityImpliesInj DEF n
  <2> QED
    BY <2>3 DEF Injection, IsInjective
<1> DEFINE at(f) == CHOOSE i \in 1..n : s[i] = f
           r2 == [f \in Frame |-> IF f \in outstanding THEN top + at(f) ELSE rank[f]]
<1>4. \A f \in outstanding : at(f) \in 1..n /\ s[at(f)] = f
  BY <1>2 DEF Elems
<1>5. \A i \in 1..n : at(s[i]) = i /\ s[i] \in outstanding
  BY <1>2, <1>3, <1>4
<1> HIDE DEF at
<1>6. r2 \in [Frame -> Nat]
  <2>1. \A f \in outstanding : top + at(f) \in Nat
    BY <1>1, <1>4
  <2> QED
    BY <2>1
<1>7. \A f \in outstanding : r2[f] = top + at(f)
  OBVIOUS
<1>8. \A f \in Frame \ outstanding : r2[f] = rank[f]
  OBVIOUS
<1> HIDE DEF r2
<1>9. \A f \in outstanding : top <= r2[f] /\ r2[f] < top + n + 1
  BY <1>1, <1>4, <1>7
<1>10. Rises(s, r2)
  <2> SUFFICES ASSUME NEW i \in 1..n, NEW j \in 1..n, i < j PROVE r2[s[i]] < r2[s[j]]
    BY <1>2 DEF Rises
  <2>1. r2[s[i]] = top + i /\ r2[s[j]] = top + j
    BY <1>5, <1>7
  <2> QED
    BY <1>1, <2>1
<1>11. ASSUME NEW f \in outstanding, NEW g \in outstanding, SeqOf[f] < SeqOf[g]
       PROVE r2[f] < r2[g]
  <2>1. at(f) \in 1..n /\ at(g) \in 1..n /\ s[at(f)] = f /\ s[at(g)] = g
    BY <1>4
  <2>2. SeqOf[f] \in Nat /\ SeqOf[g] \in Nat
    BY NodeAssumption
  <2>3. ~(at(g) < at(f))
    BY <1>2, <1>11, <2>1, <2>2
  <2>4. at(f) # at(g)
    BY <1>11, <2>1, <2>2
  <2>5. at(f) < at(g)
    BY <1>1, <2>1, <2>3, <2>4
  <2> QED
    BY <1>1, <1>7, <2>1, <2>5
<1>12. top + n + 1 \in Nat /\ top <= top + n + 1
  BY <1>1
<1>13. Dealt(s, rank, top, r2, top + n + 1)
  BY <1>8, <1>9, <1>10, <1>11, <1>12 DEF Dealt
<1> QED
  BY <1>6, <1>12, <1>13
--------------------------------------------------------------------------------
Own(b, A)   == b \in Seq(A) /\ b # <<>>
Known(b, A) == b \in AlienBatches \/ Own(b, A)

\* What is on the line is another validator's or packed from accepted frames.
Owned ==
    /\ accepted \subseteq Frame /\ accepted \cap AlienFrames = {}
    /\ pending \in Seq(accepted)
    /\ \A i \in DOMAIN queue : Own(queue[i], accepted)
    /\ \A i \in DOMAIN inbox : Known(inbox[i].batch, accepted)
    /\ \A i \in DOMAIN deferred : Known(deferred[i].batch, accepted)
    /\ \A i \in DOMAIN chain : Known(chain[i].batch, accepted)
    /\ \A b \in seen : Known(b, accepted)

\* Custody is what was accepted and not sealed; what the engine has finalized
\* is no longer proposed.
Settled ==
    /\ outstanding = accepted \ FramesIn(BatchesOf(chain))
    /\ \A i \in DOMAIN chain : ~chain[i].ran => chain[i].batch \in AlienBatches
    /\ window \in Seq(Batches(chain))
    /\ \A b \in seen : b \notin AlienBatches =>
          Elems(b) \cap (FramesIn(queue) \cup Elems(pending)) = {}

\* Once a view at or past the ceiling is reached, nothing is sealed until the
\* cutover.
Clocks ==
    /\ turn \in {"idle", "flush", "drain", "tick", "halted"}
    /\ turn \in {"idle", "flush", "tick"} => pass.last = 0
    /\ ceiling # 0 /\ lastEngineView >= ceiling => turn \in {"tick", "halted"}
    /\ turn = "drain" => \A i \in DOMAIN deferred : deferred[i].view > pass.last

\* What a resumed node passes over is its own journal.
Journal ==
    /\ resumeFloor = Len(Recovered) /\ appliedFloor >= resumeFloor
    /\ epoch = 0 => viewBase = 0
    /\ epoch # 0 => viewBase >= resumeFloor
    /\ \A i \in DOMAIN deferred :
          viewBase + deferred[i].view <= resumeFloor => deferred[i].batch \in AlienBatches
    /\ \A i \in DOMAIN inbox :
          viewBase + inbox[i].view <= resumeFloor => inbox[i].batch \in AlienBatches

Lane == OnLine(BatchesOf(deferred), BatchesOf(inbox), queue, pending)
Flight == turn = "halted" \/ AwaitingCarry \/ outstanding \subseteq Lane

Ranked(rank, top) ==
    /\ InLine(BatchesOf(chain), BatchesOf(deferred), BatchesOf(inbox), queue, pending,
              outstanding, rank)
    /\ \A f \in accepted : rank[f] < top
    /\ \A f, g \in accepted :
          OriginOf[f] = OriginOf[g] /\ SeqOf[f] < SeqOf[g] => rank[f] < rank[g]

OnceInv ==
    /\ AscendInv /\ Clocks /\ Journal
    /\ Owned /\ Settled /\ Flight
    /\ \E rank \in [Frame -> Nat], top \in Nat : Ranked(rank, top)

LEMMA NextClocks ==
    ASSUME Ascending, AscendInv, Clocks, [Next]_vars
    PROVE Clocks'
<1>1. LaneTypeOK
  BY DEF AscendInv, HeightInv
<1>2. /\ deferred \in Seq(Delivery) /\ inbox \in Seq(Delivery) /\ pass.last \in Nat
      /\ lastEngineView \in Nat /\ ceiling \in Nat
  BY <1>1 DEF LaneTypeOK
<1>3. pass \in [last : Nat, sealed : Nat, broke : BOOLEAN] /\ NoPass.last = 0
  BY <1>1 DEF LaneTypeOK, NoPass
<1> USE DEF custodyVars, engineVars, epochVars, boundary, drainVars
<1>4. ASSUME UNCHANGED <<ceiling, lastEngineView, deferred, pass>>,
             turn' = turn \/ turn' = "halted"
      PROVE Clocks'
  BY <1>4 DEF Clocks
<1>5. ASSUME NEW f \in Frame, Submit(f) PROVE Clocks'
  BY <1>4, <1>5 DEF Submit
<1>6. ASSUME BeginFlush \/ EndFlush PROVE Clocks'
  BY <1>6 DEF BeginFlush, EndFlush, Clocks
<1>7. ASSUME ProposeBatch PROVE Clocks'
  BY <1>4, <1>7 DEF ProposeBatch
<1>8. ASSUME NEW v \in View, NEW b, Certify(v, b) PROVE Clocks'
  BY <1>4, <1>8 DEF Certify
<1>9. CASE BeginDrain
  <2>1. /\ turn = "idle" /\ turn' = "drain" /\ deferred' = deferred \o inbox
        /\ pass'.last = 0 /\ UNCHANGED <<ceiling, lastEngineView>>
    BY <1>3, <1>9 DEF BeginDrain
  <2>2. deferred' \in Seq(Delivery)
    BY <1>2, <2>1, ConcatProperties
  <2>3. \A d \in Delivery : d.view > 0
    BY NodeAssumption DEF Delivery, View
  <2>4. \A i \in DOMAIN deferred' : deferred'[i].view > 0
    BY <2>2, <2>3
  <2> QED
    BY <2>1, <2>4 DEF Clocks
<1>10. ASSUME deferred # <<>>, turn = "drain", deferred' = Tail(deferred), pass'.last = Block.view,
              UNCHANGED <<turn, ceiling, lastEngineView>>
       PROVE Clocks'
  <2> DEFINE n == Len(deferred)
  <2>1. /\ n \in Nat /\ n >= 1 /\ DOMAIN deferred = 1..n /\ DOMAIN deferred' = 1..(n - 1)
        /\ \A i \in 1..(n - 1) : deferred'[i] = deferred[i + 1]
    BY <1>2, <1>10, HeadTailProperties
  <2>2. Block = deferred[1]
    BY <1>1, <1>10, FirstBlock
  <2> HIDE DEF n
  <2>3. \A i \in 1..(n - 1) : i + 1 \in 1..n /\ 1 \in 1..n /\ 1 < i + 1
    BY <2>1
  <2>4. \A i \in 1..(n - 1) : deferred[1].view < deferred[i + 1].view
    BY <2>1, <2>3 DEF AscendInv, LaneAscends
  <2>4a. \A i \in 1..n : deferred[i].view \in Nat
    <3>1. \A d \in Delivery : d.view \in Nat
      BY NodeAssumption DEF Delivery, View
    <3> QED
      BY <1>2, <2>1, <3>1
  <2>5. \A i \in DOMAIN deferred' : deferred'[i].view > pass'.last
    BY <1>10, <2>1, <2>2, <2>3, <2>4, <2>4a
  <2> QED
    BY <1>10, <2>5 DEF Clocks
<1>11. CASE SkipResumeReplay \/ Discard
  <2>1. /\ deferred # <<>> /\ turn = "drain" /\ deferred' = Tail(deferred)
        /\ UNCHANGED <<turn, ceiling, lastEngineView>>
        /\ pass' = [pass EXCEPT !.last = Block.view]
    BY <1>11 DEF SkipResumeReplay, Discard, Reaches, Draining, PassOver
  <2>2. pass'.last = Block.view
    BY <1>3, <2>1
  <2> QED
    BY <1>10, <2>1, <2>2
<1>12. CASE SealRefused
  <2>1. /\ deferred # <<>> /\ turn = "drain" /\ deferred' = Tail(deferred)
        /\ UNCHANGED <<turn, ceiling, lastEngineView>>
        /\ pass' = [pass EXCEPT !.last = Block.view, !.sealed = Block.view]
    BY <1>12 DEF SealRefused, Reaches, Draining, Seal
  <2>2. pass'.last = Block.view
    BY <1>3, <2>1
  <2> QED
    BY <1>10, <2>1, <2>2
<1>13. ASSUME NEW moved \in BOOLEAN, Execute(moved) PROVE Clocks'
  <2>1. /\ deferred # <<>> /\ turn = "drain" /\ deferred' = Tail(deferred)
        /\ UNCHANGED <<turn, ceiling, lastEngineView>>
        /\ pass'.last = Block.view
    BY <1>13 DEF Execute, Reaches, Draining, Seal
  <2> QED
    BY <1>10, <2>1
<1>14. CASE Stall
  <2>1. turn = "drain" /\ turn' = "tick" /\ pass'.last = 0 /\ UNCHANGED <<ceiling, lastEngineView>>
    BY <1>3, <1>14 DEF Stall, Reaches, Draining
  <2> QED
    BY <2>1 DEF Clocks
<1>15. CASE EndDrain
  <2>1. turn' = "tick" /\ pass'.last = 0
    BY <1>3, <1>15 DEF EndDrain
  <2> QED
    BY <2>1 DEF Clocks
<1>16. CASE RefuseOutOfOrder \/ HostFatal \/ Demoted
  BY <1>16 DEF RefuseOutOfOrder, HostFatal, Demoted, Clocks
<1>17. CASE Observe
  <2>1. /\ turn = "tick" /\ turn' = "idle" /\ UNCHANGED <<pass, lastEngineView>>
        /\ ceiling' = Armed /\ ~Due
    BY <1>17 DEF Observe
  <2>2. ~(ceiling' # 0 /\ lastEngineView >= ceiling')
    BY <2>1 DEF Due
  <2> QED
    BY <2>1, <2>2 DEF Clocks
<1>18. CASE Cutover
  <2>1. turn = "tick" /\ turn' = "flush" /\ ceiling' = 0 /\ UNCHANGED pass
    BY <1>18 DEF Cutover, Due
  <2> QED
    BY <2>1 DEF Clocks
<1>19. CASE UNCHANGED vars
  BY <1>4, <1>19 DEF vars
<1> QED
  BY <1>5, <1>6, <1>7, <1>8, <1>9, <1>11, <1>12, <1>13, <1>14, <1>15, <1>16, <1>17, <1>18,
     <1>19 DEF Next, Drain

\* What a batch of the recovered history, or of another validator, is.
LEMMA RecoveredAlien == \A v \in 1..Len(Recovered) : Recovered[v] \in AlienBatches
<1>1. Recovered \in Seq(Elems(Recovered))
  BY NodeAssumption
<1> QED
  BY <1>1 DEF AlienBatches

LEMMA NextJournal ==
    ASSUME AscendInv, Journal, [Next]_vars
    PROVE Journal'
<1>1. LaneTypeOK
  BY DEF AscendInv, HeightInv
<1>2. /\ deferred \in Seq(Delivery) /\ inbox \in Seq(Delivery)
      /\ resumeFloor \in Nat /\ viewBase \in Nat /\ epoch \in Nat /\ appliedFloor \in Nat
      /\ ceiling \in Nat
  BY <1>1 DEF LaneTypeOK
<1> USE DEF custodyVars, engineVars, epochVars, boundary, drainVars
<1>3. ASSUME UNCHANGED <<resumeFloor, appliedFloor, epoch, viewBase, deferred, inbox>>
      PROVE Journal'
  BY <1>3 DEF Journal
<1>4. ASSUME NEW v \in View, NEW b \in Foreign \cup Elems(queue) \cup Elems(Recovered),
             Certify(v, b)
      PROVE Journal'
  <2> DEFINE e == [view |-> v, batch |-> b]
             n == Len(inbox)
  <2>1. /\ UNCHANGED <<resumeFloor, appliedFloor, epoch, viewBase, deferred>>
        /\ inbox' = inbox \/ inbox' = Append(inbox, e)
    BY <1>4 DEF Certify
  <2>2. v \in Nat /\ v >= 1
    BY NodeAssumption DEF View
  <2>3. viewBase + v <= resumeFloor => b \in AlienBatches
    <3> SUFFICES ASSUME viewBase + v <= resumeFloor PROVE b \in AlienBatches
      OBVIOUS
    <3>1. epoch = 0
      BY <1>2, <2>2 DEF Journal
    <3>2. v <= Len(Recovered)
      BY <1>2, <2>2, <3>1 DEF Journal
    <3>3. b = Recovered[v]
      BY <1>4, <3>1, <3>2 DEF Certify, MayCertify
    <3>4. v \in 1..Len(Recovered)
      BY <1>2, <2>2, <3>2 DEF Journal
    <3> QED
      BY <3>3, <3>4, RecoveredAlien
  <2>4. CASE inbox' = inbox
    BY <1>3, <2>1, <2>4
  <2>5. CASE inbox' = Append(inbox, e)
    <3>1. /\ n \in Nat /\ DOMAIN inbox = 1..n /\ DOMAIN inbox' = 1..(n + 1)
          /\ inbox'[n + 1] = e /\ \A i \in 1..n : inbox'[i] = inbox[i]
      BY <1>2, <2>5
    <3>2. e.view = v /\ e.batch = b
      OBVIOUS
    <3> HIDE DEF e, n
    <3>3. \A i \in DOMAIN inbox' : i \in 1..n \/ i = n + 1
      BY <3>1
    <3>4. \A i \in DOMAIN inbox' :
            viewBase + inbox'[i].view <= resumeFloor => inbox'[i].batch \in AlienBatches
      BY <2>3, <3>1, <3>2, <3>3 DEF Journal
    <3> QED
      BY <2>1, <3>4 DEF Journal
  <2> QED
    BY <2>1, <2>4, <2>5
<1>5. CASE BeginDrain
  <2> DEFINE m == Len(deferred)
             n == Len(inbox)
  <2>1. /\ deferred' = deferred \o inbox /\ inbox' = <<>>
        /\ UNCHANGED <<resumeFloor, appliedFloor, epoch, viewBase>>
    BY <1>5 DEF BeginDrain
  <2>2. /\ m \in Nat /\ n \in Nat /\ DOMAIN deferred = 1..m /\ DOMAIN inbox = 1..n
        /\ DOMAIN deferred' = 1..(m + n) /\ DOMAIN inbox' = {}
        /\ \A i \in 1..(m + n) : deferred'[i] = IF i <= m THEN deferred[i] ELSE inbox[i - m]
    BY <1>2, <2>1
  <2> HIDE DEF m, n
  <2>3. \A i \in 1..(m + n) : \/ i \in 1..m /\ deferred'[i] = deferred[i]
                              \/ i - m \in 1..n /\ deferred'[i] = inbox[i - m]
    BY <2>2
  <2>4. \A i \in DOMAIN deferred' :
          viewBase + deferred'[i].view <= resumeFloor => deferred'[i].batch \in AlienBatches
    BY <2>2, <2>3 DEF Journal
  <2> QED
    BY <2>1, <2>2, <2>4 DEF Journal
<1>6. ASSUME deferred # <<>>, deferred' = Tail(deferred),
             UNCHANGED <<resumeFloor, epoch, viewBase, inbox>>,
             appliedFloor' = appliedFloor \/ (appliedFloor' = AppHeight /\ ~IsResumeReplay)
      PROVE Journal'
  <2> DEFINE n == Len(deferred)
  <2>1. /\ n \in Nat /\ n >= 1 /\ DOMAIN deferred = 1..n /\ DOMAIN deferred' = 1..(n - 1)
        /\ \A i \in 1..(n - 1) : deferred'[i] = deferred[i + 1]
    BY <1>2, <1>6, HeadTailProperties
  <2>2. AppHeight \in Nat
    BY <1>1, <1>6, FirstBlock
  <2> HIDE DEF n
  <2>3. \A i \in 1..(n - 1) : i + 1 \in 1..n
    BY <2>1
  <2>4. \A i \in DOMAIN deferred' :
          viewBase + deferred'[i].view <= resumeFloor => deferred'[i].batch \in AlienBatches
    BY <2>1, <2>3 DEF Journal
  <2>5. appliedFloor' >= resumeFloor
    BY <1>2, <1>6, <2>2 DEF Journal, IsResumeReplay
  <2> QED
    BY <1>6, <2>4, <2>5 DEF Journal
<1>7. CASE SkipResumeReplay \/ Discard
  BY <1>6, <1>7 DEF SkipResumeReplay, Discard, Reaches, Draining, PassOver
<1>8. CASE SealRefused
  BY <1>6, <1>8 DEF SealRefused, Reaches, Draining, Seal
<1>9. ASSUME NEW moved \in BOOLEAN, Execute(moved) PROVE Journal'
  BY <1>6, <1>9 DEF Execute, Reaches, Draining, Seal
<1>10. CASE HostFatal
  <2>1. /\ deferred # <<>> /\ ~IsResumeReplay /\ appliedFloor' = AppHeight
        /\ UNCHANGED <<resumeFloor, epoch, viewBase, deferred, inbox>>
    BY <1>10 DEF HostFatal, Reaches, Draining
  <2>2. AppHeight \in Nat
    BY <1>1, <2>1, FirstBlock
  <2>3. appliedFloor' >= resumeFloor
    BY <1>2, <2>1, <2>2 DEF IsResumeReplay
  <2> QED
    BY <2>1, <2>3 DEF Journal
<1>11. CASE Cutover
  <2>1. /\ deferred' = <<>> /\ inbox' = <<>> /\ viewBase' = viewBase + ceiling
        /\ UNCHANGED <<appliedFloor, resumeFloor>> /\ epoch' = epoch + 1
    BY <1>11 DEF Cutover, NextBase
  <2>2. DOMAIN deferred' = {} /\ DOMAIN inbox' = {}
    BY <2>1
  <2>3. ceiling # 0
    BY <1>11, NodeAssumption DEF Cutover, Due, Armed, AscendInv, HeightInv, LaneTypeOK
  <2>4. appliedFloor < viewBase + ceiling
    BY <2>3 DEF AscendInv, HeightInv, CeilingAbove
  <2>5. viewBase' >= resumeFloor /\ epoch' # 0
    BY <1>2, <2>1, <2>4 DEF Journal
  <2> QED
    BY <2>1, <2>2, <2>5 DEF Journal
<1>12. ASSUME NEW f \in Frame, Submit(f) PROVE Journal'
  BY <1>3, <1>12 DEF Submit
<1>13. CASE BeginFlush \/ ProposeBatch \/ EndFlush
  BY <1>3, <1>13 DEF BeginFlush, ProposeBatch, EndFlush
<1>14. CASE RefuseOutOfOrder \/ Stall \/ EndDrain \/ Observe \/ Demoted
  BY <1>3, <1>14 DEF RefuseOutOfOrder, Stall, EndDrain, Observe, Demoted
<1>15. CASE UNCHANGED vars
  BY <1>3, <1>15 DEF vars
<1> QED
  BY <1>4, <1>5, <1>7, <1>8, <1>9, <1>10, <1>11, <1>12, <1>13, <1>14, <1>15 DEF Next, Drain

LEMMA SeqWider ==
    ASSUME NEW A, NEW B, A \subseteq B, NEW s \in Seq(A)
    PROVE s \in Seq(B)
<1>1. Len(s) \in Nat /\ s \in [1..Len(s) -> A]
  OBVIOUS
<1>2. s \in [1..Len(s) -> B]
  BY <1>1
<1> QED
  BY <1>1, <1>2

LEMMA OwnWider ==
    ASSUME NEW A, NEW B, A \subseteq B
    PROVE \A b : (Own(b, A) => Own(b, B)) /\ (Known(b, A) => Known(b, B))
BY SeqWider DEF Own, Known

\* No batch is this node's and another validator's.
LEMMA OwnNotAlien ==
    ASSUME Owned, NEW b, Own(b, accepted)
    PROVE b \notin AlienBatches /\ ListOf(b) = b /\ Members(b) = Elems(b)
          /\ Elems(b) \subseteq accepted /\ Elems(b) # {}
<1>1. b \in Seq(accepted) /\ b # <<>> /\ accepted \subseteq Frame
  BY DEF Own, Owned
<1>2. b \in Seq(Frame)
  BY <1>1, SeqWider
<1>3. b # Junk
  BY <1>2, NodeAssumption
<1>4. Elems(b) \subseteq accepted
  BY <1>1 DEF Elems
<1>5. 1 \in DOMAIN b
  BY <1>1, EmptySeq
<1>6. b[1] \in Elems(b)
  BY <1>5 DEF Elems
<1>7. Members(b) = Elems(b)
  BY <1>3 DEF Members
<1>8. b \notin Foreign \cup Elems(Recovered)
  <2> SUFFICES ASSUME b \in Foreign \cup Elems(Recovered) PROVE FALSE
    OBVIOUS
  <2>1. b[1] \in AlienFrames
    BY <1>6, <1>7 DEF AlienFrames
  <2> QED
    BY <1>4, <1>6, <2>1 DEF Owned
<1> QED
  BY <1>3, <1>4, <1>6, <1>7, <1>8 DEF AlienBatches, ListOf

\* Another validator's batch touches no accepted frame.
LEMMA AlienApart ==
    ASSUME Owned, NEW b \in AlienBatches
    PROVE ListOf(b) = <<>> /\ Elems(ListOf(b)) = {} /\ Members(b) \cap accepted = {}
<1>1. ListOf(b) = <<>> /\ Elems(ListOf(b)) = {}
  BY NothingIn DEF ListOf
<1>2. CASE b = Junk
  BY <1>1, <1>2 DEF Members
<1>3. CASE b \in Foreign \cup Elems(Recovered)
  BY <1>1, <1>3 DEF AlienFrames, Owned
<1> QED
  BY <1>2, <1>3 DEF AlienBatches

\* What the engine finalizes: another validator's batch, which is not queued
\* here, or the head of the queue.
LEMMA CertifyKinds ==
    ASSUME LaneTypeOK, Owned, NEW v \in View,
           NEW b \in Foreign \cup Elems(queue) \cup Elems(Recovered), Certify(v, b)
    PROVE \/ b \in AlienBatches /\ queue' = queue
          \/ b \notin AlienBatches /\ queue # <<>> /\ b = Head(queue) /\ queue' = Tail(queue)
<1>1. queue \in Seq(Batch)
  BY DEF LaneTypeOK
<1>2. \A i \in DOMAIN queue : queue[i] \notin AlienBatches
  BY OwnNotAlien DEF Owned
<1>3. Unqueue(b)
  BY DEF Certify
<1>4. CASE b \in AlienBatches
  <2>1. \A i \in DOMAIN queue : queue[i] # b
    BY <1>2, <1>4
  <2>2. b \notin Elems(queue)
    BY <2>1 DEF Elems
  <2> QED
    BY <1>3, <1>4, <2>1, <2>2 DEF Unqueue
<1>5. CASE b \notin AlienBatches
  <2>1. queue # <<>> /\ b = Head(queue)
    <3>1. CASE epoch = 0 /\ v <= Len(Recovered)
      <4>1. b = Recovered[v]
        BY <3>1 DEF Certify, MayCertify
      <4>2. v \in 1..Len(Recovered)
        BY <3>1, NodeAssumption DEF View
      <4> QED
        BY <1>5, <4>1, <4>2, RecoveredAlien
    <3>2. CASE ~(epoch = 0 /\ v <= Len(Recovered))
      BY <1>5, <3>2 DEF Certify, MayCertify, AlienBatches
    <3> QED
      BY <3>1, <3>2
  <2> DEFINE n == Len(queue)
  <2>2. n \in Nat /\ n >= 1 /\ DOMAIN queue = 1..n /\ queue[1] = b
    BY <1>1, <2>1, EmptySeq
  <2>3. b \in Elems(queue)
    BY <2>2 DEF Elems
  <2>4. PICK k \in 1..n : /\ queue[k] = b /\ \A j \in 1..(k-1) : queue[j] # b
                          /\ queue' = SubSeq(queue, 1, k - 1) \o SubSeq(queue, k + 1, n)
    BY <1>3, <2>2, <2>3 DEF Unqueue
  <2>5. k = 1
    <3> SUFFICES ASSUME k # 1 PROVE FALSE
      OBVIOUS
    <3>1. 1 \in 1..(k - 1)
      BY <2>2, <2>4
    <3> QED
      BY <2>2, <2>4, <3>1
  <2>6. queue' = SubSeq(queue, 1, 0) \o SubSeq(queue, 2, n)
    <3>1. k - 1 = 0 /\ k + 1 = 2
      BY <2>5
    <3> QED
      BY <2>4, <3>1
  <2>7. SubSeq(queue, 1, 0) = <<>>
    BY <1>1
  <2>8. SubSeq(queue, 2, n) = Tail(queue)
    BY <1>1, <2>2
  <2>9. Tail(queue) \in Seq(Batch)
    BY <1>1, <2>1, HeadTailProperties
  <2>10. queue' = <<>> \o Tail(queue)
    BY <2>6, <2>7, <2>8
  <2>11. <<>> \o Tail(queue) = Tail(queue)
    BY <2>9
  <2> QED
    BY <1>5, <2>1, <2>10, <2>11
<1> QED
  BY <1>4, <1>5

LEMMA NextOwned ==
    ASSUME Clients = "inorder", LaneTypeOK, Owned, outstanding \subseteq accepted, [Next]_vars
    PROVE Owned'
<1>1. /\ deferred \in Seq(Delivery) /\ inbox \in Seq(Delivery) /\ queue \in Seq(Batch)
      /\ chain \in Seq(SealedBlock)
  BY DEF LaneTypeOK
<1> USE DEF custodyVars, engineVars, epochVars, boundary, drainVars
<1>2. ASSUME UNCHANGED <<accepted, pending, queue, inbox, deferred, chain, seen>> PROVE Owned'
  BY <1>2 DEF Owned
<1>3. ASSUME NEW f \in Frame, Submit(f) PROVE Owned'
  <2>1. /\ accepted' = accepted \cup {f} /\ pending' = Append(pending, f)
        /\ UNCHANGED <<queue, inbox, deferred, chain, seen>>
    BY <1>3 DEF Submit
  <2>2. f \notin AlienFrames
    BY <1>3 DEF Submit, ClientMay, AlienFrames
  <2>3. pending \in Seq(accepted')
    BY <2>1, SeqWider DEF Owned
  <2>4. pending' \in Seq(accepted')
    BY <2>1, <2>3
  <2>5. \A b : /\ Own(b, accepted) => Own(b, accepted')
               /\ Known(b, accepted) => Known(b, accepted')
    BY <2>1, OwnWider
  <2> QED
    BY <2>1, <2>2, <2>4, <2>5 DEF Owned
<1>4. CASE ProposeBatch
  <2>1. PICK n \in 1..Len(pending) :
          /\ queue' = Append(queue, SubSeq(pending, 1, n))
          /\ pending' = SubSeq(pending, n + 1, Len(pending))
    BY <1>4 DEF ProposeBatch
  <2>2. UNCHANGED <<accepted, inbox, deferred, chain, seen>>
    BY <1>4 DEF ProposeBatch
  <2> DEFINE b == SubSeq(pending, 1, n)
             m == Len(queue)
  <2>3. b \in Seq(accepted) /\ pending' \in Seq(accepted) /\ b # <<>>
    BY <2>1, SplitPending DEF Owned
  <2> HIDE DEF b
  <2>4. /\ m \in Nat /\ DOMAIN queue = 1..m /\ DOMAIN queue' = 1..(m + 1)
        /\ queue'[m + 1] = b /\ \A i \in 1..m : queue'[i] = queue[i]
    BY <1>1, <2>1 DEF b
  <2> HIDE DEF m
  <2>5. \A i \in DOMAIN queue' : i \in 1..m \/ i = m + 1
    BY <2>4
  <2>6. \A i \in DOMAIN queue' : Own(queue'[i], accepted)
    BY <2>3, <2>4, <2>5 DEF Owned, Own
  <2> QED
    BY <2>2, <2>3, <2>6 DEF Owned
<1>5. ASSUME NEW v \in View, NEW b \in Foreign \cup Elems(queue) \cup Elems(Recovered),
             Certify(v, b)
      PROVE Owned'
  <2> DEFINE e == [view |-> v, batch |-> b]
             n == Len(inbox)
             m == Len(queue)
  <2>1. /\ UNCHANGED <<accepted, pending, deferred, chain>> /\ seen' = seen \cup {b}
        /\ inbox' = inbox \/ inbox' = Append(inbox, e)
    BY <1>5 DEF Certify
  <2>2. \/ b \in AlienBatches /\ queue' = queue
        \/ queue # <<>> /\ b = Head(queue) /\ queue' = Tail(queue)
    BY <1>5, CertifyKinds
  <2>3. m \in Nat /\ DOMAIN queue = 1..m
    BY <1>1
  <2>4. Known(b, accepted)
    <3>1. CASE b \in AlienBatches
      BY <3>1 DEF Known
    <3>2. CASE queue # <<>> /\ b = Head(queue)
      <4>1. 1 \in DOMAIN queue /\ b = queue[1]
        BY <1>1, <3>2, EmptySeq
      <4> QED
        BY <4>1 DEF Owned, Known
    <3> QED
      BY <2>2, <3>1, <3>2
  <2>5. \A i \in DOMAIN queue' : Own(queue'[i], accepted)
    <3>1. CASE queue' = queue
      BY <3>1 DEF Owned
    <3>2. CASE queue # <<>> /\ queue' = Tail(queue)
      <4>1. DOMAIN queue' = 1..(m - 1) /\ \A i \in 1..(m - 1) : queue'[i] = queue[i + 1]
        BY <1>1, <3>2, HeadTailProperties
      <4> HIDE DEF m
      <4>2. \A i \in 1..(m - 1) : i + 1 \in 1..m
        BY <2>3
      <4> QED
        BY <2>3, <4>1, <4>2 DEF Owned
    <3> QED
      BY <2>2, <3>1, <3>2
  <2>6. \A i \in DOMAIN inbox' : Known(inbox'[i].batch, accepted)
    <3>1. CASE inbox' = inbox
      BY <3>1 DEF Owned
    <3>2. CASE inbox' = Append(inbox, e)
      <4>1. /\ n \in Nat /\ DOMAIN inbox = 1..n /\ DOMAIN inbox' = 1..(n + 1)
            /\ inbox'[n + 1] = e /\ \A i \in 1..n : inbox'[i] = inbox[i]
        BY <1>1, <3>2
      <4>2. e.batch = b
        OBVIOUS
      <4> HIDE DEF e, n
      <4>3. \A i \in DOMAIN inbox' : i \in 1..n \/ i = n + 1
        BY <4>1
      <4> QED
        BY <2>4, <4>1, <4>2, <4>3 DEF Owned
    <3> QED
      BY <2>1, <3>1, <3>2
  <2>7. \A c \in seen' : Known(c, accepted)
    BY <2>1, <2>4 DEF Owned
  <2> QED
    BY <2>1, <2>5, <2>6, <2>7 DEF Owned
<1>6. CASE BeginDrain
  <2> DEFINE m == Len(deferred)
             n == Len(inbox)
  <2>1. /\ deferred' = deferred \o inbox /\ inbox' = <<>>
        /\ UNCHANGED <<accepted, pending, queue, chain, seen>>
    BY <1>6 DEF BeginDrain
  <2>2. /\ m \in Nat /\ n \in Nat /\ DOMAIN deferred = 1..m /\ DOMAIN inbox = 1..n
        /\ DOMAIN deferred' = 1..(m + n) /\ DOMAIN inbox' = {}
        /\ \A i \in 1..(m + n) : deferred'[i] = IF i <= m THEN deferred[i] ELSE inbox[i - m]
    BY <1>1, <2>1
  <2> HIDE DEF m, n
  <2>3. \A i \in 1..(m + n) : \/ i \in 1..m /\ deferred'[i] = deferred[i]
                              \/ i - m \in 1..n /\ deferred'[i] = inbox[i - m]
    BY <2>2
  <2>4. \A i \in DOMAIN deferred' : Known(deferred'[i].batch, accepted)
    BY <2>2, <2>3 DEF Owned
  <2> QED
    BY <2>1, <2>2, <2>4 DEF Owned
<1>7. ASSUME deferred # <<>>, deferred' = Tail(deferred)
      PROVE /\ \A i \in DOMAIN deferred' : Known(deferred'[i].batch, accepted)
            /\ Known(Block.batch, accepted)
  <2> DEFINE n == Len(deferred)
  <2>1. /\ n \in Nat /\ n >= 1 /\ DOMAIN deferred = 1..n /\ DOMAIN deferred' = 1..(n - 1)
        /\ \A i \in 1..(n - 1) : deferred'[i] = deferred[i + 1]
    BY <1>1, <1>7, HeadTailProperties
  <2>2. Block = deferred[1]
    BY <1>7, FirstBlock
  <2> HIDE DEF n
  <2>3. 1 \in 1..n /\ \A i \in 1..(n - 1) : i + 1 \in 1..n
    BY <2>1
  <2> QED
    BY <2>1, <2>2, <2>3 DEF Owned
<1>8. CASE SkipResumeReplay \/ Discard
  <2>1. /\ deferred # <<>> /\ deferred' = Tail(deferred)
        /\ UNCHANGED <<accepted, pending, queue, inbox, chain, seen>>
    BY <1>8 DEF SkipResumeReplay, Discard, Reaches, Draining, PassOver
  <2> QED
    BY <1>7, <2>1 DEF Owned
<1>9. ASSUME NEW ran \in BOOLEAN, deferred # <<>>, Seal(ran),
             UNCHANGED <<accepted, pending, queue, inbox, seen>>
      PROVE Owned'
  <2> DEFINE e == [epoch |-> epoch, height |-> AppHeight, batch |-> Block.batch, ran |-> ran]
             n == Len(chain)
  <2>1. deferred' = Tail(deferred) /\ chain' = Append(chain, e)
    BY <1>9 DEF Seal
  <2>2. /\ n \in Nat /\ DOMAIN chain = 1..n /\ DOMAIN chain' = 1..(n + 1)
        /\ chain'[n + 1] = e /\ \A i \in 1..n : chain'[i] = chain[i]
    BY <1>1, <2>1
  <2>3. e.batch = Block.batch
    OBVIOUS
  <2> HIDE DEF e, n
  <2>4. \A i \in DOMAIN chain' : i \in 1..n \/ i = n + 1
    BY <2>2
  <2>5. \A i \in DOMAIN chain' : Known(chain'[i].batch, accepted)
    BY <1>7, <1>9, <2>1, <2>2, <2>3, <2>4 DEF Owned
  <2> QED
    BY <1>7, <1>9, <2>1, <2>5 DEF Owned
<1>10. CASE SealRefused
  BY <1>9, <1>10 DEF SealRefused, Reaches, Draining
<1>11. ASSUME NEW moved \in BOOLEAN, Execute(moved) PROVE Owned'
  BY <1>9, <1>11 DEF Execute, Reaches, Draining
<1>12. CASE Cutover
  <2>1. /\ queue' = <<>> /\ seen' = {} /\ inbox' = <<>> /\ deferred' = <<>>
        /\ pending' \in Carries /\ UNCHANGED <<accepted, chain>>
    BY <1>12 DEF Cutover
  <2>2. DOMAIN queue' = {} /\ DOMAIN inbox' = {} /\ DOMAIN deferred' = {}
    BY <2>1
  <2>3. Cardinality(outstanding) \in Nat
    BY NodeAssumption, FS_Subset, FS_CardinalityType DEF LaneTypeOK
  <2>4. pending' \in [1..Cardinality(outstanding) -> accepted]
    BY <2>1 DEF Carries
  <2>5. pending' \in Seq(accepted)
    BY <2>3, <2>4
  <2> QED
    BY <2>1, <2>2, <2>5 DEF Owned
<1>13. CASE BeginFlush \/ EndFlush
  BY <1>2, <1>13 DEF BeginFlush, EndFlush
<1>14. CASE RefuseOutOfOrder \/ Stall \/ HostFatal \/ EndDrain \/ Observe \/ Demoted
  BY <1>2, <1>14 DEF RefuseOutOfOrder, Stall, HostFatal, EndDrain, Observe, Demoted
<1>15. CASE UNCHANGED vars
  BY <1>2, <1>15 DEF vars
<1> QED
  BY <1>3, <1>4, <1>5, <1>6, <1>8, <1>10, <1>11, <1>12, <1>13, <1>14, <1>15 DEF Next, Drain
--------------------------------------------------------------------------------
\* The four stages as lines of batches.
LEMMA Stages ==
    ASSUME LaneTypeOK
    PROVE /\ \A e \in Delivery : e.batch \in Batch
          /\ \A e \in SealedBlock : e.batch \in Batch
          /\ BatchesOf(chain) \in Seq(Batch) /\ BatchesOf(deferred) \in Seq(Batch)
          /\ BatchesOf(inbox) \in Seq(Batch) /\ queue \in Seq(Batch)
<1>1. /\ \A e \in Delivery : e.batch \in Batch
      /\ \A e \in SealedBlock : e.batch \in Batch
  BY DEF Delivery, SealedBlock
<1>2. /\ chain \in Seq(SealedBlock) /\ deferred \in Seq(Delivery) /\ inbox \in Seq(Delivery)
      /\ queue \in Seq(Batch)
  BY DEF LaneTypeOK
<1> QED
  BY <1>1, <1>2, BatchIs

\* What is sealed of this node's frames was accepted.
LEMMA SealedAccepted ==
    ASSUME LaneTypeOK, Owned
    PROVE FramesIn(BatchesOf(chain)) \subseteq accepted
<1>1. DOMAIN BatchesOf(chain) = DOMAIN chain
  BY DEF BatchesOf
<1>2. \A i \in DOMAIN chain : BatchesOf(chain)[i] = chain[i].batch
  BY DEF BatchesOf
<1>3. ASSUME NEW i \in DOMAIN chain PROVE Elems(ListOf(chain[i].batch)) \subseteq accepted
  <2>1. CASE chain[i].batch \in AlienBatches
    BY <2>1, AlienApart
  <2>2. CASE Own(chain[i].batch, accepted)
    BY <2>2, OwnNotAlien
  <2> QED
    BY <2>1, <2>2 DEF Owned, Known
<1> QED
  BY <1>1, <1>2, <1>3 DEF FramesIn

\* While a block can still be sealed, no frame waits for the carry.
LEMMA NoneAwaits ==
    ASSUME LaneTypeOK, Clocks, Reaches, ~IsDiscarded
    PROVE ~AwaitingCarry
<1>1. /\ turn = "drain" /\ deferred # <<>> /\ pass.last \in Nat /\ ceiling \in Nat
      /\ lastEngineView \in Nat
  BY DEF Reaches, Draining, LaneTypeOK
<1>2. Block = deferred[1] /\ Block.view \in Nat
  BY <1>1, FirstBlock
<1>3. 1 \in DOMAIN deferred
  BY <1>1 DEF LaneTypeOK
<1>4. Block.view > pass.last
  BY <1>1, <1>2, <1>3 DEF Clocks
<1>5. ~(ceiling # 0 /\ lastEngineView >= ceiling)
  BY <1>1 DEF Clocks
<1>6. ceiling # 0 => Block.view < ceiling
  BY <1>1, <1>2 DEF IsDiscarded
<1> QED
  BY <1>1, <1>2, <1>4, <1>5, <1>6 DEF AwaitingCarry

\* Nor between the passes of an idle loop.
LEMMA IdleNoneAwaits ==
    ASSUME LaneTypeOK, Clocks, turn = "idle"
    PROVE ~AwaitingCarry
<1>1. pass.last = 0 /\ ceiling \in Nat /\ lastEngineView \in Nat
  BY DEF Clocks, LaneTypeOK
<1>2. ~(ceiling # 0 /\ lastEngineView >= ceiling)
  BY DEF Clocks
<1> QED
  BY <1>1, <1>2 DEF AwaitingCarry

\* What remains to be shown of a step.
StepOK == Settled' /\ Flight' /\ \E rank \in [Frame -> Nat], top \in Nat : Ranked(rank, top)'

\* submit_frame.
LEMMA SubmitOnce ==
    ASSUME Clients = "inorder", OnceInv, NEW f \in Frame, Submit(f)
    PROVE StepOK
<1>0. LaneTypeOK /\ Owned /\ Settled /\ Clocks
  BY DEF OnceInv, AscendInv, HeightInv
<1>1. PICK rank \in [Frame -> Nat], top \in Nat : Ranked(rank, top)
  BY DEF OnceInv
<1> DEFINE C == BatchesOf(chain)
           D == BatchesOf(deferred)
           I == BatchesOf(inbox)
           r2 == [rank EXCEPT ![f] = top]
<1>2. /\ turn = "idle" /\ f \notin outstanding /\ f \notin accepted
      /\ pending' = Append(pending, f) /\ outstanding' = outstanding \cup {f}
      /\ accepted' = accepted \cup {f}
      /\ \A g \in accepted : OriginOf[g] = OriginOf[f] => SeqOf[g] < SeqOf[f]
      /\ UNCHANGED <<turn, queue, seen, inbox, deferred, chain, window, ceiling,
                     lastEngineView, pass>>
  BY DEF Submit, ClientMay, engineVars, epochVars, boundary, drainVars
<1>3. FramesIn(C) \subseteq accepted /\ outstanding \subseteq accepted /\ accepted \subseteq Frame
  BY <1>0, SealedAccepted DEF Settled, Owned
<1>4. pending \in Seq(Frame)
  BY <1>0 DEF LaneTypeOK
<1>5. /\ InLine(C, D, I, queue, Append(pending, f), outstanding \cup {f}, r2)
      /\ OnLine(D, I, queue, pending) \cup {f} \subseteq OnLine(D, I, queue, Append(pending, f))
  <2>1. InLine(C, D, I, queue, pending, outstanding, rank)
    BY <1>1 DEF Ranked
  <2>2. \A g \in FramesIn(C) \cup outstanding : rank[g] < top
    BY <1>1, <1>3 DEF Ranked
  <2>3. f \notin FramesIn(C) \cup outstanding
    BY <1>2, <1>3
  <2> HIDE DEF C, D, I
  <2>4. outstanding \in SUBSET Frame /\ Newcomer(f, C, outstanding, rank, top)
    BY <1>3, <2>2, <2>3 DEF Newcomer
  <2> QED
    BY <1>4, <2>1, <2>4, LineSubmits
<1>6. r2 \in [Frame -> Nat] /\ r2[f] = top /\ \A g \in accepted : r2[g] = rank[g] /\ r2[g] < top
  <2>1. r2[f] = top /\ \A g \in accepted : r2[g] = rank[g]
    BY <1>2, <1>3
  <2>2. \A g \in accepted : rank[g] < top
    BY <1>1 DEF Ranked
  <2> QED
    BY <2>1, <2>2
<1>7. Ranked(r2, top + 1)'
  <2> HIDE DEF r2
  <2>1. \A g \in accepted' : r2[g] < top + 1
    <3>1. \A g \in accepted : r2[g] \in Nat
      BY <1>3, <1>6
    <3> QED
      BY <1>2, <1>6, <3>1
  <2>2. ASSUME NEW g \in accepted', NEW h \in accepted', OriginOf[g] = OriginOf[h],
               SeqOf[g] < SeqOf[h]
        PROVE r2[g] < r2[h]
    <3>0. SeqOf[f] \in Nat /\ \A x \in accepted : SeqOf[x] \in Nat
      BY <1>3, NodeAssumption
    <3>1. CASE g = f
      <4>1. h # f
        BY <2>2, <3>0, <3>1
      <4>2. SeqOf[h] < SeqOf[f]
        BY <1>2, <2>2, <3>1, <4>1
      <4>3. SeqOf[h] \in Nat
        BY <1>2, <3>0, <4>1
      <4> QED
        BY <2>2, <3>0, <3>1, <4>2, <4>3
    <3>2. CASE g \in accepted /\ h = f
      BY <1>6, <3>2
    <3>3. CASE g \in accepted /\ h \in accepted
      BY <1>1, <1>6, <2>2, <3>3 DEF Ranked
    <3> QED
      BY <1>2, <3>1, <3>2, <3>3
  <2>3. InLine(BatchesOf(chain'), BatchesOf(deferred'), BatchesOf(inbox'), queue', pending',
               outstanding', r2)
    BY <1>2, <1>5
  <2> QED
    BY <2>1, <2>2, <2>3 DEF Ranked
<1>8. Settled'
  <2>1. outstanding' = accepted' \ FramesIn(BatchesOf(chain'))
    BY <1>0, <1>2, <1>3 DEF Settled
  <2>2. ASSUME NEW b \in seen, b \notin AlienBatches
        PROVE Elems(b) \cap (FramesIn(queue) \cup Elems(pending')) = {}
    <3>1. Own(b, accepted)
      BY <1>0, <2>2 DEF Owned, Known
    <3>2. Elems(b) \subseteq accepted
      BY <1>0, <3>1, OwnNotAlien
    <3>3. Elems(pending') \subseteq Elems(pending) \cup {f}
      <4>1. \A i \in DOMAIN pending' :
                (i \in DOMAIN pending /\ pending'[i] = pending[i]) \/ pending'[i] = f
        BY <1>2, <1>4, AppendProperties
      <4> QED
        BY <4>1 DEF Elems
    <3>4. Elems(b) \cap (FramesIn(queue) \cup Elems(pending)) = {}
      BY <1>0, <2>2 DEF Settled
    <3> QED
      BY <1>2, <3>2, <3>3, <3>4
  <2> QED
    BY <1>0, <1>2, <2>1, <2>2 DEF Settled
<1>9. Flight'
  <2>1. ~AwaitingCarry
    BY <1>0, <1>2, IdleNoneAwaits
  <2>2. outstanding \subseteq Lane
    BY <1>2, <2>1 DEF OnceInv, Flight
  <2>3. outstanding' \subseteq OnLine(D, I, queue, Append(pending, f))
    BY <1>2, <1>5, <2>2 DEF Lane
  <2> QED
    BY <1>2, <2>3 DEF Flight, Lane
<1>10. top + 1 \in Nat
  OBVIOUS
<1> QED
  BY <1>6, <1>7, <1>8, <1>9, <1>10 DEF StepOK

\* take_one_batch and propose_batch.
LEMMA ProposeOnce ==
    ASSUME OnceInv, ProposeBatch
    PROVE StepOK
<1>0. LaneTypeOK /\ Owned /\ Settled
  BY DEF OnceInv, AscendInv, HeightInv
<1>1. PICK rank \in [Frame -> Nat], top \in Nat : Ranked(rank, top)
  BY DEF OnceInv
<1>2. PICK n \in 1..Len(pending) :
          /\ queue' = Append(queue, SubSeq(pending, 1, n))
          /\ pending' = SubSeq(pending, n + 1, Len(pending))
  BY DEF ProposeBatch
<1>3. UNCHANGED <<outstanding, accepted, turn, seen, inbox, deferred, chain, window, ceiling,
                  lastEngineView, pass>>
  BY DEF ProposeBatch, epochVars, boundary, drainVars
<1> DEFINE C == BatchesOf(chain)
           D == BatchesOf(deferred)
           I == BatchesOf(inbox)
           b == SubSeq(pending, 1, n)
           r == SubSeq(pending, n + 1, Len(pending))
<1>4. InLine(C, D, I, queue, pending, outstanding, rank)
  BY <1>1 DEF Ranked
<1>5. pending \in Seq(accepted) /\ Rises(pending, rank)
  BY <1>0, <1>4 DEF Owned, InLine
<1>6. b \in Seq(accepted) /\ b # <<>> /\ Splits(pending, b, r, rank)
  BY <1>5, SplitPending DEF Splits
<1> HIDE DEF b, r, C, D, I
<1>7. b \notin AlienBatches /\ b \in Batch
  <2>1. Own(b, accepted)
    BY <1>6 DEF Own
  <2>2. b \in Seq(Frame)
    BY <1>0, <1>6, SeqWider DEF Owned
  <2> QED
    BY <1>0, <2>1, <2>2, OwnNotAlien DEF Batch
<1>8. /\ InLine(C, D, I, Append(queue, b), r, outstanding, rank)
      /\ OnLine(D, I, queue, pending) \subseteq OnLine(D, I, Append(queue, b), r)
      /\ FramesIn(Append(queue, b)) \cup Elems(r) \subseteq FramesIn(queue) \cup Elems(pending)
  <2>1. queue \in Seq(Batch)
    BY <1>0 DEF LaneTypeOK
  <2> QED
    BY <1>4, <1>6, <1>7, <2>1, LineProposes
<1>9. queue' = Append(queue, b) /\ pending' = r
  BY <1>2 DEF b, r
<1>10. Ranked(rank, top)'
  BY <1>1, <1>3, <1>8, <1>9 DEF Ranked, C, D, I
<1>11. Settled'
  <2>1. FramesIn(queue') \cup Elems(pending') \subseteq FramesIn(queue) \cup Elems(pending)
    BY <1>8, <1>9
  <2> QED
    BY <1>0, <1>3, <2>1 DEF Settled
<1>12. Flight'
  <2>1. Lane \subseteq OnLine(BatchesOf(deferred'), BatchesOf(inbox'), queue', pending')
    BY <1>3, <1>8, <1>9 DEF Lane, D, I
  <2> QED
    BY <1>3, <2>1 DEF OnceInv, Flight, Lane, AwaitingCarry
<1> QED
  BY <1>10, <1>11, <1>12 DEF StepOK

\* The engine finalizes a batch.
LEMMA CertifyOnce ==
    ASSUME OnceInv, NEW v \in View,
           NEW b \in Foreign \cup Elems(queue) \cup Elems(Recovered), Certify(v, b)
    PROVE StepOK
<1>0. LaneTypeOK /\ Owned /\ Settled
  BY DEF OnceInv, AscendInv, HeightInv
<1>1. PICK rank \in [Frame -> Nat], top \in Nat : Ranked(rank, top)
  BY DEF OnceInv
<1> DEFINE C == BatchesOf(chain)
           D == BatchesOf(deferred)
           I == BatchesOf(inbox)
           e == [view |-> v, batch |-> b]
<1>2. /\ UNCHANGED <<outstanding, accepted, pending, turn, deferred, chain, window, ceiling,
                     lastEngineView, pass>>
      /\ inbox' = IF b \in seen THEN inbox ELSE Append(inbox, e)
      /\ seen' = seen \cup {b}
  BY DEF Certify, custodyVars, epochVars, boundary, drainVars
<1>3. InLine(C, D, I, queue, pending, outstanding, rank)
  BY <1>1 DEF Ranked
<1>4. I \in Seq(Batch) /\ queue \in Seq(Batch) /\ inbox \in Seq(Delivery)
  BY <1>0, Stages DEF LaneTypeOK
<1>5. b \in Batch
  <2>1. CASE b \in Foreign
    BY <2>1, NodeAssumption DEF Batch
  <2>2. CASE b \in Elems(queue)
    BY <1>4, <2>2 DEF Elems
  <2>3. CASE b \in Elems(Recovered)
    <3>1. PICK i \in DOMAIN Recovered : b = Recovered[i]
      BY <2>3 DEF Elems
    <3>2. Recovered[i] \in Seq(Frame)
      BY NodeAssumption
    <3> QED
      BY <3>1, <3>2 DEF Batch
  <2> QED
    BY <2>1, <2>2, <2>3
<1>6. b \notin seen => BatchesOf(inbox') = Append(I, b)
  <2>1. e \in Delivery /\ e.batch = b
    BY <1>5 DEF Delivery
  <2> HIDE DEF e
  <2>2. BatchesOf(Append(inbox, e)) = Append(BatchesOf(inbox), e.batch)
    BY <1>0, <1>4, <2>1, Stages, BatchAppend
  <2> QED
    BY <1>2, <2>1, <2>2
<1> HIDE DEF C, D, I, e
<1>7. CASE b \in AlienBatches
  <2>1. queue' = queue
    BY <1>0, <1>7, CertifyKinds
  <2>2. /\ InLine(C, D, Append(I, b), queue, pending, outstanding, rank)
        /\ OnLine(D, I, queue, pending) \subseteq OnLine(D, Append(I, b), queue, pending)
    BY <1>3, <1>4, <1>5, <1>7, LineAdmits
  <2>3. BatchesOf(inbox') = I \/ BatchesOf(inbox') = Append(I, b)
    BY <1>2, <1>6 DEF I
  <2>4. /\ InLine(C, D, BatchesOf(inbox'), queue, pending, outstanding, rank)
        /\ OnLine(D, I, queue, pending) \subseteq OnLine(D, BatchesOf(inbox'), queue, pending)
    BY <1>3, <2>2, <2>3
  <2>5. Ranked(rank, top)'
    BY <1>1, <1>2, <2>1, <2>4 DEF Ranked, C, D
  <2>6. Settled'
    BY <1>0, <1>2, <1>7, <2>1 DEF Settled
  <2>7. Flight'
    <3>1. Lane \subseteq OnLine(BatchesOf(deferred'), BatchesOf(inbox'), queue', pending')
      BY <1>2, <2>1, <2>4 DEF Lane, D, I
    <3> QED
      BY <1>2, <3>1 DEF OnceInv, Flight, Lane, AwaitingCarry
  <2> QED
    BY <2>5, <2>6, <2>7 DEF StepOK
<1>8. CASE b \notin AlienBatches
  <2>1. queue # <<>> /\ b = Head(queue) /\ queue' = Tail(queue)
    BY <1>0, <1>8, CertifyKinds
  <2>2. /\ InLine(C, D, Append(I, b), Tail(queue), pending, outstanding, rank)
        /\ OnLine(D, I, queue, pending) \subseteq OnLine(D, Append(I, b), Tail(queue), pending)
        /\ Below(Elems(ListOf(b)), FramesIn(Tail(queue)) \cup Elems(pending), rank)
        /\ Elems(ListOf(b)) \cup FramesIn(Tail(queue)) \subseteq FramesIn(queue)
    BY <1>3, <1>4, <2>1, LineCertifies
  <2>3. ListOf(b) = b /\ Elems(b) # {}
    <3>1. 1 \in DOMAIN queue /\ b = queue[1]
      BY <1>4, <2>1, EmptySeq
    <3>2. Own(b, accepted)
      BY <1>0, <3>1 DEF Owned
    <3> QED
      BY <1>0, <3>2, OwnNotAlien
  <2>4. b \notin seen
    BY <1>0, <1>8, <2>2, <2>3 DEF Settled
  <2>5. BatchesOf(inbox') = Append(I, b)
    BY <1>6, <2>4
  <2>6. Ranked(rank, top)'
    BY <1>1, <1>2, <2>1, <2>2, <2>5 DEF Ranked, C, D
  <2>7. Settled'
    <3>1. ASSUME NEW f \in Elems(b) PROVE f \notin FramesIn(Tail(queue)) \cup Elems(pending)
      <4>1. f \in Frame
        <5>1. f \in OnLine(D, I, queue, pending)
          BY <2>2, <2>3, <3>1 DEF OnLine
        <5> QED
          BY <1>0, <1>3, <5>1 DEF InLine, LaneTypeOK
      <4>2. rank[f] \in Nat
        BY <4>1
      <4> QED
        BY <2>2, <2>3, <3>1, <4>2 DEF Below
    <3>2. \A c \in seen' : c \notin AlienBatches =>
            Elems(c) \cap (FramesIn(queue') \cup Elems(pending')) = {}
      <4> SUFFICES ASSUME NEW c \in seen', c \notin AlienBatches
                   PROVE Elems(c) \cap (FramesIn(queue') \cup Elems(pending')) = {}
        OBVIOUS
      <4>1. CASE c = b
        BY <1>2, <2>1, <3>1, <4>1
      <4>2. CASE c \in seen
        <5>1. Elems(c) \cap (FramesIn(queue) \cup Elems(pending)) = {}
          BY <1>0, <4>2 DEF Settled
        <5> QED
          BY <1>2, <2>1, <2>2, <5>1
      <4> QED
        BY <1>2, <4>1, <4>2
    <3> QED
      BY <1>0, <1>2, <3>2 DEF Settled
  <2>8. Flight'
    <3>1. Lane \subseteq OnLine(BatchesOf(deferred'), BatchesOf(inbox'), queue', pending')
      BY <1>2, <2>1, <2>2, <2>5 DEF Lane, D, I
    <3> QED
      BY <1>2, <3>1 DEF OnceInv, Flight, Lane, AwaitingCarry
  <2> QED
    BY <2>6, <2>7, <2>8 DEF StepOK
<1> QED
  BY <1>7, <1>8

\* A pass of drain_delivered begins.
LEMMA BeginOnce ==
    ASSUME OnceInv, BeginDrain
    PROVE StepOK
<1>0. LaneTypeOK /\ Owned /\ Settled /\ Clocks
  BY DEF OnceInv, AscendInv, HeightInv
<1>1. PICK rank \in [Frame -> Nat], top \in Nat : Ranked(rank, top)
  BY DEF OnceInv
<1> DEFINE C == BatchesOf(chain)
           D == BatchesOf(deferred)
           I == BatchesOf(inbox)
<1>2. /\ UNCHANGED <<outstanding, accepted, pending, queue, seen, chain, window>>
      /\ turn = "idle" /\ deferred' = deferred \o inbox /\ inbox' = <<>>
  BY DEF BeginDrain, custodyVars
<1>3. InLine(C, D, I, queue, pending, outstanding, rank)
  BY <1>1 DEF Ranked
<1>4. D \in Seq(Batch) /\ I \in Seq(Batch)
  BY <1>0, Stages
<1>5. BatchesOf(deferred') = D \o I
  BY <1>0, <1>2, Stages, BatchConcat DEF LaneTypeOK
<1>6. BatchesOf(inbox') = <<>>
  BY <1>2 DEF BatchesOf
<1> HIDE DEF C, D, I
<1>7. /\ InLine(C, D \o I, <<>>, queue, pending, outstanding, rank)
      /\ OnLine(D, I, queue, pending) \subseteq OnLine(D \o I, <<>>, queue, pending)
  BY <1>3, <1>4, LineDelivers
<1>8. Ranked(rank, top)'
  BY <1>1, <1>2, <1>5, <1>6, <1>7 DEF Ranked, C
<1>9. Settled'
  BY <1>0, <1>2 DEF Settled
<1>10. Flight'
  <2>1. outstanding \subseteq Lane
    BY <1>0, <1>2, IdleNoneAwaits DEF OnceInv, Flight
  <2>2. Lane \subseteq OnLine(BatchesOf(deferred'), BatchesOf(inbox'), queue', pending')
    BY <1>2, <1>5, <1>6, <1>7 DEF Lane, D, I
  <2> QED
    BY <1>2, <2>1, <2>2 DEF Flight, Lane
<1> QED
  BY <1>8, <1>9, <1>10 DEF StepOK

\* A delivery below the resume floor is skipped, one past the ceiling discarded.
LEMMA PassOnce ==
    ASSUME OnceInv, SkipResumeReplay \/ Discard
    PROVE StepOK
<1>0. LaneTypeOK /\ Owned /\ Settled /\ Clocks /\ Journal
  BY DEF OnceInv, AscendInv, HeightInv
<1>1. PICK rank \in [Frame -> Nat], top \in Nat : Ranked(rank, top)
  BY DEF OnceInv
<1> DEFINE C == BatchesOf(chain)
           D == BatchesOf(deferred)
           I == BatchesOf(inbox)
<1>2. /\ UNCHANGED <<outstanding, accepted, pending, queue, seen, inbox, chain, window, turn,
                     ceiling, lastEngineView>>
      /\ turn = "drain" /\ deferred # <<>> /\ deferred' = Tail(deferred)
      /\ pass' = [pass EXCEPT !.last = Block.view]
  BY DEF SkipResumeReplay, Discard, Reaches, Draining, PassOver, custodyVars, engineVars,
         epochVars, boundary
<1>3. InLine(C, D, I, queue, pending, outstanding, rank)
  BY <1>1 DEF Ranked
<1>4. D \in Seq(Batch) /\ D # <<>> /\ BatchesOf(deferred') = Tail(D) /\ Head(D) = Block.batch
  <2>1. deferred \in Seq(Delivery)
    BY <1>0 DEF LaneTypeOK
  <2> QED
    BY <1>0, <1>2, <2>1, Stages, BatchTail DEF Block
<1> HIDE DEF C, D, I
<1>5. /\ InLine(C, Tail(D), I, queue, pending, outstanding, rank)
      /\ OnLine(D, I, queue, pending) \subseteq
             Elems(ListOf(Head(D))) \cup OnLine(Tail(D), I, queue, pending)
  BY <1>3, <1>4, LineDrops
<1>6. Ranked(rank, top)'
  BY <1>1, <1>2, <1>4, <1>5 DEF Ranked, C, I
<1>7. Settled'
  BY <1>0, <1>2 DEF Settled
<1>8a. Block = deferred[1] /\ Block.view \in Nat
  BY <1>0, <1>2, FirstBlock
<1>8b. 1 \in DOMAIN deferred
  BY <1>0, <1>2, SMTT(30) DEF LaneTypeOK
<1>8. Block = deferred[1] /\ Block.view \in Nat /\ 1 \in DOMAIN deferred
  BY <1>8a, <1>8b
<1>9. pass'.last = Block.view /\ pass.last \in Nat /\ ceiling \in Nat
  BY <1>0, <1>2 DEF LaneTypeOK
<1>10. Flight'
  <2>1. CASE Discard
    <3>1. ceiling # 0 /\ Block.view >= ceiling
      BY <2>1 DEF Discard, IsDiscarded
    <3> QED
      BY <1>2, <1>9, <3>1 DEF Flight, AwaitingCarry
  <2>2. CASE SkipResumeReplay
    <3>1. Block.batch \in AlienBatches
      <4>1. viewBase + deferred[1].view <= resumeFloor
        BY <1>8, <2>2 DEF SkipResumeReplay, IsResumeReplay, AppHeight
      <4> QED
        BY <1>0, <1>8, <4>1 DEF Journal
    <3>2. Elems(ListOf(Head(D))) = {}
      BY <1>0, <1>4, <3>1, AlienApart
    <3>3. Lane \subseteq OnLine(BatchesOf(deferred'), BatchesOf(inbox'), queue', pending')
      BY <1>2, <1>4, <1>5, <3>2 DEF Lane, D, I
    <3>4. Block.view > pass.last
      BY <1>0, <1>2, <1>8 DEF Clocks
    <3>5. AwaitingCarry => AwaitingCarry'
      BY <1>2, <1>8, <1>9, <3>4 DEF AwaitingCarry
    <3> QED
      BY <1>2, <3>3, <3>5 DEF OnceInv, Flight, Lane
  <2> QED
    BY <2>1, <2>2
<1> QED
  BY <1>6, <1>7, <1>10 DEF StepOK

\* A block is sealed: executed, or refused when it is another validator's.
LEMMA SealOnce ==
    ASSUME OnceInv, NEW ran \in BOOLEAN, Reaches, ~IsDiscarded, Seal(ran),
           ran \/ Block.batch \in AlienBatches,
           outstanding' = outstanding \ Elems(ListOf(Block.batch)),
           UNCHANGED <<accepted, pending, queue, seen, inbox>>
    PROVE StepOK
<1>0. LaneTypeOK /\ Owned /\ Settled /\ Clocks
  BY DEF OnceInv, AscendInv, HeightInv
<1>1. PICK rank \in [Frame -> Nat], top \in Nat : Ranked(rank, top)
  BY DEF OnceInv
<1> DEFINE C == BatchesOf(chain)
           D == BatchesOf(deferred)
           I == BatchesOf(inbox)
           e == [epoch |-> epoch, height |-> AppHeight, batch |-> Block.batch, ran |-> ran]
<1>2. /\ turn = "drain" /\ deferred # <<>> /\ deferred' = Tail(deferred)
      /\ chain' = Append(chain, e)
      /\ window' = Newest(Append(window, Block.batch), WindowHeights)
  BY DEF Reaches, Draining, Seal
<1>3. InLine(C, D, I, queue, pending, outstanding, rank)
  BY <1>1 DEF Ranked
<1>4. /\ C \in Seq(Batch) /\ D \in Seq(Batch) /\ I \in Seq(Batch) /\ queue \in Seq(Batch)
      /\ deferred \in Seq(Delivery) /\ chain \in Seq(SealedBlock) /\ outstanding \in SUBSET Frame
  BY <1>0, Stages DEF LaneTypeOK
<1>5. D # <<>> /\ BatchesOf(deferred') = Tail(D) /\ Head(D) = Block.batch
  BY <1>0, <1>2, <1>4, Stages, BatchTail DEF Block
<1>6. e \in SealedBlock /\ e.batch = Block.batch /\ e.ran = ran
  <2>1. Block \in Delivery /\ AppHeight \in Nat /\ epoch \in Nat
    BY <1>0, <1>2, FirstBlock DEF LaneTypeOK
  <2> QED
    BY <2>1 DEF SealedBlock, Delivery
<1> DEFINE n == Len(chain)
<1>7. /\ n \in Nat /\ DOMAIN chain = 1..n /\ DOMAIN chain' = 1..(n + 1)
      /\ chain'[n + 1] = e /\ \A i \in 1..n : chain'[i] = chain[i]
  BY <1>2, <1>4
<1> HIDE DEF e, n
<1>8. BatchesOf(chain') = Append(C, Head(D))
  BY <1>0, <1>2, <1>4, <1>5, <1>6, Stages, BatchAppend
<1> HIDE DEF C, D, I
<1>9. ~AwaitingCarry
  BY <1>0, NoneAwaits
<1>10. outstanding \subseteq OnLine(D, I, queue, pending)
  BY <1>2, <1>9 DEF OnceInv, Flight, Lane, D, I
<1> DEFINE gone == Elems(ListOf(Head(D)))
<1>11. /\ InLine(Append(C, Head(D)), Tail(D), I, queue, pending, outstanding \ gone, rank)
       /\ outstanding \ gone \subseteq OnLine(Tail(D), I, queue, pending)
       /\ FramesIn(Append(C, Head(D))) \subseteq FramesIn(C) \cup gone
       /\ FramesIn(C) \cup gone \subseteq FramesIn(Append(C, Head(D)))
       /\ gone \subseteq outstanding
  BY <1>3, <1>4, <1>5, <1>10, LineSeals
<1>12. outstanding' = outstanding \ gone
  BY <1>5
<1> HIDE DEF gone
<1>13. Ranked(rank, top)'
  BY <1>1, <1>5, <1>8, <1>11, <1>12 DEF Ranked, I
<1>14. Flight'
  BY <1>5, <1>11, <1>12 DEF Flight, Lane, I
<1>15. Settled'
  <2>1. outstanding' = accepted' \ FramesIn(BatchesOf(chain'))
    <3>1. outstanding = accepted \ FramesIn(C)
      BY <1>0 DEF Settled, C
    <3> QED
      BY <1>8, <1>11, <1>12, <3>1
  <2>2. \A i \in DOMAIN chain' : i \in 1..n \/ i = n + 1
    BY <1>7
  <2>3. \A i \in DOMAIN chain' : ~chain'[i].ran => chain'[i].batch \in AlienBatches
    BY <1>0, <1>6, <1>7, <2>2 DEF Settled
  <2>4. window' \in Seq(Batches(chain'))
    <3>1. Batches(chain) \subseteq Batches(chain')
      <4>1. \A i \in 1..n : i \in 1..(n + 1)
        BY <1>7
      <4> QED
        BY <1>7, <4>1 DEF Batches
    <3>2. Block.batch \in Batches(chain')
      <4>1. n + 1 \in 1..(n + 1)
        BY <1>7
      <4> QED
        BY <1>6, <1>7, <4>1 DEF Batches
    <3>3. window \in Seq(Batches(chain'))
      BY <1>0, <3>1, SeqWider DEF Settled
    <3>4. Append(window, Block.batch) \in Seq(Batches(chain'))
      BY <3>2, <3>3
    <3> QED
      BY <1>2, <3>4, NewestIs, NodeAssumption
  <2> QED
    BY <1>0, <2>1, <2>3, <2>4 DEF Settled
<1> QED
  BY <1>13, <1>14, <1>15 DEF StepOK

\* drain_delivered executes a block: it resolves exactly the frames that leave
\* the line.
LEMMA ExecuteOnce ==
    ASSUME OnceInv, NEW moved \in BOOLEAN, Execute(moved)
    PROVE StepOK
<1>0. LaneTypeOK /\ Owned /\ Settled
  BY DEF OnceInv, AscendInv, HeightInv
<1>1. /\ Reaches /\ ~IsDiscarded /\ Seal(TRUE)
      /\ outstanding' = outstanding \ Members(Block.batch)
      /\ UNCHANGED <<accepted, pending, queue, seen, inbox>>
  BY DEF Execute, ReleaseCustody, engineVars
<1>2. Known(Block.batch, accepted)
  <2>1. deferred # <<>>
    BY <1>1 DEF Reaches, Draining
  <2>2. Block = deferred[1] /\ 1 \in DOMAIN deferred
    BY <1>0, <2>1, FirstBlock DEF LaneTypeOK
  <2> QED
    BY <1>0, <2>2 DEF Owned
<1>3. outstanding \ Members(Block.batch) = outstanding \ Elems(ListOf(Block.batch))
  <2>1. CASE Block.batch \in AlienBatches
    <3>1. Elems(ListOf(Block.batch)) = {} /\ Members(Block.batch) \cap accepted = {}
      BY <1>0, <2>1, AlienApart
    <3>2. outstanding \subseteq accepted
      BY <1>0 DEF Settled
    <3> QED
      BY <3>1, <3>2
  <2>2. CASE Own(Block.batch, accepted)
    BY <1>0, <2>2, OwnNotAlien
  <2> QED
    BY <1>2, <2>1, <2>2 DEF Known
<1>4. outstanding' = outstanding \ Elems(ListOf(Block.batch))
  BY <1>1, <1>3
<1> QED
  BY <1>1, <1>4, SealOnce

\* drain_delivered seals a block whole: it is never one of this node's.
LEMMA RefusedOnce ==
    ASSUME ~AdvanceRejects, OnceInv, SealRefused
    PROVE StepOK
<1>0. LaneTypeOK /\ Owned /\ Settled /\ Clocks
  BY DEF OnceInv, AscendInv, HeightInv
<1>1. /\ Reaches /\ ~IsDiscarded /\ Seal(FALSE)
      /\ Block.batch \in Elems(window) \/ Block.batch = Junk
      /\ outstanding' = outstanding
      /\ UNCHANGED <<accepted, pending, queue, seen, inbox>>
  BY DEF SealRefused, IsReplayed, custodyVars, engineVars
<1>2. deferred # <<>> /\ turn = "drain"
  BY <1>1 DEF Reaches, Draining
<1>3. Block = deferred[1] /\ 1 \in DOMAIN deferred
  BY <1>0, <1>2, FirstBlock DEF LaneTypeOK
<1>4. Known(Block.batch, accepted)
  BY <1>0, <1>3 DEF Owned
<1>5. Block.batch \in AlienBatches
  <2> SUFFICES ASSUME Own(Block.batch, accepted) PROVE FALSE
    BY <1>4 DEF Known
  <2>1. /\ Block.batch \notin AlienBatches /\ ListOf(Block.batch) = Block.batch
        /\ Elems(Block.batch) # {}
    BY <1>0, OwnNotAlien
  <2>2. Block.batch \in Elems(window)
    BY <1>1, <2>1 DEF AlienBatches
  <2>3. Block.batch \in Batches(chain)
    BY <1>0, <2>2 DEF Settled, Elems
  <2>4. PICK j \in DOMAIN chain : chain[j].batch = Block.batch
    BY <2>3 DEF Batches
  <2>5. Elems(Block.batch) \subseteq FramesIn(BatchesOf(chain))
    BY <2>1, <2>4 DEF FramesIn, BatchesOf
  <2>6. Elems(Block.batch) \subseteq FramesIn(BatchesOf(deferred))
    BY <1>3, <2>1 DEF FramesIn, BatchesOf
  <2>7. PICK rank \in [Frame -> Nat], top \in Nat : Ranked(rank, top)
    BY DEF OnceInv
  <2>8. FramesIn(BatchesOf(deferred)) \subseteq outstanding
    BY <2>7 DEF Ranked, InLine, OnLine
  <2> QED
    BY <1>0, <2>1, <2>5, <2>6, <2>8 DEF Settled
<1>6. Elems(ListOf(Block.batch)) = {}
  BY <1>0, <1>5, AlienApart
<1>7. outstanding' = outstanding \ Elems(ListOf(Block.batch))
  BY <1>1, <1>6
<1> QED
  BY <1>1, <1>5, <1>7, SealOnce

\* cutover: what is sealed keeps its ranks, the carry is ranked above it.
LEMMA CutoverOnce ==
    ASSUME OnceInv, Cutover
    PROVE StepOK
<1>0. LaneTypeOK /\ Owned /\ Settled
  BY DEF OnceInv, AscendInv, HeightInv
<1>1. PICK rank \in [Frame -> Nat], top \in Nat : Ranked(rank, top)
  BY DEF OnceInv
<1> DEFINE C == BatchesOf(chain)
           s == pending'
<1>2. /\ UNCHANGED <<outstanding, accepted, chain, window>>
      /\ queue' = <<>> /\ seen' = {} /\ inbox' = <<>> /\ deferred' = <<>> /\ s \in Carries
  BY DEF Cutover
<1>3. outstanding \subseteq Frame /\ accepted \subseteq Frame /\ outstanding = accepted \ FramesIn(C)
  BY <1>0 DEF LaneTypeOK, Owned, Settled
<1>4. FramesIn(C) \subseteq accepted
  BY <1>0, SealedAccepted
<1> HIDE DEF C, s
<1>4a. PICK r2 \in [Frame -> Nat], t2 \in Nat : Dealt(s, rank, top, r2, t2)
  BY <1>2, <1>3, CarryRanks
<1>5. /\ \A f \in Frame \ outstanding : r2[f] = rank[f]
      /\ \A f \in outstanding : top <= r2[f] /\ r2[f] < t2
      /\ top <= t2
      /\ Rises(s, r2)
      /\ \A f, g \in outstanding : SeqOf[f] < SeqOf[g] => r2[f] < r2[g]
  BY <1>4a DEF Dealt
<1>6. Climbs(C, rank) /\ Below(FramesIn(C), outstanding, rank)
  BY <1>1 DEF Ranked, InLine, C
<1>7. Elems(s) = outstanding
  BY <1>2 DEF Carries
<1>8. BatchesOf(deferred') = <<>> /\ BatchesOf(inbox') = <<>>
  BY <1>2 DEF BatchesOf
<1>9. \A f \in FramesIn(C) : r2[f] = rank[f] /\ f \in accepted /\ rank[f] < top
  BY <1>1, <1>3, <1>4, <1>5 DEF Ranked
<1>10. \A f \in accepted : r2[f] \in Nat /\ rank[f] \in Nat /\ rank[f] < top
  BY <1>1, <1>3 DEF Ranked
<1>11. Below(FramesIn(C), outstanding, r2)
  <2> SUFFICES ASSUME NEW f \in FramesIn(C), NEW g \in outstanding PROVE r2[f] < r2[g]
    BY DEF Below
  <2>1. r2[f] < top /\ top <= r2[g] /\ r2[f] \in Nat /\ r2[g] \in Nat
    BY <1>3, <1>4, <1>5, <1>9, <1>10
  <2> QED
    BY <2>1
<1>12. /\ InLine(C, <<>>, <<>>, <<>>, s, outstanding, r2)
       /\ outstanding \subseteq OnLine(<<>>, <<>>, <<>>, s)
  BY <1>5, <1>6, <1>7, <1>9, <1>11, LineCarries
<1>13. \A f \in accepted : r2[f] < t2
  <2> SUFFICES ASSUME NEW f \in accepted PROVE r2[f] < t2
    OBVIOUS
  <2>1. CASE f \in outstanding
    BY <1>5, <2>1
  <2>2. CASE f \in FramesIn(C)
    BY <1>5, <1>9, <1>10, <2>2
  <2> QED
    BY <1>3, <2>1, <2>2
<1>14. ASSUME NEW f \in accepted, NEW g \in accepted, OriginOf[f] = OriginOf[g],
              SeqOf[f] < SeqOf[g]
       PROVE r2[f] < r2[g]
  <2>1. rank[f] < rank[g]
    BY <1>1, <1>14 DEF Ranked
  <2>2. CASE f \in outstanding /\ g \in outstanding
    BY <1>5, <1>14, <2>2
  <2>3. CASE f \in FramesIn(C) /\ g \in FramesIn(C)
    BY <1>9, <2>1, <2>3
  <2>4. CASE f \in FramesIn(C) /\ g \in outstanding
    BY <1>11, <2>4 DEF Below
  <2>5. CASE f \in outstanding /\ g \in FramesIn(C)
    BY <1>6, <1>10, <2>1, <2>5 DEF Below
  <2> QED
    BY <1>3, <2>2, <2>3, <2>4, <2>5
<1>15. Ranked(r2, t2)'
  BY <1>2, <1>8, <1>12, <1>13, <1>14 DEF Ranked, C, s
<1>16. Settled'
  BY <1>0, <1>2 DEF Settled
<1>17. Flight'
  BY <1>2, <1>8, <1>12 DEF Flight, Lane, s
<1> QED
  BY <1>15, <1>16, <1>17 DEF StepOK

\* A step that moves no frame.
LEMMA QuietOnce ==
    ASSUME OnceInv,
           UNCHANGED <<outstanding, accepted, pending, queue, seen, inbox, deferred, chain, window>>,
           turn' = "halted" \/ (turn # "halted" /\ (AwaitingCarry => AwaitingCarry'))
    PROVE StepOK
<1>1. PICK rank \in [Frame -> Nat], top \in Nat : Ranked(rank, top)
  BY DEF OnceInv
<1>2. Ranked(rank, top)'
  BY <1>1 DEF Ranked
<1>3. Settled'
  BY DEF OnceInv, Settled
<1>4. Flight'
  BY DEF OnceInv, Flight, Lane
<1> QED
  BY <1>2, <1>3, <1>4 DEF StepOK

\* The steps of the loop that move no frame.
LEMMA LoopOnce ==
    ASSUME OnceInv,
           \/ BeginFlush \/ EndFlush \/ RefuseOutOfOrder \/ Stall \/ HostFatal
           \/ EndDrain \/ Observe \/ Demoted \/ UNCHANGED vars
    PROVE StepOK
<1>0. /\ LaneTypeOK /\ Clocks
      /\ ceiling \in Nat /\ lastEngineView \in Nat /\ pass.last \in Nat
  BY DEF OnceInv, AscendInv, HeightInv, LaneTypeOK
<1> USE DEF custodyVars, engineVars, epochVars, boundary, drainVars
<1>1. UNCHANGED <<outstanding, accepted, pending, queue, seen, inbox, deferred, chain, window>>
  BY DEF BeginFlush, EndFlush, RefuseOutOfOrder, Stall, HostFatal, EndDrain, Observe, Demoted, vars
<1>2. CASE BeginFlush \/ EndFlush
  <2>1. turn # "halted" /\ UNCHANGED <<ceiling, pass, lastEngineView>>
    BY <1>2 DEF BeginFlush, EndFlush
  <2> QED
    BY <1>1, <2>1, QuietOnce DEF AwaitingCarry
<1>3. CASE RefuseOutOfOrder \/ HostFatal \/ Demoted
  BY <1>1, <1>3, QuietOnce DEF RefuseOutOfOrder, HostFatal, Demoted
<1>4. CASE Stall
  <2>1. turn # "halted" /\ ~AwaitingCarry
    BY <1>0, <1>4, NoneAwaits DEF Stall, Reaches, Draining
  <2> QED
    BY <1>1, <2>1, QuietOnce
<1>5. CASE EndDrain
  <2>1. turn = "drain" /\ ceiling' = ceiling
        /\ lastEngineView' = IF pass.last # 0 THEN pass.last ELSE lastEngineView
    BY <1>5 DEF EndDrain
  <2>2. ~(ceiling # 0 /\ lastEngineView >= ceiling)
    BY <1>0, <2>1 DEF Clocks
  <2>3. AwaitingCarry => AwaitingCarry'
    BY <1>0, <2>1, <2>2 DEF AwaitingCarry
  <2> QED
    BY <1>1, <2>1, <2>3, QuietOnce
<1>6. CASE Observe
  <2>1. turn = "tick" /\ ~Due /\ pass.last = 0
    BY <1>0, <1>6 DEF Observe, Clocks
  <2>2. ~AwaitingCarry
    BY <1>0, <2>1 DEF AwaitingCarry, Due, Armed
  <2> QED
    BY <1>1, <2>1, <2>2, QuietOnce
<1>7. CASE UNCHANGED vars
  <2>1. UNCHANGED <<turn, ceiling, pass, lastEngineView>>
    BY <1>7 DEF vars
  <2> QED
    BY <1>1, <2>1, QuietOnce DEF AwaitingCarry
<1> QED
  BY <1>2, <1>3, <1>4, <1>5, <1>6, <1>7

LEMMA NextOnce ==
    ASSUME Ascending, Clients = "inorder", ~AdvanceRejects, OnceInv, [Next]_vars
    PROVE OnceInv'
<1>1. AscendInv'
  BY NextAscend DEF OnceInv
<1>2. Clocks' /\ Journal'
  BY NextClocks, NextJournal DEF OnceInv
<1>3. Owned'
  <2>1. LaneTypeOK /\ Owned /\ outstanding \subseteq accepted
    BY DEF OnceInv, AscendInv, HeightInv, Settled
  <2> QED
    BY <2>1, NextOwned
<1>4. StepOK
  <2>1. ASSUME NEW f \in Frame, Submit(f) PROVE StepOK
    BY <2>1, SubmitOnce
  <2>2. CASE ProposeBatch
    BY <2>2, ProposeOnce
  <2>3. ASSUME NEW v \in View, NEW b \in Foreign \cup Elems(queue) \cup Elems(Recovered),
               Certify(v, b)
        PROVE StepOK
    BY <2>3, CertifyOnce
  <2>4. CASE BeginDrain
    BY <2>4, BeginOnce
  <2>5. CASE SkipResumeReplay \/ Discard
    BY <2>5, PassOnce
  <2>6. CASE SealRefused
    BY <2>6, RefusedOnce
  <2>7. ASSUME NEW moved \in BOOLEAN, Execute(moved) PROVE StepOK
    BY <2>7, ExecuteOnce
  <2>8. CASE Cutover
    BY <2>8, CutoverOnce
  <2>9. CASE \/ BeginFlush \/ EndFlush \/ RefuseOutOfOrder \/ Stall \/ HostFatal
             \/ EndDrain \/ Observe \/ Demoted \/ UNCHANGED vars
    BY <2>9, LoopOnce
  <2> QED
    BY <2>1, <2>2, <2>3, <2>4, <2>5, <2>6, <2>7, <2>8, <2>9 DEF Next, Drain
<1> QED
  BY <1>1, <1>2, <1>3, <1>4 DEF OnceInv, StepOK

\* A new process: nothing accepted, and every sealed block another's.
LEMMA InitOnce == Init => OnceInv
<1> SUFFICES ASSUME Init PROVE OnceInv
  OBVIOUS
<1> DEFINE n == Len(Recovered)
<1>1. n \in Nat /\ DOMAIN Recovered = 1..n /\ Recovered \in Seq(Elems(Recovered))
  BY NodeAssumption
<1>2. /\ outstanding = {} /\ accepted = {} /\ pending = <<>> /\ queue = <<>> /\ seen = {}
      /\ inbox = <<>> /\ deferred = <<>> /\ turn = "idle" /\ ceiling = 0 /\ epoch = 0
      /\ viewBase = 0 /\ resumeFloor = n /\ appliedFloor = n
      /\ window = Newest(Recovered, WindowHeights) /\ pass.last = 0
  BY DEF Init, NoPass
<1>3. DOMAIN chain = 1..n /\ \A i \in 1..n : chain[i].batch = Recovered[i] /\ chain[i].ran
  BY <1>1 DEF Init
<1> HIDE DEF n
<1>4. \A i \in 1..n : Recovered[i] \in AlienBatches
  BY <1>1, RecoveredAlien DEF n
<1>5. DOMAIN pending = {} /\ DOMAIN queue = {} /\ DOMAIN inbox = {} /\ DOMAIN deferred = {}
  BY <1>2
<1>6. AscendInv
  BY InitAscend
<1>7. Clocks
  BY <1>2, <1>5 DEF Clocks
<1>8. Journal
  BY <1>1, <1>2, <1>5 DEF Journal, n
<1>9. Owned
  <2>1. <<>> \in Seq(accepted)
    OBVIOUS
  <2> QED
    BY <1>2, <1>3, <1>4, <1>5, <2>1 DEF Owned, Known
<1> DEFINE C == BatchesOf(chain)
<1>10. DOMAIN C = 1..n /\ \A i \in 1..n : ListOf(C[i]) = <<>>
  BY <1>3, <1>4, <1>9, AlienApart DEF BatchesOf
<1> HIDE DEF C
<1>11. FramesIn(C) = {} /\ \A rank : Climbs(C, rank)
  BY <1>10, NothingIn DEF FramesIn, Climbs, Below
<1>12. Settled
  <2>1. window \in Seq(Batches(chain))
    <3>1. Elems(Recovered) \subseteq Batches(chain)
      BY <1>1, <1>3 DEF Elems, Batches
    <3>2. Recovered \in Seq(Batches(chain))
      BY <1>1, <3>1, SeqWider
    <3>3. WindowHeights \in Nat \ {0}
      BY NodeAssumption
    <3> QED
      BY <1>2, <3>2, <3>3, NewestIs
  <2> QED
    BY <1>2, <1>3, <1>11, <2>1 DEF Settled, C
<1>13. Flight
  BY <1>2 DEF Flight
<1>14. \E rank \in [Frame -> Nat], top \in Nat : Ranked(rank, top)
  <2> DEFINE rank == [f \in Frame |-> 0]
  <2>1. rank \in [Frame -> Nat] /\ 0 \in Nat
    OBVIOUS
  <2> HIDE DEF rank
  <2>2. BatchesOf(deferred) = <<>> /\ BatchesOf(inbox) = <<>>
    BY <1>2 DEF BatchesOf
  <2>3. /\ FramesIn(<<>>) = {} /\ Elems(<<>>) = {}
        /\ Climbs(<<>>, rank) /\ Rises(<<>>, rank) /\ Climbs(C, rank)
    BY <1>11, NothingIn
  <2>4. InLine(C, <<>>, <<>>, <<>>, <<>>, {}, rank)
    BY <1>11, <2>3 DEF InLine, Below, OnLine
  <2>5. Ranked(rank, 0)
    BY <1>2, <2>2, <2>4 DEF Ranked, C
  <2> QED
    BY <2>1, <2>5
<1> QED
  BY <1>6, <1>7, <1>8, <1>9, <1>12, <1>13, <1>14 DEF OnceInv

\* A block that ran one of this node's frames is this node's.
LEMMA ExecutedOwn ==
    ASSUME LaneTypeOK, Owned, NEW f \in accepted, NEW i \in Executions(f)
    PROVE /\ i \in DOMAIN chain /\ i \in Nat /\ DOMAIN BatchesOf(chain) = DOMAIN chain
          /\ ListOf(BatchesOf(chain)[i]) = chain[i].batch
          /\ f \in Elems(chain[i].batch) /\ f \in FramesIn(BatchesOf(chain))
          /\ DOMAIN chain[i].batch \subseteq Nat
<1>1. i \in DOMAIN chain /\ f \in Members(chain[i].batch)
  BY DEF Executions
<1>2. Own(chain[i].batch, accepted)
  <2>1. Members(chain[i].batch) \cap accepted # {}
    BY <1>1
  <2> QED
    BY <1>1, <2>1, AlienApart DEF Owned, Known
<1>3. ListOf(chain[i].batch) = chain[i].batch /\ Members(chain[i].batch) = Elems(chain[i].batch)
  BY <1>2, OwnNotAlien
<1>4. DOMAIN BatchesOf(chain) = DOMAIN chain /\ BatchesOf(chain)[i] = chain[i].batch
  BY <1>1 DEF BatchesOf
<1>5. f \in Elems(ListOf(BatchesOf(chain)[i]))
  BY <1>1, <1>3, <1>4
<1>6. f \in FramesIn(BatchesOf(chain))
  BY <1>1, <1>4, <1>5 DEF FramesIn
<1>7. i \in Nat
  BY <1>1 DEF LaneTypeOK
<1>8. DOMAIN chain[i].batch \subseteq Nat
  BY <1>2 DEF Own
<1> QED
  BY <1>1, <1>3, <1>4, <1>5, <1>6, <1>7, <1>8

\* Two executions in the order of their blocks have rising ranks.
LEMMA ExecutedRises ==
    ASSUME LaneTypeOK, Owned, NEW rank, Climbs(BatchesOf(chain), rank),
           NEW f \in accepted, NEW g \in accepted,
           NEW i \in Executions(f), NEW j \in Executions(g), i < j
    PROVE rank[f] < rank[g]
<1>1. /\ i \in DOMAIN BatchesOf(chain) /\ f \in Elems(ListOf(BatchesOf(chain)[i]))
      /\ j \in DOMAIN BatchesOf(chain) /\ g \in Elems(ListOf(BatchesOf(chain)[j]))
  BY ExecutedOwn
<1>2. Below(Elems(ListOf(BatchesOf(chain)[i])), Elems(ListOf(BatchesOf(chain)[j])), rank)
  BY <1>1 DEF Climbs
<1> QED
  BY <1>1, <1>2 DEF Below

\* What the ranks say of the history.
LEMMA OnceIsOrdered == OnceInv => AcceptedOnceInOrder
<1> SUFFICES ASSUME OnceInv PROVE AcceptedOnceInOrder
  OBVIOUS
<1>0. LaneTypeOK /\ Owned /\ Settled /\ Flight
  BY DEF OnceInv, AscendInv, HeightInv
<1>1. PICK rank \in [Frame -> Nat], top \in Nat : Ranked(rank, top)
  BY DEF OnceInv
<1> DEFINE C == BatchesOf(chain)
<1>2. /\ Climbs(C, rank) /\ Rises(pending, rank) /\ Below(FramesIn(C), outstanding, rank)
      /\ Elems(pending) \subseteq outstanding
  BY <1>1 DEF Ranked, InLine, OnLine
<1>3. \A f \in accepted : rank[f] \in Nat
  BY <1>0 DEF Owned
<1>4. PendingInCustody
  <2>1. pending \in Seq(Frame)
    BY <1>0 DEF LaneTypeOK
  <2>2. Cardinality(Elems(pending)) = Len(pending)
    BY <1>2, <2>1, RisesOnce
  <2> QED
    BY <1>2, <2>2 DEF PendingInCustody
<1>5. AcceptedInFlight
  <2>1. \A b : Elems(ListOf(b)) \subseteq Members(b)
    <3> SUFFICES ASSUME NEW b PROVE Elems(ListOf(b)) \subseteq Members(b)
      OBVIOUS
    <3>1. CASE b \in AlienBatches
      BY <1>0, <3>1, AlienApart
    <3>2. CASE b \notin AlienBatches
      BY <3>2 DEF ListOf, AlienBatches, Members
    <3> QED
      BY <3>1, <3>2
  <2>2. FramesIn(BatchesOf(deferred)) \subseteq InFlight
    BY <2>1 DEF FramesIn, BatchesOf, InFlight, Batches
  <2>3. FramesIn(BatchesOf(inbox)) \subseteq InFlight
    BY <2>1 DEF FramesIn, BatchesOf, InFlight, Batches
  <2>4. FramesIn(queue) \subseteq InFlight
    <3>1. \A i \in DOMAIN queue : Members(queue[i]) \subseteq InFlight
      BY DEF InFlight, Elems
    <3> QED
      BY <2>1, <3>1 DEF FramesIn
  <2>5. Elems(pending) \subseteq InFlight
    BY DEF InFlight
  <2>6. Lane \subseteq InFlight
    BY <2>2, <2>3, <2>4, <2>5 DEF Lane, OnLine
  <2> QED
    BY <1>0, <2>6 DEF Flight, AcceptedInFlight
<1>6. FrameOnce
  <2> SUFFICES ASSUME NEW f \in accepted PROVE Cardinality(Executions(f)) <= 1
    BY DEF FrameOnce
  <2>1. ASSUME NEW i \in Executions(f), NEW j \in Executions(f), i < j PROVE FALSE
    <3>1. rank[f] < rank[f]
      BY <1>0, <1>2, <2>1, ExecutedRises
    <3> QED
      BY <1>3, <3>1
  <2>2. \A i \in Executions(f) : i \in Nat
    BY <1>0, ExecutedOwn
  <2>3. ASSUME NEW i \in Executions(f), NEW j \in Executions(f) PROVE i = j
    BY <2>1, <2>2
  <2>4. CASE Executions(f) = {}
    <3>1. Cardinality(Executions(f)) = 0
      BY <2>4, FS_EmptySet
    <3> QED
      BY <3>1
  <2>5. CASE Executions(f) # {}
    <3>1. PICK i : i \in Executions(f)
      BY <2>5
    <3>2. Executions(f) = {i}
      BY <2>3, <3>1
    <3>3. Cardinality(Executions(f)) = 1
      BY <3>2, FS_Singleton
    <3> QED
      BY <3>3
  <2> QED
    BY <2>4, <2>5
<1>7. SubmitterOrder
  <2> SUFFICES ASSUME NEW f \in accepted, NEW g \in accepted, OriginOf[f] = OriginOf[g],
                      SeqOf[f] < SeqOf[g], Executions(g) # {}
               PROVE /\ Executions(f) # {}
                     /\ \A i \in Executions(f), j \in Executions(g) :
                           \/ i < j
                           \/ i = j /\ \E m, n \in DOMAIN chain[i].batch :
                                m < n /\ chain[i].batch[m] = f /\ chain[i].batch[n] = g
    BY DEF SubmitterOrder
  <2>1. rank[f] < rank[g] /\ rank[f] \in Nat /\ rank[g] \in Nat
    BY <1>1, <1>3 DEF Ranked
  <2>2. g \in FramesIn(C)
    BY <1>0, ExecutedOwn
  <2>3. f \notin outstanding
    BY <1>2, <2>1, <2>2 DEF Below
  <2>4. f \in FramesIn(C)
    BY <1>0, <2>3 DEF Settled
  <2>5. Executions(f) # {}
    <3>1. PICK i \in DOMAIN chain : f \in Elems(ListOf(chain[i].batch))
      BY <2>4 DEF FramesIn, BatchesOf
    <3>2. chain[i].batch \notin AlienBatches
      BY <1>0, <3>1, AlienApart
    <3>3. chain[i].ran /\ f \in Members(chain[i].batch)
      BY <1>0, <3>1, <3>2 DEF Settled, ListOf, AlienBatches, Members
    <3> QED
      BY <3>1, <3>3 DEF Executions, Ran
  <2>6. ASSUME NEW i \in Executions(f), NEW j \in Executions(g), ~(i < j)
        PROVE i = j /\ \E m, n \in DOMAIN chain[i].batch :
                 m < n /\ chain[i].batch[m] = f /\ chain[i].batch[n] = g
    <3>1. ~(j < i)
      <4> SUFFICES ASSUME j < i PROVE FALSE
        OBVIOUS
      <4>1. rank[g] < rank[f]
        BY <1>0, <1>2, ExecutedRises
      <4> QED
        BY <2>1, <4>1
    <3>2. i = j
      <4>1. i \in Nat /\ j \in Nat
        BY <1>0, ExecutedOwn
      <4> QED
        BY <2>6, <3>1, <4>1
    <3> DEFINE b == chain[i].batch
    <3>3. f \in Elems(b) /\ g \in Elems(b) /\ DOMAIN b \subseteq Nat /\ Rises(b, rank)
      <4>1. /\ i \in DOMAIN C /\ ListOf(C[i]) = b /\ f \in Elems(b) /\ DOMAIN b \subseteq Nat
        BY <1>0, ExecutedOwn
      <4>2. g \in Elems(b)
        BY <1>0, <3>2, ExecutedOwn
      <4>3. Rises(ListOf(C[i]), rank)
        BY <1>2, <4>1 DEF Climbs
      <4> QED
        BY <4>1, <4>2, <4>3
    <3> HIDE DEF b
    <3>4. PICK m \in DOMAIN b, n \in DOMAIN b : b[m] = f /\ b[n] = g
      BY <3>3 DEF Elems
    <3>5. ~(n < m)
      BY <2>1, <3>3, <3>4 DEF Rises
    <3>6. n # m
      BY <2>1, <3>4
    <3>7. m < n
      BY <3>3, <3>4, <3>5, <3>6
    <3> QED
      BY <3>2, <3>4, <3>7 DEF b
  <2> QED
    BY <2>5, <2>6
<1> QED
  BY <1>4, <1>5, <1>6, <1>7 DEF AcceptedOnceInOrder

\* What an Ok of submit_frame means: as long as clients send each frame once
\* and in order, the inbox releases ascending views and the once-per-block
\* system work rejects no block, an accepted frame waits at most once, is on
\* its way until it resolves, runs at most once and after every earlier frame
\* of its submitter, through packing, foreign batches, resume replays,
\* discards at the ceiling and any number of cutover carries.
THEOREM NodeAcceptedOnceInOrder ==
    ASSUME Ascending, Clients = "inorder", ~AdvanceRejects
    PROVE Spec => []AcceptedOnceInOrder
<1>1. Init => OnceInv
  BY InitOnce
<1>2. OnceInv /\ [Next]_vars => OnceInv'
  BY NextOnce
<1>3. OnceInv => AcceptedOnceInOrder
  BY OnceIsOrdered
<1> QED
  BY <1>1, <1>2, <1>3, PTL DEF Spec
================================================================================
