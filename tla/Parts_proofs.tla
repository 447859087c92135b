---------------------------- MODULE Parts_proofs ----------------------------
(* Proofs about the components that MCParts checks: SavedState, Impulses,  *)
(* CycleStore, EmergencyStop, Requests, and what the breaker's proofs add   *)
(* for all of them together.                                               *)
EXTENDS MCParts, BreakerCalls_proofs, FiniteSetTheorems, WellFoundedInduction, TLAPS

-----------------------------------------------------------------------------
(* SavedState.  Who is up holds at least what the files hold; in the first *)
(* era files and components are ordered as the pass saves them; what an    *)
(* undisturbed reset leaves is of its era.                                 *)

MemAhead ==
    /\ moving => era \in 1..MaxEras
    /\ proc = "up" => \A f \in Files : mem[f].worth >= hot[f].worth

Ordered ==
    era = 0 =>
        /\ SavedInOrder
        /\ proc = "up" => \A f, g \in Files : f < g => mem[f].worth >= mem[g].worth
        /\ pass # 0 => \A f \in Files : f < pass => hot[f] = mem[f]

OfThisEra(c) == c.worth > 0 => c.era = era

Isolated ==
    ~disturbed =>
        /\ moving => proc = "down" /\ \A f \in Statistical \ toMove : OfThisEra(hot[f])
        /\ ~moving => \A f \in Statistical :
                        OfThisEra(hot[f]) /\ (proc = "up" => mem[f].era = era)

SavedInv == SavedTypeOK /\ MemAhead

USE SavedAssumption

\* The records that files and components hold.
LEMMA ContentsFields ==
    ASSUME NEW c \in Contents \cup {Cut}
    PROVE  /\ c.worth \in Int /\ c.worth >= -1
           /\ c.worth = -1 <=> c = Cut
           /\ c # Cut => c \in Contents /\ c.worth \in 0..MaxWorth /\ c.era \in 0..MaxEras
  BY DEF Contents, Cut

LEMMA SavedInitInv == SavedInit => SavedInv
<1> SUFFICES ASSUME SavedInit PROVE SavedInv
  OBVIOUS
<1>1. Nothing \in [Files -> Contents] /\ \A f \in Files : Nothing[f] # Cut
  BY DEF Nothing, Contents, Cut
<1>2. Nothing \in [Files -> Contents \cup {Cut}]
  BY <1>1
<1>3. SavedTypeOK
  <2>1. archive \in [1..MaxEras -> [Files -> Contents \cup {Cut}]]
    BY <1>2 DEF SavedInit
  <2>2. /\ mem \in [Files -> Contents] /\ hot \in [Files -> Contents \cup {Cut}]
        /\ \A f \in Files : hot[f] = Cut => f \in InPlace
    BY <1>1, <1>2 DEF SavedInit
  <2>3. moving \in BOOLEAN /\ disturbed \in BOOLEAN /\ toMove \subseteq Statistical
    BY DEF SavedInit
  <2>4. proc = "down" /\ pass \in 0..NumFiles /\ pass = 0 /\ era \in 0..MaxEras /\ mishaps \in 0..MaxMishaps
    BY DEF SavedInit
  <2> QED BY <2>1, <2>2, <2>3, <2>4 DEF SavedTypeOK
<1>4. MemAhead
  BY DEF SavedInit, MemAhead
<1> QED BY <1>3, <1>4 DEF SavedInv

\* A write that is interrupted leaves contents or, in place, a cut file.
LEMMA InterruptedLeaves ==
    ASSUME SavedTypeOK, Interrupted
    PROVE  /\ hot' \in [Files -> Contents \cup {Cut}]
           /\ \A f \in Files : hot'[f] = hot[f] \/ (f \in InPlace /\ hot'[f] = Cut)
  BY DEF SavedTypeOK, Interrupted

LEMMA SavedStepType == SavedInv /\ [SavedNext]_savedVars => SavedTypeOK'
<1> SUFFICES ASSUME SavedInv, [SavedNext]_savedVars PROVE SavedTypeOK'
  OBVIOUS
<1> USE DEF SavedInv, MemAhead, resetVars
<1> Fresh \in Contents
  BY DEF Fresh, Contents, SavedTypeOK
<1>1. CASE Boot
  BY <1>1, ContentsFields DEF Boot, Loaded, SavedTypeOK, Fresh, Contents
<1>2. CASE BootDegraded
  BY <1>2 DEF BootDegraded, SavedTypeOK
<1>3. CASE Live
  <2>1. \A f \in Files : [era |-> mem[f].era, worth |-> mem[f].worth + 1] \in Contents
    BY <1>3 DEF Live, SavedTypeOK, Contents
  <2> QED BY <1>3, <2>1 DEF Live, SavedTypeOK
<1>4. CASE SaveBegins
  BY <1>4 DEF SaveBegins, SavedTypeOK
<1>5. CASE SaveFile
  <2>1. pass \in Files /\ mem[pass] \in Contents
    BY <1>5 DEF SaveFile, SavedTypeOK, Files
  <2>2. hot' \in [Files -> Contents \cup {Cut}]
    BY <1>5, <2>1 DEF SaveFile, SavedTypeOK
  <2>3. \A f \in Files : hot'[f] = Cut => f \in InPlace
    BY <1>5, <2>1 DEF SaveFile, SavedTypeOK, Contents, Cut
  <2>4. pass' \in 0..NumFiles /\ (pass' # 0 => proc' = "up")
    BY <1>5 DEF SaveFile, SavedTypeOK
  <2> QED BY <1>5, <2>2, <2>3, <2>4 DEF SaveFile, SavedTypeOK
<1>6. CASE SaveFails
  BY <1>6, InterruptedLeaves DEF SaveFails, Mishap, SavedTypeOK
<1>7. CASE Exit
  BY <1>7 DEF Exit, SavedTypeOK
<1>8. CASE Kill
  <2>1. CASE UNCHANGED hot
    BY <1>8, <2>1 DEF Kill, Mishap, SavedTypeOK
  <2>2. CASE Interrupted
    BY <1>8, <2>2, InterruptedLeaves DEF Kill, Mishap, SavedTypeOK
  <2> QED BY <1>8, <2>1, <2>2 DEF Kill
<1>9. CASE ResetBegins
  BY <1>9 DEF ResetBegins, SavedTypeOK
<1>10. CASE \E f \in Files : MoveFile(f)
  <2> PICK f \in Files : MoveFile(f)
    BY <1>10
  <2>1. archive' \in [1..MaxEras -> [Files -> Contents \cup {Cut}]]
    BY DEF MoveFile, SavedTypeOK
  <2>2. hot' \in [Files -> Contents \cup {Cut}] /\ \A g \in Files : hot'[g] = Cut => g \in InPlace
    BY DEF MoveFile, SavedTypeOK, Contents, Cut, Fresh
  <2> QED BY <2>1, <2>2 DEF MoveFile, SavedTypeOK
<1>11. CASE ResetEnds
  BY <1>11 DEF ResetEnds, SavedTypeOK
<1>12. CASE ResetKilled
  <2>1. mishaps' \in 0..MaxMishaps
    BY <1>12 DEF ResetKilled, Mishap, SavedTypeOK
  <2>2. moving' \in BOOLEAN /\ toMove' \subseteq Statistical /\ disturbed' \in BOOLEAN
    BY <1>12 DEF ResetKilled
  <2> QED BY <1>12, <2>1, <2>2 DEF ResetKilled, SavedTypeOK
<1>13. CASE UNCHANGED savedVars
  BY <1>13 DEF savedVars, SavedTypeOK
<1> QED
  BY <1>1, <1>2, <1>3, <1>4, <1>5, <1>6, <1>7, <1>8, <1>9, <1>10, <1>11, <1>12, <1>13 DEF SavedNext

LEMMA SavedStepAhead == SavedInv /\ [SavedNext]_savedVars => MemAhead'
<1> SUFFICES ASSUME SavedInv, [SavedNext]_savedVars PROVE MemAhead'
  OBVIOUS
<1> USE DEF SavedInv, MemAhead, resetVars
<1>0. \A f \in Files : mem[f].worth \in 0..MaxWorth /\ hot[f].worth \in Int /\ (hot[f].worth = -1 <=> hot[f] = Cut)
  BY ContentsFields DEF SavedTypeOK, Contents
<1>1. CASE Boot
  BY <1>1, <1>0 DEF Boot, Loaded, Fresh
<1>2. CASE BootDegraded
  BY <1>2 DEF BootDegraded
<1>3. CASE Live
  <2>1. \A f \in Files : mem'[f].worth = mem[f].worth + 1
    BY <1>3 DEF Live, SavedTypeOK, Contents
  <2> QED BY <1>3, <1>0, <2>1 DEF Live
<1>4. CASE SaveBegins \/ Exit \/ ResetEnds \/ ResetKilled
  BY <1>4 DEF SaveBegins, Exit, ResetEnds, ResetKilled
<1>5. CASE SaveFile
  BY <1>5, <1>0 DEF SaveFile, SavedTypeOK
<1>6. CASE SaveFails
  <2>1. \A f \in Files : hot'[f] = hot[f] \/ hot'[f].worth = -1
    BY <1>6, InterruptedLeaves DEF SaveFails, Cut
  <2> QED BY <1>6, <1>0, <2>1 DEF SaveFails
<1>7. CASE Kill
  BY <1>7 DEF Kill
<1>8. CASE ResetBegins
  BY <1>8 DEF ResetBegins, SavedTypeOK
<1>9. CASE \E f \in Files : MoveFile(f)
  <2> PICK f \in Files : MoveFile(f)
    BY <1>9
  <2>1. \A g \in Files : hot'[g] = hot[g] \/ hot'[g].worth = 0
    BY DEF MoveFile, SavedTypeOK, Fresh
  <2> QED BY <1>0, <2>1 DEF MoveFile
<1>10. CASE UNCHANGED savedVars
  BY <1>10 DEF savedVars
<1> QED
  BY <1>1, <1>2, <1>3, <1>4, <1>5, <1>6, <1>7, <1>8, <1>9, <1>10 DEF SavedNext

\* The component files and the processes' copies keep their types: only a file
\* written in place is ever found cut, and a pass of saves belongs to a process
\* whose components were loaded (save_v35_state, _init_v35_components).
THEOREM SavedTypeCorrect == SavedSpec => []SavedTypeOK
<1>1. SavedInv /\ [SavedNext]_savedVars => SavedInv'
  BY SavedStepType, SavedStepAhead DEF SavedInv
<1> QED BY <1>1, SavedInitInv, PTL DEF SavedSpec, SavedInv

LEMMA SavedAlways == SavedSpec => []SavedInv
<1>1. SavedInv /\ [SavedNext]_savedVars => SavedInv'
  BY SavedStepType, SavedStepAhead DEF SavedInv
<1> QED BY <1>1, SavedInitInv, PTL DEF SavedSpec

\* What is read of the worth of contents.
LEMMA Worths ==
    ASSUME SavedInv
    PROVE  \A f \in Files : /\ mem[f].worth \in 0..MaxWorth
                            /\ hot[f].worth \in Int /\ hot[f].worth >= -1
                            /\ hot[f].worth = -1 <=> hot[f] = Cut
  BY ContentsFields DEF SavedInv, SavedTypeOK, Contents

\* No save, whatever was interrupted before it, replaces a file by one that
\* holds less: a process that saves has loaded every file (save_v35_state and
\* the degraded mode of _init_v35_components).
THEOREM SavesGainWorth == SavedSpec => WorthGrows
<1> DEFINE Step(f) == \/ hot'[f].worth >= hot[f].worth
                      \/ hot'[f] = Cut
                      \/ moving /\ archive'[era][f] = hot[f]
<1>1. SavedInv /\ [SavedNext]_savedVars => [\A f \in Files : Step(f)]_savedVars
  <2> SUFFICES ASSUME SavedInv, SavedNext, NEW f \in Files PROVE Step(f)
    BY DEF savedVars
  <2>0. hot[f].worth \in Int /\ mem[f].worth \in Int
    BY Worths
  <2>1. CASE UNCHANGED hot
    BY <2>0, <2>1
  <2>2. CASE SaveFile
    <3>1. pass \in Files /\ mem[pass].worth >= hot[pass].worth
      BY <2>2 DEF SaveFile, SavedInv, SavedTypeOK, MemAhead, Files
    <3> QED BY <2>2, <2>0, <3>1 DEF SaveFile, SavedInv, SavedTypeOK
  <2>3. CASE Interrupted
    BY <2>0, <2>3, InterruptedLeaves DEF SavedInv
  <2>4. CASE \E g \in Files : MoveFile(g)
    <3> PICK g \in Files : MoveFile(g)
      BY <2>4
    <3>1. CASE f = g
      BY <3>1 DEF MoveFile, SavedInv, SavedTypeOK, MemAhead
    <3>2. CASE f # g
      BY <2>0, <3>2 DEF MoveFile, SavedInv, SavedTypeOK
    <3> QED BY <3>1, <3>2
  <2> QED
    BY <2>1, <2>2, <2>3, <2>4
    DEF SavedNext, Boot, BootDegraded, Live, SaveBegins, SaveFails, Exit, Kill, ResetBegins, ResetEnds, ResetKilled
<1> QED BY <1>1, SavedAlways, PTL DEF SavedSpec, WorthGrows

\* A file found cut when no process with components is there stays cut, and
\* keeps every process without components, until a reset moves it away
\* (affect_engine.json; _init_v35_components' except branch).
THEOREM CutFilesStay == SavedSpec => OnlyResetsMend
<1> DEFINE Step(f) ==
        hot[f] = Cut /\ proc # "up" => moving \/ (hot'[f] = Cut /\ proc' # "up")
<1>1. SavedInv /\ [SavedNext]_savedVars => [\A f \in Files : Step(f)]_savedVars
  <2> SUFFICES ASSUME SavedInv, SavedNext, NEW f \in Files,
                      hot[f] = Cut, proc # "up", ~moving
               PROVE  hot'[f] = Cut /\ proc' # "up"
    BY DEF savedVars
  <2>0. pass = 0
    BY DEF SavedInv, SavedTypeOK
  <2>1. CASE BootDegraded \/ Exit \/ ResetBegins
    BY <2>1 DEF BootDegraded, Exit, ResetBegins
  <2>2. CASE Kill
    BY <2>0, <2>2, InterruptedLeaves DEF Kill, SavedInv
  <2> QED
    BY <2>0, <2>1, <2>2
    DEF SavedNext, Boot, Live, SaveBegins, SaveFile, SaveFails, MoveFile, ResetEnds, ResetKilled
<1> QED BY <1>1, SavedAlways, PTL DEF SavedSpec, OnlyResetsMend

LEMMA SavedStepOrdered ==
    SavedInv /\ SavedInv' /\ Ordered /\ [SavedNext]_savedVars => Ordered'
<1> SUFFICES ASSUME SavedInv, SavedInv', Ordered, [SavedNext]_savedVars, era' = 0
             PROVE  Ordered'
  BY DEF Ordered
<1>0. /\ \A f \in Files : /\ mem[f].worth \in Int /\ hot[f].worth \in Int
                          /\ mem[f] # Cut
                          /\ hot[f].worth = -1 <=> hot[f] = Cut
      /\ mem \in [Files -> Contents] /\ hot \in [Files -> Contents \cup {Cut}]
      /\ pass \in 0..NumFiles /\ (pass # 0 => proc = "up")
      /\ proc = "up" => \A f \in Files : mem[f].worth >= hot[f].worth
  BY Worths DEF SavedInv, SavedTypeOK, Contents, Cut, MemAhead
<1> Files \subseteq Nat
  BY DEF Files
<1> USE DEF resetVars
<1>1. CASE UNCHANGED <<mem, hot, era>> /\ (proc' = proc \/ proc' # "up") /\ (pass' = pass \/ pass' = 0)
  BY <1>1 DEF Ordered, SavedInOrder
<1>2. CASE Boot
  <2>1. \A f \in Files : hot[f] # Cut /\ mem'[f].worth = hot[f].worth
    BY <1>2 DEF Boot, Loaded, Fresh
  <2> QED BY <1>0, <1>2, <2>1 DEF Boot, Ordered, SavedInOrder
<1>3. CASE Live
  <2>1. \A f \in Files : mem'[f].worth = mem[f].worth + 1
    BY <1>3 DEF Live
  <2> QED BY <1>0, <1>3, <2>1 DEF Live, Ordered, SavedInOrder
<1>4. CASE SaveBegins
  BY <1>4 DEF SaveBegins, Ordered, SavedInOrder, Files
<1>5. CASE SaveFile
  <2>1. pass \in Files /\ era = 0 /\ proc = "up"
    BY <1>0, <1>5 DEF SaveFile, Files
  <2>2. /\ hot'[pass] = mem[pass] /\ \A f \in Files \ {pass} : hot'[f] = hot[f]
        /\ mem' = mem /\ proc' = proc
    BY <1>0, <1>5, <2>1 DEF SaveFile
  <2>3. \A f \in Files : f <= pass => hot'[f] = mem[f]
    BY <1>0, <2>1, <2>2 DEF Ordered
  <2>4. \A f \in Files : mem[f].worth >= hot[f].worth
    BY <1>0, <2>1
  <2>5. SavedInOrder'
    <3> SUFFICES ASSUME NEW f \in Files, NEW g \in Files, f < g, Cut \notin {hot'[f], hot'[g]}
                 PROVE  hot'[f].worth >= hot'[g].worth
      BY DEF SavedInOrder
    <3>1. mem[f].worth >= mem[g].worth
      BY <2>1 DEF Ordered
    <3>2. CASE g <= pass
      <4>1. f <= pass
        BY <2>1, <3>2
      <4> QED BY <2>3, <3>1, <3>2, <4>1
    <3>3. CASE f <= pass /\ g > pass
      BY <1>0, <2>2, <2>3, <2>4, <3>1, <3>3
    <3>4. CASE f > pass
      <4>1. f # pass /\ g # pass
        BY <2>1, <3>4
      <4>2. hot'[f] = hot[f] /\ hot'[g] = hot[g]
        BY <2>2, <4>1
      <4> QED BY <2>1, <4>2 DEF Ordered, SavedInOrder
    <3>5. f \in Nat /\ g \in Nat /\ pass \in Nat
      BY <2>1
    <3> QED BY <3>2, <3>3, <3>4, <3>5
  <2>6. pass' # 0 => \A f \in Files : f < pass' => hot'[f] = mem'[f]
    BY <1>0, <1>5, <2>2, <2>3 DEF SaveFile
  <2> QED BY <2>1, <2>2, <2>5, <2>6 DEF Ordered
<1>6. CASE Interrupted /\ pass' = 0 /\ UNCHANGED <<mem, era>> /\ (proc' = proc \/ proc' # "up")
  <2>1. \A f \in Files : hot'[f] = hot[f] \/ hot'[f] = Cut
    BY <1>6, InterruptedLeaves DEF SavedInv
  <2> QED BY <1>6, <2>1 DEF Ordered, SavedInOrder
<1>7. CASE ResetBegins \/ \E f \in Files : MoveFile(f)
  BY <1>7 DEF ResetBegins, MoveFile, SavedInv, SavedTypeOK, MemAhead
<1>8. CASE UNCHANGED savedVars
  BY <1>1, <1>8 DEF savedVars
<1> QED
  BY <1>1, <1>2, <1>3, <1>4, <1>5, <1>6, <1>7, <1>8
  DEF SavedNext, BootDegraded, SaveFails, Exit, Kill, ResetEnds, ResetKilled

\* In the first era no file is behind one that the pass saves after it: a pass
\* that fails or is killed has saved a prefix (save_v35_state).
THEOREM SavedPrefix == SavedSpec => []SavedInOrder
<1>1. SavedInit => Ordered
  BY DEF SavedInit, Ordered, SavedInOrder, Nothing
<1>2. Ordered => SavedInOrder
  BY DEF Ordered, SavedInOrder
<1> QED BY <1>1, <1>2, SavedStepOrdered, SavedAlways, PTL DEF SavedSpec

LEMMA SavedStepIsolated ==
    SavedInv /\ Isolated /\ [SavedNext]_savedVars => Isolated'
<1> SUFFICES ASSUME SavedInv, Isolated, [SavedNext]_savedVars, ~disturbed'
             PROVE  Isolated'
  BY DEF Isolated
<1>0. /\ \A f \in Files : /\ mem[f].worth \in Int /\ hot[f].worth \in Int
                          /\ hot[f].worth = -1 <=> hot[f] = Cut
                          /\ hot[f].worth >= -1
      /\ mem \in [Files -> Contents] /\ hot \in [Files -> Contents \cup {Cut}]
      /\ pass \in 0..NumFiles /\ (pass # 0 => proc = "up")
      /\ Statistical \subseteq Files
  BY Worths DEF SavedInv, SavedTypeOK, Files
<1> USE DEF resetVars
<1>1. CASE UNCHANGED <<mem, hot, resetVars, disturbed>> /\ (proc' = proc \/ proc' = "down")
  BY <1>1 DEF Isolated, OfThisEra
<1>2. CASE Boot
  <2>1. ~moving /\ ~disturbed /\ ~moving' /\ hot' = hot /\ era' = era
    BY <1>2 DEF Boot
  <2>2. \A f \in Files : (mem'[f] = hot[f] /\ hot[f].worth > 0) \/ mem'[f].era = era
    BY <1>0, <1>2 DEF Boot, Loaded, Fresh
  <2>3. \A f \in Statistical : OfThisEra(hot[f]) /\ f \in Files
    BY <1>0, <2>1 DEF Isolated
  <2>4. \A f \in Statistical : (hot'[f].worth > 0 => hot'[f].era = era') /\ mem'[f].era = era'
    BY <2>1, <2>2, <2>3 DEF OfThisEra
  <2> QED BY <2>1, <2>4 DEF Isolated, OfThisEra
<1>3. CASE BootDegraded
  BY <1>3 DEF BootDegraded, Isolated, OfThisEra
<1>4. CASE Live
  <2>1. ~moving /\ ~disturbed /\ ~moving' /\ hot' = hot /\ era' = era /\ proc = "up"
    BY <1>4 DEF Live, Isolated
  <2>2. \A f \in Statistical : OfThisEra(hot[f]) /\ mem'[f].era = era
    BY <1>0, <1>4, <2>1 DEF Live, Isolated
  <2> QED BY <2>1, <2>2 DEF Isolated, OfThisEra
<1>5. CASE SaveFile
  <2>1. ~moving /\ ~disturbed /\ proc = "up"
    BY <1>0, <1>5 DEF SaveFile, Isolated
  <2>2. \A f \in Files : hot'[f] = hot[f] \/ hot'[f] = mem[f]
    BY <1>0, <1>5 DEF SaveFile
  <2> QED BY <1>0, <1>5, <2>1, <2>2 DEF SaveFile, Isolated, OfThisEra
<1>6. CASE Interrupted /\ UNCHANGED <<mem, resetVars, disturbed>> /\ (proc' = proc \/ proc' = "down")
  <2>1. \A f \in Files : hot'[f] = hot[f] \/ ~(hot'[f].worth > 0)
    BY <1>6, InterruptedLeaves DEF SavedInv, Cut
  <2> QED BY <1>0, <1>6, <2>1 DEF Isolated, OfThisEra
<1>7. CASE ResetBegins
  <2>1. proc = "down" /\ moving' /\ proc' = proc /\ hot' = hot
    BY <1>7 DEF ResetBegins
  <2>2. \A f \in Statistical \ toMove' : ~(hot'[f].worth > 0)
    BY <1>7 DEF ResetBegins
  <2> QED BY <2>1, <2>2 DEF Isolated, OfThisEra
<1>8. CASE \E f \in Files : MoveFile(f)
  <2> PICK f \in Files : MoveFile(f)
    BY <1>8
  <2>1. ~(hot'[f].worth > 0) /\ \A g \in Files \ {f} : hot'[g] = hot[g]
    BY <1>0 DEF MoveFile, Fresh
  <2>2. ~disturbed /\ moving /\ moving' = moving /\ proc' = proc /\ era' = era /\ toMove' = toMove \ {f}
    BY DEF MoveFile
  <2>3. \A g \in Statistical \ toMove' : g = f \/ (g \in Statistical \ toMove /\ hot'[g] = hot[g])
    BY <1>0, <2>1, <2>2
  <2>4. proc = "down" /\ \A g \in Statistical \ toMove : OfThisEra(hot[g])
    BY <2>2 DEF Isolated
  <2>5. \A g \in Statistical \ toMove' : hot'[g].worth > 0 => hot'[g].era = era'
    BY <2>1, <2>2, <2>3, <2>4 DEF OfThisEra
  <2>6. proc' = "down" /\ moving'
    BY <2>2, <2>4
  <2> QED BY <2>5, <2>6 DEF Isolated, OfThisEra
<1>9. CASE ResetEnds
  <2>1. ~disturbed /\ moving /\ toMove = {} /\ ~moving' /\ proc' = proc /\ era' = era /\ hot' = hot
    BY <1>9 DEF ResetEnds
  <2>2. \A f \in Statistical : hot[f].worth > 0 => hot[f].era = era
    BY <2>1 DEF Isolated, OfThisEra
  <2>3. proc' # "up"
    BY <2>1 DEF Isolated
  <2> QED BY <2>1, <2>2, <2>3 DEF Isolated, OfThisEra
<1>10. CASE UNCHANGED savedVars
  BY <1>10 DEF savedVars, Isolated, OfThisEra
<1> QED
  BY <1>1, <1>2, <1>3, <1>4, <1>5, <1>6, <1>7, <1>8, <1>9, <1>10
  DEF SavedNext, SaveBegins, SaveFails, Exit, Kill, ResetKilled

\* After a reset that no process lived beside and that came to its end, the
\* statistical files begin in the current era (epoch_reset).
THEOREM EraKeptApart == SavedSpec => []EraIsolated
<1>1. SavedInit => Isolated
  BY SavedAssumption DEF SavedInit, Isolated, OfThisEra, Nothing, Files
<1>2. Isolated => EraIsolated
  BY DEF Isolated, EraIsolated, OfThisEra
<1> QED BY <1>1, <1>2, SavedStepIsolated, SavedAlways, PTL DEF SavedSpec

HIDE SavedAssumption

-----------------------------------------------------------------------------
(* Impulses.  Each impulse is a number that was given out, in one place.   *)

Known == 1..Len(urgency)

ImpulsesPlaced ==
    /\ urgency \in Seq(Urgencies)
    /\ carried \in [Origins -> SUBSET Known]
    /\ buffer \subseteq Known /\ queued \subseteq Known /\ told \subseteq Known

IdleCarriesNothing ==
    /\ at \in [Origins -> {"idle", "search", "llm", "persist"}]
    /\ \A o \in Origins : at[o] = "idle" => carried[o] = {}

ImpulsesInv == ImpulsesPlaced /\ ToldOnce /\ IdleCarriesNothing

LEMMA StrongestAreAmong ==
    \A u, S, T, n : /\ Strongest(u, S, n) \subseteq S
                   /\ Push(u, S, T) \subseteq S \cup T
                   /\ Collect(u, S, n) \subseteq S
  BY DEF Strongest, Push, Collect

\* Feeding extends the numbers that are given out.
LEMMA FedExtends ==
    ASSUME ImpulsesPlaced, NEW us \in Seq(Urgencies), Fed(us)
    PROVE  /\ urgency' \in Seq(Urgencies)
           /\ Len(urgency') = Len(urgency) + Len(us)
           /\ Known \subseteq Known'
           /\ New \subseteq Known' /\ New \cap Known = {}
           /\ \A i \in Known : urgency'[i] = urgency[i]
  BY DEF Fed, ImpulsesPlaced, Known, New

LEMMA FeedsAreSequences ==
    /\ \A us \in Feeds : us \in Seq(Urgencies)
    /\ \A us, late \in Seq(Urgencies) : us \o late \in Seq(Urgencies)
    /\ \A u \in Urgencies : <<u>> \in Seq(Urgencies)
<1>1. ASSUME NEW us \in Feeds PROVE us \in Seq(Urgencies)
  <2>1. PICK n \in 0..MaxFeed : us \in [1..n -> Urgencies]
    BY DEF Feeds
  <2> QED BY <2>1, ImpulseAssumption
<1> QED BY <1>1

LEMMA IdleStep == ImpulsesInv /\ [ImpulsesNext]_impulseVars => IdleCarriesNothing'
<1> SUFFICES ASSUME ImpulsesInv, [ImpulsesNext]_impulseVars PROVE IdleCarriesNothing'
  OBVIOUS
<1> USE DEF ImpulsesInv, ImpulsesPlaced, IdleCarriesNothing, Origins
<1>1. CASE UNCHANGED <<at, carried>>
  BY <1>1
<1>2. CASE Ask \/ Watch
  BY <1>2 DEF Ask, Watch
<1>3. CASE \E o \in Origins : Think(o) \/ Answer(o)
  <2> PICK o \in Origins : Think(o) \/ Answer(o)
    BY <1>3
  <2>1. PICK where \in {"llm", "persist"} : at' = [at EXCEPT ![o] = where]
    BY DEF Think, Answer
  <2>2. \A p \in Origins \ {o} : carried'[p] = carried[p]
    BY DEF Think, Answer
  <2> QED BY <2>1, <2>2
<1>4. CASE UserReturns \/ VoiceReturns \/ VoiceFails \/ Detach \/ Quit \/ Restart
  BY <1>4 DEF UserReturns, VoiceReturns, VoiceFails, Detach, Quit, Restart, SessionEnds
<1> QED
  BY <1>1, <1>2, <1>3, <1>4
  DEF ImpulsesNext, LoopTick, IdleThought, DreamInsight, HeartBeat, Command, WatchStopped, Attach, impulseVars

LEMMA ImpulsesStep == ImpulsesInv /\ [ImpulsesNext]_impulseVars => ImpulsesInv'
<1> SUFFICES ASSUME ImpulsesInv, [ImpulsesNext]_impulseVars
             PROVE  ImpulsesPlaced' /\ ToldOnce'
  BY IdleStep DEF ImpulsesInv
<1> USE DEF ImpulsesInv, ImpulsesPlaced, ToldOnce, Pending, Origins
<1>0. \A o \in Origins : carried[o] \subseteq Known
  OBVIOUS
<1>1. CASE LoopTick
  <2> PICK us \in Feeds : Fed(us)
    BY <1>1 DEF LoopTick
  <2> DEFINE fed == Push(urgency', buffer, New)
             got == IF attached THEN {} ELSE Collect(urgency', fed, since)
  <2>1. buffer' = fed \ got /\ told' = told \cup got /\ UNCHANGED <<carried, queued>>
    BY <1>1 DEF LoopTick
  <2>2. fed \subseteq buffer \cup New /\ got \subseteq fed
    BY StrongestAreAmong
  <2>3. /\ urgency' \in Seq(Urgencies) /\ Known \subseteq Known'
        /\ New \subseteq Known' /\ New \cap Known = {}
    BY FedExtends, FeedsAreSequences
  <2> HIDE DEF fed, got
  <2> QED BY <2>1, <2>2, <2>3
<1>2. CASE IdleThought \/ DreamInsight
  <2>1. PICK us \in Seq(Urgencies) : Fed(us)
    BY <1>2, FeedsAreSequences DEF IdleThought, DreamInsight
  <2>2. buffer' \subseteq buffer \cup New /\ UNCHANGED <<carried, queued, told>>
    BY <1>2, StrongestAreAmong DEF IdleThought, DreamInsight
  <2>3. /\ urgency' \in Seq(Urgencies) /\ Known \subseteq Known'
        /\ New \subseteq Known' /\ New \cap Known = {}
    BY <2>1, FedExtends
  <2> QED BY <2>2, <2>3
<1>3. CASE HeartBeat \/ Attach \/ (\E o \in Origins : Think(o)) \/ UNCHANGED impulseVars
  BY <1>3 DEF HeartBeat, Attach, Think, impulseVars, Known
<1>4. CASE Ask \/ Command
  BY <1>4 DEF Ask, Command, Prompted, Known
<1>5. CASE Watch \/ WatchStopped
  <2> DEFINE got == Collect(urgency, buffer, since)
  <2>1. got \subseteq buffer
    BY StrongestAreAmong
  <2>2. /\ buffer' = buffer \ got /\ UNCHANGED <<urgency, queued, told>>
        /\ carried' = carried \/ carried' = [carried EXCEPT !["luna"] = got]
    BY <1>5 DEF Watch, WatchStopped
  <2> HIDE DEF got
  <2> QED BY <2>1, <2>2 DEF Known
<1>6. CASE \E o \in Origins : Answer(o)
  <2> PICK o \in Origins : Answer(o)
    BY <1>6
  <2> PICK us \in Feeds, late \in Feeds :
        /\ Fed(us \o late)
        /\ LET last == Len(urgency) + Len(us)
               fed  == Push(urgency', buffer, Len(urgency) + 1 .. last)
               got  == IF o = "user" THEN Collect(urgency', fed, since + 1) ELSE {}
           IN  /\ buffer' = Push(urgency', fed \ got, last + 1 .. Len(urgency'))
               /\ carried' = [carried EXCEPT ![o] = @ \cup got]
    BY DEF Answer
  <2> DEFINE last == Len(urgency) + Len(us)
             fed  == Push(urgency', buffer, Len(urgency) + 1 .. last)
             got  == IF o = "user" THEN Collect(urgency', fed, since + 1) ELSE {}
  <2>1. /\ buffer' = Push(urgency', fed \ got, last + 1 .. Len(urgency'))
        /\ carried' = [carried EXCEPT ![o] = carried[o] \cup got]
        /\ UNCHANGED <<queued, told>>
    BY DEF Answer
  <2>2. /\ urgency' \in Seq(Urgencies) /\ Known \subseteq Known'
        /\ New \subseteq Known' /\ New \cap Known = {}
        /\ Len(urgency') = Len(urgency) + Len(us) + Len(late)
        /\ Len(us) \in Nat /\ Len(late) \in Nat /\ Len(urgency) \in Nat
    <3>1. us \in Seq(Urgencies) /\ late \in Seq(Urgencies) /\ us \o late \in Seq(Urgencies)
      BY FeedsAreSequences
    <3>2. Len(us \o late) = Len(us) + Len(late) /\ Len(us) \in Nat /\ Len(late) \in Nat
      BY <3>1
    <3>3. Fed(us \o late)
      OBVIOUS
    <3> HIDE DEF ImpulsesInv, ImpulsesPlaced
    <3>4. ImpulsesPlaced
      BY DEF ImpulsesInv
    <3>5. /\ urgency' \in Seq(Urgencies) /\ Known \subseteq Known'
          /\ New \subseteq Known' /\ New \cap Known = {}
          /\ Len(urgency') = Len(urgency) + Len(us \o late)
      BY <3>1, <3>3, <3>4, FedExtends
    <3>6. Len(urgency) \in Nat
      BY <3>4 DEF ImpulsesPlaced
    <3> QED BY <3>2, <3>5, <3>6
  <2>3. /\ (Len(urgency) + 1 .. last) \cap (last + 1 .. Len(urgency')) = {}
        /\ (Len(urgency) + 1 .. last) \subseteq New
        /\ (last + 1 .. Len(urgency')) \subseteq New
    BY <2>2 DEF New
  <2>4. /\ fed \subseteq buffer \cup (Len(urgency) + 1 .. last)
        /\ got \subseteq fed
        /\ Push(urgency', fed \ got, last + 1 .. Len(urgency')) \subseteq (fed \ got) \cup (last + 1 .. Len(urgency'))
    <3>1. \A S, T : Push(urgency', S, T) \subseteq S \cup T
      BY StrongestAreAmong
    <3>2. \A S, n : Collect(urgency', S, n) \subseteq S
      BY StrongestAreAmong
    <3>3. fed \subseteq buffer \cup (Len(urgency) + 1 .. last)
      BY <3>1
    <3>4. got \subseteq fed
      BY <3>2
    <3>5. Push(urgency', fed \ got, last + 1 .. Len(urgency')) \subseteq (fed \ got) \cup (last + 1 .. Len(urgency'))
      BY <3>1
    <3> QED BY <3>3, <3>4, <3>5
  <2> DEFINE first == Len(urgency) + 1 .. last
             second == last + 1 .. Len(urgency')
  <2>5. /\ got \subseteq buffer \cup first /\ buffer' \subseteq ((buffer \cup first) \ got) \cup second
        /\ first \cap second = {} /\ first \cup second \subseteq New
    BY <2>1, <2>3, <2>4
  <2> HIDE DEF last, fed, got, first, second
  <2>6. buffer' \subseteq Known' /\ buffer' \cap got = {} /\ got \subseteq Known'
    BY <2>2, <2>5
  <2>7. /\ buffer' \cap (told \cup queued \cup carried["user"] \cup carried["luna"]) = {}
        /\ got \cap (told \cup queued \cup carried["user"] \cup carried["luna"]) = {}
    BY <2>2, <2>5
  <2>8. /\ carried' \in [Origins -> SUBSET Known']
        /\ carried'["user"] \subseteq carried["user"] \cup IF o = "user" THEN got ELSE {}
        /\ carried'["luna"] \subseteq carried["luna"] \cup IF o = "luna" THEN got ELSE {}
    BY <2>1, <2>2, <2>6
  <2> QED BY <2>1, <2>2, <2>6, <2>7, <2>8
<1>7. CASE UserReturns \/ VoiceReturns \/ VoiceFails
  BY <1>7 DEF UserReturns, VoiceReturns, VoiceFails, Known
<1>8. CASE Detach \/ Quit \/ Restart
  BY <1>8 DEF Detach, Quit, Restart, SessionEnds, Known
<1> QED
  BY <1>1, <1>2, <1>3, <1>4, <1>5, <1>6, <1>7, <1>8 DEF ImpulsesNext

\* An impulse is in one place and shown once, though user turn, watcher and loop
\* all collect from one buffer (EndogenousSource.collect, _drain_endogenous).
THEOREM ImpulsesToldOnce == ImpulsesSpec => []ToldOnce
<1>1. ImpulsesInit => ImpulsesInv
  BY DEF ImpulsesInit, ImpulsesInv, ImpulsesPlaced, ToldOnce, IdleCarriesNothing, Pending, Origins
<1> QED BY <1>1, ImpulsesStep, PTL DEF ImpulsesSpec, ImpulsesInv

\* What a push drops has MaxBuffer stronger impulses in the buffer.
LEMMA DroppedAreOutranked ==
    ASSUME NEW u, NEW S, NEW T, NEW i \in S \cup T, i \notin Push(u, S, T),
           IsFiniteSet(S \cup T)
    PROVE  Cardinality({j \in S \cup T : Before(u, j, i)}) >= MaxBuffer
<1>1. ~(Cardinality({j \in S \cup T : Before(u, j, i)}) < MaxBuffer)
  BY DEF Push, Strongest
<1>2. Cardinality({j \in S \cup T : Before(u, j, i)}) \in Nat
  BY FS_Subset, FS_CardinalityType
<1> QED BY <1>1, <1>2, ImpulseAssumption

\* What a collection takes comes before all it leaves.
LEMMA CollectedIsFirst ==
    ASSUME NEW u \in Seq(Urgencies), NEW S \in SUBSET (1..Len(u)), NEW n,
           NEW i \in Collect(u, S, n), NEW j \in S, i # j
    PROVE  Before(u, i, j)
<1> DEFINE above == {k \in S : Before(u, k, i)}
<1>1. i \in S /\ Cardinality(above) < 1
  BY DEF Collect, Strongest
<1>2. IsFiniteSet(above)
  <2>1. IsFiniteSet(1..Len(u))
    BY FS_Interval
  <2> QED BY <2>1, FS_Subset
<1>3. above = {}
  <2>1. Cardinality(above) \in Nat
    BY <1>2, FS_CardinalityType
  <2>2. Cardinality(above) = 0
    BY <1>1, <2>1
  <2> QED BY <1>2, <2>2, FS_EmptySet
<1>4. ~Before(u, j, i)
  BY <1>3
<1>5. u[i] \in Nat /\ u[j] \in Nat /\ i \in Nat /\ j \in Nat
  <2>1. i \in 1..Len(u) /\ j \in 1..Len(u) /\ Len(u) \in Nat
    BY <1>1
  <2>2. u[i] \in Urgencies /\ u[j] \in Urgencies
    BY <2>1
  <2>3. Urgencies \subseteq Nat
    BY ImpulseAssumption
  <2>4. i \in Nat /\ j \in Nat
    BY <2>1
  <2> QED BY <2>2, <2>3, <2>4
<1> QED BY <1>4, <1>5 DEF Before

LEMMA ImpulsesAlways == ImpulsesSpec => []ImpulsesInv
<1>1. ImpulsesInit => ImpulsesInv
  BY DEF ImpulsesInit, ImpulsesInv, ImpulsesPlaced, ToldOnce, IdleCarriesNothing, Pending, Origins
<1> QED BY <1>1, ImpulsesStep, PTL DEF ImpulsesSpec

\* One feed of a turn or a tick: the impulses known, and those that are new.
LEMMA AnswerFeeds ==
    ASSUME ImpulsesInv, NEW us \in Feeds, NEW late \in Feeds, Fed(us \o late)
    PROVE  LET first == Len(urgency) + 1 .. Len(urgency) + Len(us)
               second == Len(urgency) + Len(us) + 1 .. Len(urgency')
           IN  /\ first \cap second = {} /\ first \cup second = New
               /\ New \subseteq Known' /\ New \cap Known = {} /\ Known \subseteq Known'
               /\ urgency' \in Seq(Urgencies)
               /\ \A i \in Known : urgency'[i] = urgency[i]
<1>1. us \in Seq(Urgencies) /\ late \in Seq(Urgencies) /\ us \o late \in Seq(Urgencies)
  BY FeedsAreSequences
<1>2. Len(us \o late) = Len(us) + Len(late) /\ Len(us) \in Nat /\ Len(late) \in Nat
  BY <1>1
<1>3. /\ urgency' \in Seq(Urgencies) /\ Known \subseteq Known'
      /\ New \subseteq Known' /\ New \cap Known = {}
      /\ Len(urgency') = Len(urgency) + Len(us \o late)
      /\ \A i \in Known : urgency'[i] = urgency[i]
  BY <1>1, FedExtends DEF ImpulsesInv
<1>4. Len(urgency) \in Nat
  BY DEF ImpulsesInv, ImpulsesPlaced
<1> QED BY <1>2, <1>3, <1>4 DEF New

LEMMA KnownFinite ==
    ASSUME urgency' \in Seq(Urgencies), NEW S, S \subseteq Known'
    PROVE  IsFiniteSet(S)
<1>1. Len(urgency') \in Int /\ 1 \in Int
  OBVIOUS
<1>2. IsFiniteSet(Known')
  BY <1>1, FS_Interval DEF Known
<1> QED BY <1>2, FS_Subset

\* An impulse disappears by one of the named ways only: stronger ones fill the
\* buffer (_push), its turn or session ends before it is shown.
THEOREM ImpulsesRarelyVanish == ImpulsesSpec => OnlyTheWeakVanish
<1> DEFINE Kept(i) ==
         \/ i \in Pending' \cup told'
         \/ i \in buffer \cup New /\ Outranked(i)
         \/ i \in carried["luna"] /\ VoiceFails
         \/ i \in Strongest(urgency, buffer, 1) /\ WatchStopped
         \/ i \in carried["user"] \cup carried["luna"] \cup queued /\ Detach
         \/ i \in carried["user"] \cup carried["luna"] /\ Quit
         \/ Restart
<1>1. ImpulsesInv /\ [ImpulsesNext]_impulseVars => [\A i \in Pending \cup New : Kept(i)]_impulseVars
  <2> SUFFICES ASSUME ImpulsesInv, ImpulsesNext, NEW i \in Pending \cup New PROVE Kept(i)
    BY DEF impulseVars
  <2>0. /\ carried \in [Origins -> SUBSET Known] /\ urgency \in Seq(Urgencies)
        /\ buffer \subseteq Known
    BY DEF ImpulsesInv, ImpulsesPlaced
  <2>n. ASSUME urgency' = urgency PROVE i \in Pending
    BY <2>0, <2>n DEF New
  <2>1. CASE LoopTick
    <3> PICK us \in Feeds : Fed(us)
      BY <2>1 DEF LoopTick
    <3> DEFINE fed == Push(urgency', buffer, New)
               got == IF attached THEN {} ELSE Collect(urgency', fed, since)
    <3>1. buffer' = fed \ got /\ told' = told \cup got /\ UNCHANGED <<carried, queued>>
      BY <2>1 DEF LoopTick
    <3>2. /\ urgency' \in Seq(Urgencies) /\ New \cup buffer \subseteq Known'
      BY <2>0, FedExtends, FeedsAreSequences DEF ImpulsesInv
    <3>3. i \in buffer \cup New /\ i \notin fed => Outranked(i)
      BY <3>2, KnownFinite, DroppedAreOutranked DEF Outranked
    <3> HIDE DEF fed, got
    <3> QED BY <3>1, <3>3 DEF Pending
  <2>2. CASE IdleThought \/ DreamInsight
    <3> PICK us \in Seq(Urgencies) : Fed(us)
      BY <2>2, FeedsAreSequences DEF IdleThought, DreamInsight
    <3>1. buffer' = Push(urgency', buffer, New) /\ UNCHANGED <<carried, queued, told>>
      BY <2>2 DEF IdleThought, DreamInsight
    <3>2. /\ urgency' \in Seq(Urgencies) /\ New \cup buffer \subseteq Known'
      BY <2>0, FedExtends DEF ImpulsesInv
    <3>3. i \in buffer \cup New /\ i \notin buffer' => Outranked(i)
      BY <3>1, <3>2, KnownFinite, DroppedAreOutranked DEF Outranked
    <3> QED BY <3>1, <3>3 DEF Pending
  <2>3. CASE HeartBeat \/ Attach \/ \E o \in Origins : Think(o)
    BY <2>n, <2>3 DEF HeartBeat, Attach, Think, Pending
  <2>4. CASE Ask \/ Command
    BY <2>n, <2>4 DEF Ask, Command, Prompted, Pending
  <2>5. CASE Watch
    <3> DEFINE got == Collect(urgency, buffer, since)
    <3>1. /\ buffer' = buffer \ got /\ UNCHANGED <<urgency, queued, told>>
          /\ carried' = [carried EXCEPT !["luna"] = got]
      BY <2>5 DEF Watch
    <3>2. carried["luna"] = {}
      BY <2>5 DEF Watch, ImpulsesInv, IdleCarriesNothing, Origins
    <3>3. carried'["user"] = carried["user"] /\ carried'["luna"] = got
      BY <2>0, <3>1 DEF Origins
    <3>4. i \in Pending
      BY <2>n, <3>1
    <3> HIDE DEF got
    <3> QED BY <3>1, <3>2, <3>3, <3>4 DEF Pending
  <2>6. CASE WatchStopped
    <3> DEFINE got == Collect(urgency, buffer, since)
    <3>1. buffer' = buffer \ got /\ UNCHANGED <<urgency, carried, queued, told>>
      BY <2>6 DEF WatchStopped
    <3>2. got \subseteq Strongest(urgency, buffer, 1)
      BY DEF Collect
    <3>4. i \in Pending
      BY <2>n, <3>1
    <3> HIDE DEF got
    <3> QED BY <2>6, <3>1, <3>2, <3>4 DEF Pending
  <2>7. CASE \E o \in Origins : Answer(o)
    <3> PICK o \in Origins : Answer(o)
      BY <2>7
    <3> PICK us \in Feeds, late \in Feeds :
          /\ Fed(us \o late)
          /\ LET last == Len(urgency) + Len(us)
                 fed  == Push(urgency', buffer, Len(urgency) + 1 .. last)
                 got  == IF o = "user" THEN Collect(urgency', fed, since + 1) ELSE {}
             IN  /\ buffer' = Push(urgency', fed \ got, last + 1 .. Len(urgency'))
                 /\ carried' = [carried EXCEPT ![o] = @ \cup got]
      BY DEF Answer
    <3> DEFINE first == Len(urgency) + 1 .. Len(urgency) + Len(us)
               second == Len(urgency) + Len(us) + 1 .. Len(urgency')
               fed == Push(urgency', buffer, first)
               got == IF o = "user" THEN Collect(urgency', fed, since + 1) ELSE {}
    <3>1. /\ buffer' = Push(urgency', fed \ got, second)
          /\ carried' = [carried EXCEPT ![o] = carried[o] \cup got]
          /\ UNCHANGED <<queued, told>>
      BY DEF Answer
    <3>2. /\ first \cup second = New
          /\ New \cup buffer \subseteq Known'
          /\ urgency' \in Seq(Urgencies)
      BY <2>0, AnswerFeeds
    <3>3. fed \subseteq buffer \cup first
      <4>1. \A S, T : Push(urgency', S, T) \subseteq S \cup T
        BY StrongestAreAmong
      <4> QED BY <4>1
    <3> HIDE DEF first, second, got
    <3>4. ASSUME NEW S, NEW T, S \cup T \subseteq buffer \cup New, i \in S \cup T,
                 i \notin Push(urgency', S, T)
          PROVE  i \in buffer \cup New /\ Outranked(i)
      <4> DEFINE A == {j \in S \cup T : Before(urgency', j, i)}
                 B == {j \in buffer \cup New : Before(urgency', j, i)}
      <4>1. IsFiniteSet(buffer \cup New)
        BY <3>2, KnownFinite
      <4>2. IsFiniteSet(S \cup T) /\ IsFiniteSet(B)
        BY <3>4, <4>1, FS_Subset
      <4>3. A \in SUBSET B
        BY <3>4
      <4>4. Cardinality(A) >= MaxBuffer
        BY <3>4, <4>2, DroppedAreOutranked
      <4>5. Cardinality(A) \in Nat /\ Cardinality(B) \in Nat /\ Cardinality(A) <= Cardinality(B)
        BY <4>2, <4>3, FS_Subset, FS_CardinalityType
      <4>6. Cardinality(B) >= MaxBuffer
        BY <4>4, <4>5, ImpulseAssumption
      <4> QED BY <3>4, <4>6 DEF Outranked
    <3>5. i \in buffer \cup first /\ i \notin fed => Kept(i)
      BY <3>2, <3>4
    <3> HIDE DEF fed
    <3>6. i \in (fed \ got) \cup second /\ i \notin buffer' => Kept(i)
      BY <3>1, <3>2, <3>3, <3>4
    <3>7. /\ got \subseteq carried'["user"] \cup carried'["luna"]
          /\ carried["user"] \subseteq carried'["user"] /\ carried["luna"] \subseteq carried'["luna"]
      BY <2>0, <3>1 DEF Origins
    <3>8. i \in got => Kept(i)
      BY <3>7 DEF Pending
    <3>9. i \in buffer' \cup carried["user"] \cup carried["luna"] \cup queued => Kept(i)
      BY <3>1, <3>7 DEF Pending
    <3> QED BY <3>2, <3>5, <3>6, <3>8, <3>9 DEF Pending
  <2>8. CASE UserReturns \/ VoiceReturns
    <3>1. UNCHANGED <<urgency, buffer>>
      BY <2>8 DEF UserReturns, VoiceReturns
    <3> QED BY <2>0, <2>n, <2>8, <3>1 DEF UserReturns, VoiceReturns, Pending, Origins
  <2>9. CASE VoiceFails
    <3>1. UNCHANGED <<urgency, buffer, queued, told>> /\ carried'["user"] = carried["user"]
      BY <2>0, <2>9 DEF VoiceFails, Origins
    <3> QED BY <2>n, <2>9, <3>1 DEF Pending
  <2>10. CASE Detach
    <3>1. UNCHANGED <<urgency, buffer>>
      BY <2>10 DEF Detach, SessionEnds
    <3> QED BY <2>n, <2>10, <3>1 DEF Pending
  <2>11. CASE Quit
    <3>1. UNCHANGED <<urgency, buffer>> /\ told' = told \cup queued
      BY <2>11 DEF Quit, SessionEnds
    <3> QED BY <2>n, <2>11, <3>1 DEF Pending
  <2> QED
    BY <2>1, <2>2, <2>3, <2>4, <2>5, <2>6, <2>7, <2>8, <2>9, <2>10, <2>11 DEF ImpulsesNext
<1> QED BY <1>1, ImpulsesAlways, PTL DEF ImpulsesSpec, OnlyTheWeakVanish

\* Whoever collects takes the strongest, and of equals the first: what it leaves
\* in the buffer comes after (EndogenousSource.collect).
THEOREM ImpulsesStrongestFirst == ImpulsesSpec => StrongestFirst
<1> DEFINE Goal(i, j) == i \in Pending' \cup told' /\ i \notin buffer' /\ j \in buffer'
                            => Before(urgency, i, j)
<1>1. ImpulsesInv /\ [ImpulsesNext]_impulseVars => [\A i, j \in buffer : Goal(i, j)]_impulseVars
  <2> SUFFICES ASSUME ImpulsesInv, ImpulsesNext, NEW i \in buffer, NEW j \in buffer,
                      i \in Pending' \cup told', i \notin buffer', j \in buffer'
               PROVE  Before(urgency, i, j)
    BY DEF impulseVars
  <2>0. /\ carried \in [Origins -> SUBSET Known] /\ urgency \in Seq(Urgencies)
        /\ buffer \subseteq Known /\ i \in Known /\ j \in Known /\ i # j
        /\ i \notin told /\ i \notin queued /\ i \notin carried["user"] /\ i \notin carried["luna"]
    BY DEF ImpulsesInv, ImpulsesPlaced, ToldOnce, Pending
  <2>g. ASSUME NEW S, S \subseteq Known', NEW n, i \in Collect(urgency', S, n), j \in S,
               urgency' \in Seq(Urgencies), \A k \in Known : urgency'[k] = urgency[k]
        PROVE  Before(urgency, i, j)
    <3>1. Before(urgency', i, j)
      BY <2>0, <2>g, CollectedIsFirst DEF Known
    <3> QED BY <2>0, <2>g, <3>1 DEF Before
  <2>1. CASE LoopTick
    <3> PICK us \in Feeds : Fed(us)
      BY <2>1 DEF LoopTick
    <3> DEFINE fed == Push(urgency', buffer, New)
               got == IF attached THEN {} ELSE Collect(urgency', fed, since)
    <3>1. buffer' = fed \ got /\ told' = told \cup got /\ UNCHANGED <<carried, queued>>
      BY <2>1 DEF LoopTick
    <3>2. /\ urgency' \in Seq(Urgencies) /\ New \cup buffer \subseteq Known'
          /\ \A k \in Known : urgency'[k] = urgency[k]
      BY <2>0, FedExtends, FeedsAreSequences DEF ImpulsesInv
    <3>3. fed \subseteq Known'
      BY <3>2, StrongestAreAmong
    <3>4. i \in got /\ j \in fed
      BY <2>0, <3>1 DEF Pending
    <3> HIDE DEF fed
    <3>5. i \in Collect(urgency', fed, since)
      BY <3>4
    <3> QED BY <2>g, <3>2, <3>3, <3>4, <3>5
  <2>2. CASE \E o \in Origins : Answer(o)
    <3> PICK o \in Origins : Answer(o)
      BY <2>2
    <3> PICK us \in Feeds, late \in Feeds :
          /\ Fed(us \o late)
          /\ LET last == Len(urgency) + Len(us)
                 fed  == Push(urgency', buffer, Len(urgency) + 1 .. last)
                 got  == IF o = "user" THEN Collect(urgency', fed, since + 1) ELSE {}
             IN  /\ buffer' = Push(urgency', fed \ got, last + 1 .. Len(urgency'))
                 /\ carried' = [carried EXCEPT ![o] = @ \cup got]
      BY DEF Answer
    <3> DEFINE first == Len(urgency) + 1 .. Len(urgency) + Len(us)
               second == Len(urgency) + Len(us) + 1 .. Len(urgency')
               fed == Push(urgency', buffer, first)
               got == IF o = "user" THEN Collect(urgency', fed, since + 1) ELSE {}
    <3>1. /\ buffer' = Push(urgency', fed \ got, second)
          /\ carried' = [carried EXCEPT ![o] = carried[o] \cup got]
          /\ UNCHANGED <<queued, told>>
      BY DEF Answer
    <3>2. /\ first \cup second = New /\ New \cap Known = {}
          /\ New \cup buffer \subseteq Known'
          /\ urgency' \in Seq(Urgencies)
          /\ \A k \in Known : urgency'[k] = urgency[k]
      BY <2>0, AnswerFeeds
    <3>3. \A S, T : Push(urgency', S, T) \subseteq S \cup T
      BY StrongestAreAmong
    <3>4. fed \subseteq buffer \cup first
      BY <3>3
    <3> HIDE DEF first, second, got, fed
    <3>5. i \in got
      BY <2>0, <3>1 DEF Pending, Origins
    <3>6. j \in fed
      BY <2>0, <3>1, <3>2, <3>3
    <3>7. fed \subseteq Known'
      BY <3>2, <3>4
    <3>8. i \in Collect(urgency', fed, since + 1)
      BY <3>5 DEF got
    <3> QED BY <2>g, <3>2, <3>6, <3>7, <3>8
  <2>3. CASE Watch \/ WatchStopped
    <3> DEFINE got == Collect(urgency, buffer, since)
    <3>1. /\ buffer' = buffer \ got /\ urgency' = urgency
      BY <2>3 DEF Watch, WatchStopped
    <3>2. i \in Collect(urgency', buffer, since)
      BY <3>1
    <3>3. buffer \subseteq Known'
      BY <2>0, <3>1 DEF Known
    <3> QED BY <2>0, <2>g, <3>1, <3>2, <3>3
  <2>4. CASE IdleThought \/ DreamInsight \/ HeartBeat \/ Attach \/ \E o \in Origins : Think(o)
    BY <2>0, <2>4 DEF IdleThought, DreamInsight, HeartBeat, Attach, Think, Pending
  <2>5. CASE buffer' = buffer \/ Restart
    BY <2>5 DEF Restart
  <2> QED
    BY <2>1, <2>2, <2>3, <2>4, <2>5
    DEF ImpulsesNext, Ask, Command, Prompted, UserReturns, VoiceReturns, VoiceFails, Detach, Quit, SessionEnds
<1> QED BY <1>1, ImpulsesAlways, PTL DEF ImpulsesSpec, StrongestFirst

-----------------------------------------------------------------------------
(* CycleStore.  A record whose write returned stays a whole line of a      *)
(* file, and what names it in an index names that line, unless a cut       *)
(* append came right before it.                                            *)

LineOf(d, r) == \E k \in DOMAIN file[d] : file[d][k].rec = r /\ file[d][k].kind = "line"

WholeOf(d, r) ==
    \E k \in DOMAIN file[d] : file[d][k].rec = r /\ file[d][k].kind \in {"line", "bare"}

PointsAt(ix) == \A r \in DOMAIN ix : WholeOf(ix[r], r)

Glued(r) == \E d \in 1..Days : GluedTo(d, r)

CoversAcked(ix) == \A r \in acked : r \in DOMAIN ix \/ Glued(r)

LinesNumbered ==
    \A d \in 1..Days : \A k \in DOMAIN file[d] :
        /\ file[d][k].rec <= written
        /\ file[d][k].rec \in acked => file[d][k].kind = "line"

CyclesInv ==
    /\ CyclesTypeOK
    /\ LinesNumbered
    /\ \A r \in acked : \E d \in 1..Days : LineOf(d, r)
    /\ PointsAt(index) /\ PointsAt(indexFile)
    /\ store = "open" => CoversAcked(index)
    /\ indexState = "saved" => CoversAcked(indexFile)
    /\ indexState = "missing" => acked = {}

LEMMA IndexFields ==
    /\ \A ix \in Indexes : DOMAIN ix \subseteq Records /\ \A r \in DOMAIN ix : ix[r] \in 1..Days
    /\ \A R \in SUBSET Records : \A ix \in [R -> 1..Days] : ix \in Indexes
    /\ <<>> \in Indexes /\ DOMAIN <<>> = {}
<1>1. DOMAIN <<>> = {}
  OBVIOUS
<1>2. <<>> \in [{} -> 1..Days]
  OBVIOUS
<1> QED BY <1>1, <1>2 DEF Indexes

LEMMA CountsGrow ==
    ASSUME CyclesTypeOK
    PROVE  /\ NewRecord => /\ written' \in 0..MaxRecords /\ store = "open"
                           /\ acked \cup {written'} \subseteq 1..written'
           /\ Fault => faults' \in 0..MaxFaults
<1>1. MaxRecords \in Nat /\ MaxFaults \in Nat
  BY CycleAssumption
<1>2. written \in 0..MaxRecords /\ acked \subseteq 1..written /\ faults \in 0..MaxFaults
  BY DEF CyclesTypeOK
<1>3. ASSUME NewRecord
      PROVE  written' \in 0..MaxRecords /\ store = "open" /\ acked \cup {written'} \subseteq 1..written'
  BY <1>1, <1>2, <1>3 DEF NewRecord
<1>4. ASSUME Fault PROVE faults' \in 0..MaxFaults
  BY <1>1, <1>2, <1>4 DEF Fault
<1> QED BY <1>3, <1>4

\* An append keeps what a file held and adds one entry.
LEMMA FilesGrow ==
    ASSUME CyclesTypeOK, NewRecord, NEW kind \in {"line", "bare", "cut", "split"}, Appended(kind)
    PROVE  /\ written' \in Records /\ written' = written + 1
           /\ file' \in [1..Days -> Seq(Entries)]
           /\ \A d \in 1..Days : \A k \in DOMAIN file[d] :
                 k \in DOMAIN file'[d] /\ file'[d][k] = file[d][k]
           /\ \A d \in 1..Days : \A k \in DOMAIN file'[d] :
                 k \in DOMAIN file[d] \/ file'[d][k] = [rec |-> written', kind |-> kind]
           /\ \E k \in DOMAIN file'[today] : file'[today][k] = [rec |-> written', kind |-> kind]
<1> DEFINE e == [rec |-> written', kind |-> kind]
<1>1. written' \in Records /\ written' = written + 1
  BY CycleAssumption DEF NewRecord, CyclesTypeOK, Records
<1>2. e \in Entries
  BY <1>1 DEF Entries
<1>3. /\ today \in 1..Days /\ file \in [1..Days -> Seq(Entries)]
      /\ file' = [file EXCEPT ![today] = Append(file[today], e)]
  BY DEF CyclesTypeOK, Appended
<1> HIDE DEF e
<1>4. /\ file'[today] = Append(file[today], e) /\ file[today] \in Seq(Entries)
      /\ \A d \in 1..Days : d # today => file'[d] = file[d]
  BY <1>3
<1>5. /\ Append(file[today], e) \in Seq(Entries)
      /\ DOMAIN Append(file[today], e) = 1..Len(file[today]) + 1
      /\ DOMAIN file[today] = 1..Len(file[today])
      /\ Append(file[today], e)[Len(file[today]) + 1] = e
      /\ \A k \in DOMAIN file[today] : Append(file[today], e)[k] = file[today][k]
      /\ Len(file[today]) \in Nat
  BY <1>2, <1>4
<1>6. file' \in [1..Days -> Seq(Entries)]
  BY <1>3, <1>5
<1>7. \A d \in 1..Days : \A k \in DOMAIN file[d] :
         k \in DOMAIN file'[d] /\ file'[d][k] = file[d][k]
  BY <1>4, <1>5
<1>8. \A d \in 1..Days : \A k \in DOMAIN file'[d] : k \in DOMAIN file[d] \/ file'[d][k] = e
  BY <1>4, <1>5
<1>9. \E k \in DOMAIN file'[today] : file'[today][k] = e
  BY <1>4, <1>5
<1> QED BY <1>1, <1>6, <1>7, <1>8, <1>9 DEF e

\* What lines, glue and indexes say of a file outlives what is appended.
LEMMA GrowthKeeps ==
    ASSUME CyclesTypeOK,
           \A d \in 1..Days : \A k \in DOMAIN file[d] :
              k \in DOMAIN file'[d] /\ file'[d][k] = file[d][k]
    PROVE  /\ \A d \in 1..Days : \A r : LineOf(d, r) => LineOf(d, r)'
           /\ \A d \in 1..Days : \A r : WholeOf(d, r) => WholeOf(d, r)'
           /\ \A r : Glued(r) => Glued(r)'
<1>1. \A d \in 1..Days : \A r : LineOf(d, r) => LineOf(d, r)'
  BY DEF LineOf
<1>2. \A d \in 1..Days : \A r : WholeOf(d, r) => WholeOf(d, r)'
  BY DEF WholeOf
<1>3. ASSUME NEW d \in 1..Days, NEW r, GluedTo(d, r) PROVE GluedTo(d, r)'
  <2>1. PICK k \in DOMAIN file[d] : k > 1 /\ file[d][k].rec = r /\ file[d][k - 1].kind # "line"
    BY <1>3 DEF GluedTo
  <2>2. k - 1 \in DOMAIN file[d]
    BY <2>1 DEF CyclesTypeOK
  <2> QED BY <2>1, <2>2 DEF GluedTo
<1> QED BY <1>1, <1>2, <1>3 DEF Glued

LEMMA CyclesInitInv == CyclesInit => CyclesInv
<1> SUFFICES ASSUME CyclesInit PROVE CyclesInv
  OBVIOUS
<1>1. \A d \in 1..Days : file[d] = <<>> /\ DOMAIN file[d] = {}
  BY DEF CyclesInit
<1>2. CyclesTypeOK
  <2>1. file \in [1..Days -> Seq(Entries)]
    BY DEF CyclesInit
  <2> QED BY <2>1, IndexFields, CycleAssumption DEF CyclesInit, CyclesTypeOK
<1>3. LinesNumbered
  BY <1>1 DEF LinesNumbered
<1>4. PointsAt(index) /\ PointsAt(indexFile)
  BY IndexFields DEF CyclesInit, PointsAt
<1> QED BY <1>2, <1>3, <1>4 DEF CyclesInit, CyclesInv

\* The record just appended joins an index.
LEMMA ExtendedPoints ==
    ASSUME CyclesInv, NewRecord, Appended("line")
    PROVE  /\ Extended \in Indexes
           /\ DOMAIN Extended = DOMAIN index \cup {written'}
           /\ \A r \in DOMAIN Extended : \E k \in DOMAIN file'[Extended[r]] :
                 /\ file'[Extended[r]][k].rec = r
                 /\ file'[Extended[r]][k].kind \in {"line", "bare"}
<1>1. /\ written' \in Records /\ today \in 1..Days
      /\ \A d \in 1..Days : \A k \in DOMAIN file[d] :
            k \in DOMAIN file'[d] /\ file'[d][k] = file[d][k]
      /\ \E k \in DOMAIN file'[today] : file'[today][k] = [rec |-> written', kind |-> "line"]
  BY FilesGrow DEF CyclesInv, CyclesTypeOK
<1>2. /\ DOMAIN index \subseteq Records
      /\ \A r \in DOMAIN index : index[r] \in 1..Days /\ WholeOf(index[r], r)
  BY IndexFields DEF CyclesInv, CyclesTypeOK, PointsAt
<1>3. /\ DOMAIN Extended = DOMAIN index \cup {written'}
      /\ Extended[written'] = today
      /\ \A r \in DOMAIN index : r # written' => Extended[r] = index[r]
  BY DEF Extended
<1>4. Extended \in [DOMAIN index \cup {written'} -> 1..Days]
  BY <1>1, <1>2 DEF Extended
<1>5. DOMAIN index \cup {written'} \in SUBSET Records
  BY <1>1, <1>2
<1>6. Extended \in Indexes
  BY <1>4, <1>5 DEF Indexes
<1>7. \E k \in DOMAIN file'[today] : file'[today][k].rec = written' /\ file'[today][k].kind = "line"
  BY <1>1
<1>8. \A d \in 1..Days : \A r : WholeOf(d, r) => \E k \in DOMAIN file'[d] :
            file'[d][k].rec = r /\ file'[d][k].kind \in {"line", "bare"}
  BY <1>1 DEF WholeOf
<1>9. ASSUME NEW r \in DOMAIN Extended
      PROVE  \E k \in DOMAIN file'[Extended[r]] :
                 /\ file'[Extended[r]][k].rec = r
                 /\ file'[Extended[r]][k].kind \in {"line", "bare"}
  <2>1. CASE r = written'
    BY <1>3, <1>7, <2>1
  <2>2. CASE r # written'
    BY <1>2, <1>3, <1>8, <2>2
  <2> QED BY <2>1, <2>2
<1> QED BY <1>3, <1>6, <1>9

LEMMA CyclesStepType == CyclesInv /\ [CyclesNext]_cycleVars => CyclesTypeOK'
<1> SUFFICES ASSUME CyclesInv, [CyclesNext]_cycleVars PROVE CyclesTypeOK'
  OBVIOUS
<1>0. CyclesTypeOK
  BY DEF CyclesInv
<1>1. CASE WriteCycle
  <2>1. NewRecord /\ Appended("line") /\ index' = Extended
    BY <1>1 DEF WriteCycle
  <2>2. index' \in Indexes
    BY <2>1, ExtendedPoints
  <2>3. file' \in [1..Days -> Seq(Entries)]
    BY <1>0, <2>1, FilesGrow
  <2>4. written' \in 0..MaxRecords /\ acked' \subseteq 1..written' /\ store' = "open"
    BY <1>0, <1>1, <2>1, CountsGrow DEF WriteCycle
  <2>5. indexFile' \in Indexes /\ indexState' = "saved"
    BY <1>1, <2>2 DEF WriteCycle, SaveIndex
  <2>6. today' = today /\ faults' = faults
    BY <1>1 DEF WriteCycle
  <2> QED BY <1>0, <2>2, <2>3, <2>4, <2>5, <2>6 DEF CyclesTypeOK
<1>2. CASE AppendFails
  <2>1. NewRecord /\ Fault /\ UNCHANGED <<store, today, index, indexFile, indexState, acked>>
    BY <1>2 DEF AppendFails
  <2>2. file' \in [1..Days -> Seq(Entries)]
    <3>1. CASE UNCHANGED file
      BY <1>0, <3>1 DEF CyclesTypeOK
    <3>2. CASE \E kind \in {"bare", "cut", "split"} : Appended(kind)
      BY <1>0, <2>1, <3>2, FilesGrow
    <3> QED BY <1>2, <3>1, <3>2 DEF AppendFails
  <2>3. written' \in 0..MaxRecords /\ acked \subseteq 1..written' /\ faults' \in 0..MaxFaults
    BY <1>0, <2>1, CountsGrow
  <2> QED BY <1>0, <2>1, <2>2, <2>3 DEF CyclesTypeOK
<1>3. CASE IndexSaveFails
  <2>1. /\ NewRecord /\ Fault /\ Appended("line") /\ index' = Extended
        /\ UNCHANGED <<store, today, indexFile, indexState, acked>>
    BY <1>3 DEF IndexSaveFails
  <2>2. index' \in Indexes
    BY <2>1, ExtendedPoints
  <2>3. file' \in [1..Days -> Seq(Entries)]
    BY <1>0, <2>1, FilesGrow
  <2>4. /\ written' \in 0..MaxRecords /\ acked \subseteq 1..written' /\ faults' \in 0..MaxFaults
        /\ store = "open"
    BY <1>0, <2>1, CountsGrow
  <2> QED BY <1>0, <2>1, <2>2, <2>3, <2>4 DEF CyclesTypeOK
<1>4. CASE KilledInWrite
  <2>1. PICK kind \in {"line", "bare", "cut", "split"} : NewRecord /\ Fault /\ Appended(kind)
    BY <1>4 DEF KilledInWrite
  <2>2. store' = "down" /\ index' = <<>> /\ UNCHANGED <<today, indexFile, indexState, acked>>
    BY <1>4 DEF KilledInWrite
  <2>3. file' \in [1..Days -> Seq(Entries)]
    BY <1>0, <2>1, FilesGrow
  <2>4. written' \in 0..MaxRecords /\ acked \subseteq 1..written' /\ faults' \in 0..MaxFaults
    BY <1>0, <2>1, CountsGrow
  <2> QED BY <1>0, <2>2, <2>3, <2>4, IndexFields DEF CyclesTypeOK
<1>5. CASE Ends
  BY <1>0, <1>5, IndexFields DEF Ends, CyclesTypeOK
<1>10. CASE Opens
  BY <1>0, <1>10 DEF Opens, CyclesTypeOK
<1>11. CASE NextDay
  BY <1>0, <1>11, CycleAssumption DEF NextDay, CyclesTypeOK
<1>8. CASE PowerCut
  <2>1. faults' \in 0..MaxFaults
    BY <1>0, <1>8, CountsGrow DEF PowerCut
  <2> QED BY <1>0, <1>8, <2>1, IndexFields DEF PowerCut, CyclesTypeOK
<1>9. CASE CannotOpen
  <2>1. faults' \in 0..MaxFaults
    BY <1>0, <1>9, CountsGrow DEF CannotOpen, CyclesTypeOK
  <2> QED BY <1>0, <1>9, <2>1 DEF CannotOpen, CyclesTypeOK
<1>6. CASE OpensAndRebuilds
  <2>1. ASSUME NEW r \in Stored PROVE r \in Records
    <3>1. PICK d \in 1..Days : r \in Readable(file[d])
      BY <2>1 DEF Stored
    <3>2. file[d] \in Seq(Entries)
      BY <1>0 DEF CyclesTypeOK
    <3>3. PICK k \in DOMAIN file[d] : r = file[d][k].rec
      BY <3>1 DEF Readable
    <3>4. file[d][k] \in Entries
      BY <3>2
    <3> QED BY <3>3, <3>4 DEF Entries
  <2>2. ASSUME NEW r \in Stored
        PROVE  (CHOOSE d \in 1..Days : r \in Readable(file[d])) \in 1..Days
    BY <2>2 DEF Stored
  <2>3. Rebuilt \in [Stored -> 1..Days]
    BY <2>2 DEF Rebuilt
  <2>4. Rebuilt \in Indexes
    BY <2>1, <2>3 DEF Indexes
  <2>5. /\ store' = "open" /\ index' = Rebuilt /\ indexFile' = Rebuilt /\ indexState' = "saved"
        /\ UNCHANGED <<today, file, written, acked, faults>>
    BY <1>6 DEF OpensAndRebuilds, SaveIndex
  <2> QED BY <1>0, <2>4, <2>5 DEF CyclesTypeOK
<1>7. CASE UNCHANGED cycleVars
  BY <1>0, <1>7 DEF cycleVars, CyclesTypeOK
<1> QED
  BY <1>1, <1>2, <1>3, <1>4, <1>5, <1>6, <1>7, <1>8, <1>9, <1>10, <1>11 DEF CyclesNext

\* A write, whole or not: what holds of the files and of the disk's index after it.
LEMMA WriteKeeps ==
    ASSUME CyclesInv, NewRecord, NEW kind \in {"line", "bare", "cut", "split"}, Appended(kind),
           acked' = acked \/ (acked' = acked \cup {written'} /\ kind = "line")
    PROVE  /\ LinesNumbered'
           /\ \A r \in acked' : \E d \in 1..Days : LineOf(d, r)'
           /\ \A ix : PointsAt(ix) /\ (\A r \in DOMAIN ix : ix[r] \in 1..Days)
                => \A r \in DOMAIN ix : WholeOf(ix[r], r)'
           /\ \A r \in acked : Glued(r) => Glued(r)'
<1>0. /\ CyclesTypeOK /\ LinesNumbered /\ today \in 1..Days /\ acked \subseteq 1..written
      /\ written \in Nat
      /\ \A r \in acked : \E d \in 1..Days : LineOf(d, r)
  BY DEF CyclesInv, CyclesTypeOK
<1>1. /\ written' = written + 1
      /\ \A d \in 1..Days : \A k \in DOMAIN file[d] :
            k \in DOMAIN file'[d] /\ file'[d][k] = file[d][k]
      /\ \A d \in 1..Days : \A k \in DOMAIN file'[d] :
            k \in DOMAIN file[d] \/ file'[d][k] = [rec |-> written', kind |-> kind]
      /\ \E k \in DOMAIN file'[today] : file'[today][k] = [rec |-> written', kind |-> kind]
  BY <1>0, FilesGrow
<1>2. LinesNumbered'
  <2> SUFFICES ASSUME NEW d \in 1..Days, NEW k \in DOMAIN file'[d]
               PROVE  /\ file'[d][k].rec <= written'
                      /\ file'[d][k].rec \in acked' => file'[d][k].kind = "line"
    BY DEF LinesNumbered
  <2>1. CASE k \in DOMAIN file[d]
    <3>1. file[d][k].rec <= written /\ (file[d][k].rec \in acked => file[d][k].kind = "line")
      BY <1>0, <2>1 DEF LinesNumbered
    <3>2. file'[d][k] = file[d][k]
      BY <1>1, <2>1
    <3>3. file[d][k].rec \in Nat
      <4>1. file[d] \in Seq(Entries)
        BY <1>0 DEF CyclesTypeOK
      <4>2. file[d][k] \in Entries
        BY <2>1, <4>1
      <4> QED BY <4>2 DEF Entries, Records
    <3> QED BY <1>0, <1>1, <3>1, <3>2, <3>3
  <2>2. CASE file'[d][k] = [rec |-> written', kind |-> kind]
    <3>1. written' \notin acked
      BY <1>0, <1>1
    <3> QED BY <1>0, <1>1, <2>2, <3>1
  <2> QED BY <1>1, <2>1, <2>2
<1>3. \A r \in acked' : \E d \in 1..Days : LineOf(d, r)'
  <2>1. ASSUME NEW r \in acked PROVE \E d \in 1..Days : LineOf(d, r)'
    BY <1>0, <1>1, GrowthKeeps
  <2>2. ASSUME NEW r, r = written', kind = "line" PROVE \E d \in 1..Days : LineOf(d, r)'
    <3>1. \E k \in DOMAIN file'[today] : file'[today][k].rec = r /\ file'[today][k].kind = "line"
      BY <1>1, <2>2
    <3> QED BY <1>0, <3>1 DEF LineOf
  <2> QED BY <2>1, <2>2
<1>4. /\ \A d \in 1..Days : \A r : WholeOf(d, r) => WholeOf(d, r)'
      /\ \A r : Glued(r) => Glued(r)'
  BY <1>0, <1>1, GrowthKeeps
<1> QED BY <1>2, <1>3, <1>4 DEF PointsAt

\* An acknowledged line that does not parse
\* has a cut append right before it.
LEMMA UnparsedAreGlued ==
    ASSUME CyclesInv, NEW d \in 1..Days, NEW r \in acked, WholeOf(d, r), r \notin Readable(file[d])
    PROVE  GluedTo(d, r)
<1>1. PICK k \in DOMAIN file[d] : file[d][k].rec = r
  BY DEF WholeOf
<1>2. file[d][k].kind = "line"
  BY <1>1 DEF CyclesInv, LinesNumbered
<1>3. ~Parses(file[d], k)
  BY <1>1 DEF Readable
<1>4. k > 1 /\ file[d][k - 1].kind # "line"
  BY <1>2, <1>3 DEF Parses
<1> QED BY <1>1, <1>4 DEF GluedTo

\* What an index covers is found.
LEMMA CoveredAreFound == CyclesInv => AckedAreFound
<1> SUFFICES ASSUME CyclesInv, store = "open", NEW r \in acked, ~Glued(r),
                    \A d \in 1..Days : Decodable(file[d])
             PROVE  Found(r)
  BY DEF AckedAreFound, Glued
<1>1. r \in DOMAIN index
  BY DEF CyclesInv, CoversAcked
<1>2. index[r] \in 1..Days /\ WholeOf(index[r], r)
  BY <1>1, IndexFields DEF CyclesInv, CyclesTypeOK, PointsAt
<1>3. r \in Readable(file[index[r]])
  BY <1>2, UnparsedAreGlued DEF Glued
<1> QED BY <1>1, <1>2, <1>3 DEF Found

LEMMA CyclesStep == CyclesInv /\ [CyclesNext]_cycleVars => CyclesInv'
<1> SUFFICES ASSUME CyclesInv, [CyclesNext]_cycleVars PROVE CyclesInv'
  OBVIOUS
<1>0. CyclesTypeOK'
  BY CyclesStepType
<1>a. /\ CyclesTypeOK /\ LinesNumbered
      /\ \A r \in acked : \E d \in 1..Days : LineOf(d, r)
      /\ PointsAt(index) /\ PointsAt(indexFile)
      /\ store = "open" => CoversAcked(index)
      /\ indexState = "saved" => CoversAcked(indexFile)
      /\ indexState = "missing" => acked = {}
  BY DEF CyclesInv
<1>b. /\ \A r \in DOMAIN index : index[r] \in 1..Days
      /\ \A r \in DOMAIN indexFile : indexFile[r] \in 1..Days
  BY <1>a, IndexFields DEF CyclesTypeOK
<1>c. PointsAt(<<>>)
  BY IndexFields DEF PointsAt
<1>w. ASSUME NewRecord, NEW kind \in {"line", "bare", "cut", "split"}, Appended(kind),
             acked' = acked \/ (acked' = acked \cup {written'} /\ kind = "line")
      PROVE  /\ LinesNumbered'
             /\ \A r \in acked' : \E d \in 1..Days : LineOf(d, r)'
             /\ \A ix : PointsAt(ix) /\ (\A r \in DOMAIN ix : ix[r] \in 1..Days)
                  => \A r \in DOMAIN ix : WholeOf(ix[r], r)'
             /\ \A r \in acked : Glued(r) => Glued(r)'
  BY <1>w, WriteKeeps
<1>1. CASE WriteCycle
  <2>1. /\ NewRecord /\ Appended("line") /\ index' = Extended /\ acked' = acked \cup {written'}
        /\ indexFile' = index' /\ indexState' = "saved" /\ store = "open"
    BY <1>1 DEF WriteCycle, SaveIndex, NewRecord
  <2>2. LinesNumbered' /\ \A r \in acked' : \E d \in 1..Days : LineOf(d, r)'
    BY <2>1, <1>w
  <2>3. PointsAt(index)'
    BY <2>1, ExtendedPoints DEF PointsAt, WholeOf
  <2>4. CoversAcked(index)'
    <3>1. \A r \in acked : r \in DOMAIN index \/ Glued(r)
      BY <1>a, <2>1 DEF CoversAcked
    <3>2. DOMAIN index' = DOMAIN index \cup {written'}
      BY <2>1, ExtendedPoints
    <3>3. \A r \in acked : Glued(r) => Glued(r)'
      BY <2>1, <1>w
    <3> QED BY <2>1, <3>1, <3>2, <3>3 DEF CoversAcked
  <2>5. PointsAt(indexFile)' /\ CoversAcked(indexFile)'
    BY <2>1, <2>3, <2>4 DEF PointsAt, CoversAcked
  <2> QED BY <1>0, <2>1, <2>2, <2>3, <2>4, <2>5 DEF CyclesInv
<1>2. CASE AppendFails
  <2>1. NewRecord /\ UNCHANGED <<store, index, indexFile, indexState, acked>>
    BY <1>2 DEF AppendFails
  <2>2. CASE UNCHANGED file
    <3>1. written' = written + 1 /\ written \in Nat
      BY <1>a, <2>1 DEF NewRecord, CyclesTypeOK
    <3>2. ASSUME NEW d \in 1..Days, NEW k \in DOMAIN file[d] PROVE file[d][k].rec \in Nat
      <4>1. file[d] \in Seq(Entries)
        BY <1>a DEF CyclesTypeOK
      <4>2. file[d][k] \in Entries
        BY <4>1
      <4> QED BY <4>2 DEF Entries, Records
    <3>3. LinesNumbered'
      BY <1>a, <2>1, <2>2, <3>1, <3>2 DEF LinesNumbered
    <3>4. \A r \in acked' : \E d \in 1..Days : LineOf(d, r)'
      BY <1>a, <2>1, <2>2 DEF LineOf
    <3>5. PointsAt(index)' /\ PointsAt(indexFile)'
      BY <1>a, <2>1, <2>2 DEF PointsAt, WholeOf
    <3>6. /\ store' = "open" => CoversAcked(index)'
          /\ indexState' = "saved" => CoversAcked(indexFile)'
      BY <1>a, <2>1, <2>2 DEF CoversAcked, Glued, GluedTo
    <3> QED BY <1>0, <1>a, <2>1, <3>3, <3>4, <3>5, <3>6 DEF CyclesInv
  <2>3. CASE \E kind \in {"bare", "cut", "split"} : Appended(kind)
    <3>1. PICK kind \in {"line", "bare", "cut", "split"} : Appended(kind)
      BY <2>3
    <3>2. /\ LinesNumbered'
          /\ \A r \in acked' : \E d \in 1..Days : LineOf(d, r)'
          /\ \A ix : PointsAt(ix) /\ (\A r \in DOMAIN ix : ix[r] \in 1..Days)
               => \A r \in DOMAIN ix : WholeOf(ix[r], r)'
          /\ \A r \in acked : Glued(r) => Glued(r)'
      BY <2>1, <3>1, <1>w
    <3>3. PointsAt(index)' /\ PointsAt(indexFile)'
      BY <1>a, <1>b, <2>1, <3>2 DEF PointsAt
    <3>4. /\ store' = "open" => CoversAcked(index)'
          /\ indexState' = "saved" => CoversAcked(indexFile)'
      BY <1>a, <2>1, <3>2 DEF CoversAcked
    <3> QED BY <1>0, <1>a, <2>1, <3>2, <3>3, <3>4 DEF CyclesInv
  <2> QED BY <1>2, <2>2, <2>3 DEF AppendFails
<1>3. CASE IndexSaveFails
  <2>1. /\ NewRecord /\ Appended("line") /\ index' = Extended /\ store = "open"
        /\ UNCHANGED <<store, indexFile, indexState, acked>>
    BY <1>3 DEF IndexSaveFails, NewRecord
  <2>2. /\ LinesNumbered'
        /\ \A r \in acked' : \E d \in 1..Days : LineOf(d, r)'
        /\ \A ix : PointsAt(ix) /\ (\A r \in DOMAIN ix : ix[r] \in 1..Days)
             => \A r \in DOMAIN ix : WholeOf(ix[r], r)'
        /\ \A r \in acked : Glued(r) => Glued(r)'
    BY <2>1, <1>w
  <2>3. PointsAt(index)'
    BY <2>1, ExtendedPoints DEF PointsAt, WholeOf
  <2>4. PointsAt(indexFile)'
    BY <1>a, <1>b, <2>1, <2>2 DEF PointsAt
  <2>5. DOMAIN index' = DOMAIN index \cup {written'}
    BY <2>1, ExtendedPoints
  <2>6. CoversAcked(index)' /\ (indexState' = "saved" => CoversAcked(indexFile)')
    BY <1>a, <2>1, <2>2, <2>5 DEF CoversAcked
  <2> QED BY <1>0, <1>a, <2>1, <2>2, <2>3, <2>4, <2>6 DEF CyclesInv
<1>4. CASE KilledInWrite
  <2>1. PICK kind \in {"line", "bare", "cut", "split"} : NewRecord /\ Appended(kind)
    BY <1>4 DEF KilledInWrite
  <2>2. store' = "down" /\ index' = <<>> /\ UNCHANGED <<indexFile, indexState, acked>>
    BY <1>4 DEF KilledInWrite
  <2>3. /\ LinesNumbered'
        /\ \A r \in acked' : \E d \in 1..Days : LineOf(d, r)'
        /\ \A ix : PointsAt(ix) /\ (\A r \in DOMAIN ix : ix[r] \in 1..Days)
             => \A r \in DOMAIN ix : WholeOf(ix[r], r)'
        /\ \A r \in acked : Glued(r) => Glued(r)'
    BY <2>1, <2>2, <1>w
  <2>4. PointsAt(index)'
    BY <2>2, IndexFields DEF PointsAt
  <2>5. PointsAt(indexFile)'
    BY <1>a, <1>b, <2>2, <2>3 DEF PointsAt
  <2>6. indexState' = "saved" => CoversAcked(indexFile)'
    BY <1>a, <2>2, <2>3 DEF CoversAcked
  <2> QED BY <1>0, <1>a, <2>2, <2>3, <2>4, <2>5, <2>6 DEF CyclesInv
<1>5. CASE OpensAndRebuilds
  <2>1. /\ store' = "open" /\ index' = Rebuilt /\ indexFile' = Rebuilt /\ indexState' = "saved"
        /\ UNCHANGED <<file, written, acked>>
    BY <1>5 DEF OpensAndRebuilds, SaveIndex
  <2>2. \A d \in 1..Days : Decodable(file[d])
    BY <1>5 DEF OpensAndRebuilds
  <2>3. ASSUME NEW r \in Stored
        PROVE  \E k \in DOMAIN file[Rebuilt[r]] :
                  file[Rebuilt[r]][k].rec = r /\ file[Rebuilt[r]][k].kind \in {"line", "bare"}
    <3>1. \E d \in 1..Days : r \in Readable(file[d])
      BY <2>3 DEF Stored
    <3>2. r \in Readable(file[Rebuilt[r]])
      BY <2>3, <3>1 DEF Rebuilt
    <3> QED BY <3>2 DEF Readable, Parses
  <2>4. DOMAIN Rebuilt = Stored
    BY DEF Rebuilt
  <2>5. PointsAt(index)' /\ PointsAt(indexFile)'
    BY <2>1, <2>3, <2>4 DEF PointsAt, WholeOf
  <2>6. ASSUME NEW r \in acked PROVE r \in Stored \/ Glued(r)
    <3>1. PICK d \in 1..Days : LineOf(d, r)
      BY <1>a
    <3>2. CASE r \in Readable(file[d])
      BY <2>2, <3>2 DEF Stored
    <3>3. CASE r \notin Readable(file[d])
      <4>1. WholeOf(d, r)
        BY <3>1 DEF LineOf, WholeOf
      <4> QED BY <3>3, <4>1, UnparsedAreGlued DEF Glued
    <3> QED BY <3>2, <3>3
  <2>7. CoversAcked(index)' /\ CoversAcked(indexFile)'
    BY <2>1, <2>4, <2>6 DEF CoversAcked, Glued, GluedTo
  <2>8. LinesNumbered' /\ \A r \in acked' : \E d \in 1..Days : LineOf(d, r)'
    BY <1>a, <2>1 DEF LinesNumbered, LineOf
  <2> QED BY <1>0, <2>1, <2>5, <2>7, <2>8 DEF CyclesInv
<1>6. CASE /\ UNCHANGED <<file, written, acked>>
           /\ index' \in {index, <<>>, indexFile} /\ indexFile' \in {indexFile, <<>>}
           /\ store' = "open" => CoversAcked(index')
           /\ indexState' = "saved" => CoversAcked(indexFile')
           /\ indexState' = "missing" => indexState = "missing"
  <2>1. LinesNumbered' /\ \A r \in acked' : \E d \in 1..Days : LineOf(d, r)'
    BY <1>a, <1>6 DEF LinesNumbered, LineOf
  <2>2. PointsAt(index)' /\ PointsAt(indexFile)'
    BY <1>a, <1>c, <1>6 DEF PointsAt, WholeOf
  <2>3. /\ store' = "open" => CoversAcked(index)'
        /\ indexState' = "saved" => CoversAcked(indexFile)'
    BY <1>6 DEF CoversAcked, Glued, GluedTo
  <2> QED BY <1>0, <1>a, <1>6, <2>1, <2>2, <2>3 DEF CyclesInv
<1>7. CASE Opens
  <2>1. indexState = "missing" \/ indexState = "saved"
    BY <1>a, <1>7 DEF Opens, CyclesTypeOK
  <2>2. CoversAcked(indexFile)
    BY <1>a, <2>1 DEF CoversAcked
  <2> QED BY <1>a, <1>6, <1>7, <2>2 DEF Opens
<1>8. CASE NextDay \/ Ends \/ PowerCut \/ CannotOpen \/ UNCHANGED cycleVars
  BY <1>a, <1>6, <1>8 DEF NextDay, Ends, PowerCut, CannotOpen, cycleVars
<1> QED
  BY <1>1, <1>2, <1>3, <1>4, <1>5, <1>7, <1>8 DEF CyclesNext

LEMMA CyclesAlways == CyclesSpec => []CyclesInv
  BY CyclesInitInv, CyclesStep, PTL DEF CyclesSpec

\* The store, its files and both indexes keep their types (CycleStore).
THEOREM CyclesTypeCorrect == CyclesSpec => []CyclesTypeOK
<1>1. CyclesInv => CyclesTypeOK
  BY DEF CyclesInv
<1> QED BY <1>1, CyclesAlways, PTL

\* A record whose write returned is found while the store is open, whatever
\* failed since, unless the append right before it, or one inside a character,
\* was cut (CycleStore.write, read, _rebuild_index).
THEOREM AcknowledgedFound == CyclesSpec => []AckedAreFound
  BY CoveredAreFound, CyclesAlways, PTL

\* An index entry names a day whose file holds that record's line (write appends
\* before it indexes; _rebuild_index reads lines that parse).
THEOREM IndexPointsAtLines == CyclesSpec => []IndexedWereAppended
<1>1. CyclesInv => IndexedWereAppended
  BY DEF CyclesInv, PointsAt, WholeOf, IndexedWereAppended
<1> QED BY <1>1, CyclesAlways, PTL

-----------------------------------------------------------------------------
(* EmergencyStop.  A killed heart beats no more, and no stop it has read is  *)
(* forgotten, whatever stops are requested, in whatever order, by file or by  *)
(* the API, and whatever writes fail.                                      *)

(* While its process runs, a heartbeat's task is registered with the kill  *)
(* switch; the switch is thrown only when it is enabled; a heartbeat that  *)
(* is cancelled, or has detected a stop with the switch enabled, has had   *)
(* the switch thrown.                                                      *)
KnownToSwitch == heart # "off" => registered
SwitchAllowed == killed => enabled
CauseOfStop ==
    /\ heart = "cancelled" => killed
    /\ heart = "stopping" /\ enabled => killed

StopInv ==
    StopTypeOK /\ KilledHeartStops /\ NoSilentDeath /\ NoticedIsOnRecord
      /\ KnownToSwitch /\ SwitchAllowed /\ CauseOfStop

LEMMA StopInitially == StopInit => StopInv
<1> SUFFICES ASSUME StopInit PROVE StopInv
  OBVIOUS
<1>1. requests \in 0..MaxRequests
  BY StopAssumption DEF StopInit
<1>2. StopTypeOK
  BY <1>1, ZenonT(60) DEF StopInit, StopTypeOK
<1>3. KilledHeartStops /\ SwitchAllowed /\ CauseOfStop
  BY DEF StopInit, KilledHeartStops, SwitchAllowed, CauseOfStop
<1>4. NoSilentDeath /\ NoticedIsOnRecord /\ KnownToSwitch
  BY DEF StopInit, NoSilentDeath, NoticedIsOnRecord, KnownToSwitch
<1> QED
  BY <1>2, <1>3, <1>4 DEF StopInv

LEMMA StopStep == StopInv /\ [StopNext]_stopVars => StopInv'
<1> SUFFICES ASSUME StopInv, [StopNext]_stopVars PROVE StopInv'
  OBVIOUS
<1> USE StopAssumption
        DEF StopInv, StopTypeOK, KilledHeartStops, NoSilentDeath,
            NoticedIsOnRecord, KnownToSwitch, SwitchAllowed, CauseOfStop, Alive
<1>1. CASE Start
  BY <1>1 DEF Start, RegisterTask
<1>2. CASE Stop
  BY <1>2 DEF Stop
<1>3. CASE StopRequest
  BY <1>3 DEF StopRequest, process
<1>4. CASE KillRequest
  BY <1>4 DEF KillRequest, ThrowSwitch
<1>5. CASE Beat
  BY <1>5 DEF Beat, ThrowSwitch, ConsumeSentinel
<1>6. CASE DreamOver
  BY <1>6 DEF DreamOver
<1>7. CASE Audit
  BY <1>7 DEF Audit, AuditEnd
<1>8. CASE Cancelled
  BY <1>8 DEF Cancelled
<1>9. CASE Send
  BY <1>9 DEF Send, ConsumeSentinel
<1>10. CASE TurnOver
  BY <1>10 DEF TurnOver
<1>11. CASE HeartFails
  BY <1>11 DEF HeartFails
<1>12. CASE UNCHANGED stopVars
  BY <1>12 DEF stopVars, process
<1> QED
  BY <1>1, <1>2, <1>3, <1>4, <1>5, <1>6, <1>7, <1>8, <1>9, <1>10, <1>11, <1>12 DEF StopNext

(* The state keeps its types, however many stops are requested. *)
THEOREM StopTypeCorrect == StopSpec => []StopTypeOK
<1>1. StopInv => StopTypeOK
  BY DEF StopInv
<1> QED
  BY <1>1, StopInitially, StopStep, PTL DEF StopSpec

(* Once the switch is thrown no heartbeat sleeps towards another beat and  *)
(* none dreams.                                                            *)
THEOREM StopKillsHeart == StopSpec => []KilledHeartStops
<1>1. StopInv => KilledHeartStops
  BY DEF StopInv
<1> QED
  BY <1>1, StopInitially, StopStep, PTL DEF StopSpec

(* A heartbeat that ended without an error left its cause in the switch or *)
(* in the audit trail.                                                     *)
THEOREM StopLeavesCause == StopSpec => []NoSilentDeath
<1>1. StopInv => NoSilentDeath
  BY DEF StopInv
<1> QED
  BY <1>1, StopInitially, StopStep, PTL DEF StopSpec

(* A stop the heartbeat has read stands in the switch or in the trail, or  *)
(* is being recorded, or, with the switch disabled, was lost to the write  *)
(* that killed the heartbeat.                                              *)
THEOREM StopIsRecorded == StopSpec => []NoticedIsOnRecord
<1>1. StopInv => NoticedIsOnRecord
  BY DEF StopInv
<1> QED
  BY <1>1, StopInitially, StopStep, PTL DEF StopSpec

(* The three together, as the run checks them.                             *)
THEOREM StopStays == StopSpec => []StopHolds
<1>1. KilledHeartStops /\ NoSilentDeath /\ NoticedIsOnRecord => StopHolds
  BY DEF StopHolds
<1> QED
  BY <1>1, StopKillsHeart, StopLeavesCause, StopIsRecorded, PTL

-----------------------------------------------------------------------------
(* Requests.  An address' entry holds its latest times, and those granted  *)
(* that have not expired are its last ones; who was refused has a full     *)
(* entry whose oldest time expires before the answer said, or none.        *)

Times == 0..clock

InOrder(times) == \A i, j \in DOMAIN times : i < j => times[i] <= times[j]

EntryHolds(times) ==
    /\ times \in Seq(Times)
    /\ InOrder(times)
    /\ Len(times) <= Rpm

\* The granted times that have not expired are the last of the entry.
Covered(passed, times) ==
    \A j \in 0..(Len(passed) - 1) :
        ~Expired(passed[Len(passed) - j]) =>
            j < Len(times) /\ times[Len(times) - j] = passed[Len(passed) - j]

GrantedHolds(passed) ==
    /\ passed \in Seq(Times)
    /\ InOrder(passed)
    /\ Len(passed) <= Rpm + 1
    /\ Len(passed) = Rpm + 1 => passed[Rpm + 1] - passed[1] > Span

Promised(due, times) ==
    due # Never => Len(times) < Rpm \/ times[1] + Span < due

AddressHolds(times, passed, due) ==
    /\ EntryHolds(times)
    /\ GrantedHolds(passed)
    /\ Covered(passed, times)
    /\ due \in Int
    /\ Promised(due, times)

LimitInv ==
    /\ clock \in Nat
    /\ granted \in [Addresses -> Seq(Times)]
    /\ dueAt \in [Addresses -> Int]
    /\ \A a \in Addresses : AddressHolds(Entry(window, a), granted[a], dueAt[a])

LEMMA LimitConstants ==
    /\ Rpm \in Nat /\ Rpm >= 1 /\ Span \in Nat /\ SweepInterval \in Nat
    /\ TrustedProxies \subseteq Addresses
<1>1. Rpm \in Nat \ {0} /\ WindowSeconds \in Nat \ {0} /\ SweepInterval \in Nat \ {0}
  BY RequestsAssumption
<1> QED BY <1>1, RequestsAssumption DEF Span

LEMMA LeastOf ==
    ASSUME NEW T, T \subseteq Nat, T # {}
    PROVE  \E m \in T : \A n \in T : m <= n
<1>1. PICK m \in T : \A n \in T : <<n, m>> \notin OpToRel(<, Nat)
  BY WFMin, NatLessThanWellFounded, ZenonT(60)
<1>2. \A n \in T : ~(n < m)
  <2> SUFFICES ASSUME NEW n \in T PROVE ~(n < m)
    OBVIOUS
  <2>1. n \in Nat /\ m \in Nat
    OBVIOUS
  <2> QED BY <1>1, <2>1, ZenonT(60) DEF OpToRel
<1> QED BY <1>2

\* What is left of an entry when its expired times are gone.
LEMMA WhatIsLeft ==
    ASSUME clock \in Nat, NEW times \in Seq(Times), InOrder(times),
           NEW left, left = PurgeExpired(times)
    PROVE  \E gone \in 0..Len(times) :
             /\ left \in Seq(Times) /\ Len(left) = Len(times) - gone
             /\ \A i \in 1..Len(left) : left[i] = times[gone + i]
             /\ \A i \in 1..Len(left) : ~Expired(left[i])
             /\ \A i \in 1..gone : Expired(times[i])
<1> DEFINE live == {i \in DOMAIN times : ~Expired(times[i])}
<1>0. DOMAIN times = 1..Len(times) /\ Len(times) \in Nat /\ live \subseteq Nat /\ Span \in Nat
  BY LimitConstants
<1>1. CASE live = {}
  <2>1. left = <<>>
    BY <1>1 DEF PurgeExpired
  <2>2. \A i \in 1..Len(times) : Expired(times[i])
    BY <1>0, <1>1
  <2> WITNESS Len(times) \in 0..Len(times)
  <2> QED BY <1>0, <2>1, <2>2
<1>2. CASE live # {}
  <2>1. PICK m \in live : \A n \in live : m <= n
    BY <1>0, <1>2, LeastOf
  <2>2. Min(live) = m
    <3>1. \A k \in live : (\A n \in live : k <= n) => k = m
      BY <1>0, <2>1
    <3> QED BY <2>1, <3>1, ZenonT(60) DEF Min
  <2>3. left = SubSeq(times, m, Len(times))
    BY <1>2, <2>2 DEF PurgeExpired
  <2>4. m \in 1..Len(times) /\ ~Expired(times[m]) /\ \A i \in 1..(m - 1) : Expired(times[i])
    <3>1. m \in 1..Len(times) /\ ~Expired(times[m])
      BY <1>0, <2>1
    <3>2. ASSUME NEW i \in 1..(m - 1), ~Expired(times[i]) PROVE FALSE
      <4>1. i \in live /\ i < m
        BY <1>0, <3>1, <3>2
      <4> QED BY <1>0, <2>1, <4>1
    <3> QED BY <3>1, <3>2
  <2> HIDE DEF live
  <2>5. /\ left \in Seq(Times) /\ Len(left) = Len(times) - (m - 1)
        /\ \A i \in 1..Len(left) : left[i] = times[(m - 1) + i]
    BY <1>0, <2>3, <2>4
  <2>6. ASSUME NEW i \in 1..Len(left) PROVE ~Expired(left[i])
    <3>1. (m - 1) + i \in DOMAIN times /\ (m - 1) + i >= m
      BY <1>0, <2>4, <2>5
    <3>2. times[m] <= times[(m - 1) + i]
      <4>1. CASE i = 1
        BY <1>0, <2>4, <3>1, <4>1 DEF Times
      <4>2. CASE i # 1
        <5>1. m < (m - 1) + i
          BY <1>0, <2>4, <2>5, <4>2
        <5> QED BY <1>0, <2>4, <3>1, <5>1 DEF InOrder
      <4> QED BY <4>1, <4>2
    <3>3. times[m] \in Int /\ times[(m - 1) + i] \in Int
      BY <1>0, <2>4, <3>1 DEF Times
    <3> QED BY <1>0, <2>4, <2>5, <3>2, <3>3 DEF Expired
  <2>7. m - 1 \in 0..Len(times)
    BY <1>0, <2>4
  <2> WITNESS m - 1 \in 0..Len(times)
  <2> QED BY <2>4, <2>5, <2>6
<1> QED BY <1>1, <1>2

\* Purging keeps what is known of an address.
LEMMA PurgedHolds ==
    ASSUME clock \in Nat, NEW times, NEW passed, NEW due, AddressHolds(times, passed, due)
    PROVE  AddressHolds(PurgeExpired(times), passed, due)
<1> DEFINE left == PurgeExpired(times)
<1>0. /\ times \in Seq(Times) /\ InOrder(times) /\ Len(times) <= Rpm
      /\ passed \in Seq(Times) /\ due \in Int
      /\ Rpm \in Nat /\ Span \in Nat
  BY LimitConstants DEF AddressHolds, EntryHolds, GrantedHolds
<1>1. PICK gone \in 0..Len(times) :
             /\ left \in Seq(Times) /\ Len(left) = Len(times) - gone
             /\ \A i \in 1..Len(left) : left[i] = times[gone + i]
             /\ \A i \in 1..Len(left) : ~Expired(left[i])
             /\ \A i \in 1..gone : Expired(times[i])
  BY <1>0, WhatIsLeft, ZenonT(60)
<1> HIDE DEF left
<1>2. Len(times) \in Nat /\ gone \in Nat /\ Len(left) \in Nat
      /\ \A i \in 1..Len(times) : times[i] \in Int
  BY <1>0, <1>1 DEF Times
<1>3. EntryHolds(left)
  <2>0. Len(left) <= Rpm
    BY <1>0, <1>1, <1>2
  <2>1. ASSUME NEW i \in 1..Len(left), NEW j \in 1..Len(left), i < j PROVE left[i] <= left[j]
    <3>1. gone + i \in DOMAIN times /\ gone + j \in DOMAIN times /\ gone + i < gone + j
      BY <1>0, <1>1, <1>2, <2>1
    <3>2. times[gone + i] <= times[gone + j]
      BY <1>0, <3>1 DEF InOrder
    <3> QED BY <1>1, <3>2
  <2>2. InOrder(left)
    BY <1>1, <2>1 DEF InOrder
  <2> QED BY <1>1, <2>0, <2>2 DEF EntryHolds
<1>4. Covered(passed, left)
  <2> SUFFICES ASSUME NEW j \in 0..(Len(passed) - 1), ~Expired(passed[Len(passed) - j])
               PROVE  j < Len(left) /\ left[Len(left) - j] = passed[Len(passed) - j]
    BY DEF Covered
  <2>1. j < Len(times) /\ times[Len(times) - j] = passed[Len(passed) - j]
    BY DEF AddressHolds, Covered
  <2>2. Len(times) - j \notin 1..gone
    BY <1>1, <2>1
  <2>3. j < Len(left) /\ Len(left) - j \in 1..Len(left) /\ gone + (Len(left) - j) = Len(times) - j
    BY <1>0, <1>1, <1>2, <2>1, <2>2
  <2> QED BY <1>1, <2>1, <2>3
<1>5. Promised(due, left)
  <2> SUFFICES ASSUME due # Never, ~(Len(left) < Rpm) PROVE left[1] + Span < due
    BY DEF Promised
  <2>1. gone = 0 /\ Len(times) = Rpm /\ 1 \in 1..Len(left)
    BY <1>0, <1>1, <1>2, LimitConstants
  <2>2. left[1] = times[1]
    BY <1>1, <2>1
  <2> QED BY <1>0, <2>1, <2>2 DEF AddressHolds, Promised
<1> QED BY <1>0, <1>3, <1>4, <1>5 DEF AddressHolds, left

\* So does a sweep that drops a stale entry.
LEMMA StaleHolds ==
    ASSUME clock \in Nat, NEW times, NEW passed, NEW due, AddressHolds(times, passed, due),
           Stale(times)
    PROVE  AddressHolds(<<>>, passed, due)
<1>0. /\ times \in Seq(Times) /\ passed \in Seq(Times) /\ InOrder(passed) /\ due \in Int
      /\ Rpm \in Nat /\ Rpm >= 1 /\ Span \in Nat /\ Covered(passed, times)
  BY LimitConstants DEF AddressHolds, EntryHolds, GrantedHolds
<1>1. EntryHolds(<<>>) /\ Promised(due, <<>>)
  BY <1>0 DEF EntryHolds, InOrder, Promised
<1>2. Covered(passed, <<>>)
  <2> SUFFICES ASSUME NEW j \in 0..(Len(passed) - 1), ~Expired(passed[Len(passed) - j])
               PROVE  FALSE
    BY DEF Covered
  <2>1. j < Len(times) /\ times[Len(times) - j] = passed[Len(passed) - j]
    BY <1>0 DEF Covered
  <2>2. Len(passed) \in Nat /\ Len(passed) - j \in DOMAIN passed /\ Len(passed) \in DOMAIN passed
    BY <1>0
  <2>3. passed[Len(passed) - j] <= passed[Len(passed)]
    BY <1>0, <2>2 DEF InOrder, Times
  <2>4. ~Expired(passed[Len(passed)])
    BY <1>0, <2>2, <2>3 DEF Expired, Times
  <2>5. times[Len(times)] = passed[Len(passed)] /\ times # <<>>
    BY <1>0, <2>1, <2>2, <2>4 DEF Covered
  <2> QED BY <2>4, <2>5 DEF Stale
<1> QED BY <1>0, <1>1, <1>2 DEF AddressHolds

\* What is known of every address after the sweep that a request may make.
LEMMA SweptHolds ==
    ASSUME LimitInv, NEW a \in Addresses
    PROVE  AddressHolds(Entry(Swept, a), granted[a], dueAt[a])
<1>0. clock \in Nat /\ AddressHolds(Entry(window, a), granted[a], dueAt[a])
  BY DEF LimitInv
<1>1. Entry(Swept, a) = Entry(window, a) \/ (Entry(Swept, a) = <<>> /\ Stale(Entry(window, a)))
  BY ZenonT(60) DEF Entry, Swept, SweepStaleEntries
<1> QED BY <1>0, <1>1, StaleHolds

\* A request that passes.
LEMMA GrantHolds ==
    ASSUME clock \in Nat, NEW times, NEW passed, NEW due, AddressHolds(times, passed, due),
           NEW left, left = PurgeExpired(times), Len(left) < Rpm
    PROVE  AddressHolds(Append(left, clock), Latest(Append(passed, clock)), Never)
<1>0. AddressHolds(left, passed, due)
  BY PurgedHolds
<1>1. /\ left \in Seq(Times) /\ InOrder(left) /\ passed \in Seq(Times) /\ InOrder(passed)
      /\ Len(passed) <= Rpm + 1 /\ Covered(passed, left)
      /\ Rpm \in Nat /\ Rpm >= 1 /\ Span \in Nat
  BY <1>0, LimitConstants DEF AddressHolds, EntryHolds, GrantedHolds
<1> DEFINE now == Append(left, clock)
           all == Append(passed, clock)
           kept == Latest(all)
<1>2. clock \in Times /\ now \in Seq(Times) /\ Len(now) = Len(left) + 1
      /\ (\A i \in 1..Len(left) : now[i] = left[i]) /\ now[Len(left) + 1] = clock
  BY <1>1 DEF Times
<1>3. all \in Seq(Times) /\ Len(all) = Len(passed) + 1
      /\ (\A i \in 1..Len(passed) : all[i] = passed[i]) /\ all[Len(passed) + 1] = clock
  BY <1>1, <1>2
<1>4. Len(left) \in Nat /\ Len(passed) \in Nat
  BY <1>1
<1>5. InOrder(now)
  <2> SUFFICES ASSUME NEW i \in 1..Len(now), NEW j \in 1..Len(now), i < j PROVE now[i] <= now[j]
    BY <1>2 DEF InOrder
  <2>1. CASE j = Len(left) + 1
    BY <1>1, <1>2, <1>4, <2>1 DEF Times
  <2>2. CASE j # Len(left) + 1
    BY <1>1, <1>2, <1>4, <2>2 DEF InOrder
  <2> QED BY <2>1, <2>2
<1>6. InOrder(all)
  <2> SUFFICES ASSUME NEW i \in 1..Len(all), NEW j \in 1..Len(all), i < j PROVE all[i] <= all[j]
    BY <1>3 DEF InOrder
  <2>1. CASE j = Len(passed) + 1
    BY <1>1, <1>3, <1>4, <2>1 DEF Times
  <2>2. CASE j # Len(passed) + 1
    BY <1>1, <1>3, <1>4, <2>2 DEF InOrder
  <2> QED BY <2>1, <2>2
<1> HIDE DEF now, all
<1>7. PICK cut \in {0, 1} :
        /\ kept \in Seq(Times) /\ Len(kept) = Len(all) - cut
        /\ \A i \in 1..Len(kept) : kept[i] = all[i + cut]
        /\ Len(kept) <= Rpm + 1
  <2>1. CASE Len(all) > Rpm + 1
    <3>1. kept = Tail(all) /\ all # <<>>
      BY <1>3, <1>4, <1>1, <2>1 DEF Latest
    <3>2. Tail(all) \in Seq(Times) /\ Len(Tail(all)) = Len(all) - 1
          /\ \A i \in 1..Len(Tail(all)) : Tail(all)[i] = all[i + 1]
      BY <1>3, <3>1
    <3>3. Len(kept) <= Rpm + 1
      BY <1>1, <1>3, <1>4, <3>1, <3>2
    <3> HIDE DEF kept
    <3> WITNESS 1 \in {0, 1}
    <3> QED BY <3>1, <3>2, <3>3
  <2>2. CASE ~(Len(all) > Rpm + 1)
    <3>1. kept = all
      BY <2>2 DEF Latest
    <3> HIDE DEF kept
    <3> WITNESS 0 \in {0, 1}
    <3> QED BY <1>1, <1>3, <1>4, <2>2, <3>1
  <2> QED BY <2>1, <2>2
<1> HIDE DEF kept
<1>8. Len(kept) \in Nat /\ Len(all) \in Nat
  BY <1>3, <1>4, <1>7
<1>9. InOrder(kept)
  <2> SUFFICES ASSUME NEW i \in 1..Len(kept), NEW j \in 1..Len(kept), i < j PROVE kept[i] <= kept[j]
    BY <1>7 DEF InOrder
  <2>1. i + cut \in DOMAIN all /\ j + cut \in DOMAIN all /\ i + cut < j + cut
    BY <1>3, <1>7, <1>8
  <2>2. all[i + cut] <= all[j + cut]
    BY <1>6, <2>1 DEF InOrder
  <2> QED BY <1>7, <2>2
<1>10. ASSUME Len(kept) = Rpm + 1 PROVE kept[Rpm + 1] - kept[1] > Span
  <2>1. kept[Rpm + 1] = clock
    <3>1. Rpm + 1 + cut = Len(passed) + 1
      BY <1>1, <1>3, <1>4, <1>7, <1>10
    <3> QED BY <1>1, <1>3, <1>7, <1>10, <3>1
  <2> DEFINE j == Rpm - 1
  <2>2. 1 + cut = Len(passed) - j /\ j \in 0..(Len(passed) - 1) /\ Len(passed) - j \in 1..Len(passed)
    BY <1>1, <1>3, <1>4, <1>7, <1>10
  <2>3. kept[1] = passed[Len(passed) - j]
    BY <1>1, <1>3, <1>4, <1>7, <1>10, <2>2
  <2>4. ~(j < Len(left))
    BY <1>1, <1>4
  <2>5. Expired(passed[Len(passed) - j])
    BY <1>1, <2>2, <2>4 DEF Covered
  <2>6. passed[Len(passed) - j] \in Int
    BY <1>1, <2>2 DEF Times
  <2> QED BY <1>1, <2>1, <2>3, <2>5, <2>6 DEF Expired
<1>11. Covered(kept, now)
  <2> SUFFICES ASSUME NEW j \in 0..(Len(kept) - 1), ~Expired(kept[Len(kept) - j])
               PROVE  j < Len(now) /\ now[Len(now) - j] = kept[Len(kept) - j]
    BY DEF Covered
  <2>1. Len(kept) - j \in 1..Len(kept) /\ kept[Len(kept) - j] = all[Len(all) - j]
    BY <1>7, <1>8
  <2>2. CASE j = 0
    BY <1>2, <1>3, <1>4, <1>8, <2>1, <2>2
  <2>3. CASE j # 0
    <3>1. /\ j - 1 \in 0..(Len(passed) - 1)
          /\ Len(all) - j = Len(passed) - (j - 1)
          /\ Len(all) - j \in 1..Len(passed)
      BY <1>3, <1>4, <1>7, <1>8, <2>3
    <3>2. ~Expired(passed[Len(passed) - (j - 1)])
      BY <1>3, <2>1, <3>1
    <3>3. j - 1 < Len(left) /\ left[Len(left) - (j - 1)] = passed[Len(passed) - (j - 1)]
      BY <1>1, <3>1, <3>2 DEF Covered
    <3>4. Len(now) - j = Len(left) - (j - 1) /\ Len(now) - j \in 1..Len(left) /\ j < Len(now)
      BY <1>2, <1>4, <2>3, <3>1, <3>3
    <3> QED BY <1>2, <1>3, <2>1, <3>1, <3>3, <3>4
  <2> QED BY <2>2, <2>3
<1>12. EntryHolds(now)
  BY <1>1, <1>2, <1>4, <1>5 DEF EntryHolds
<1>13. GrantedHolds(kept)
  BY <1>7, <1>9, <1>10 DEF GrantedHolds
<1> QED BY <1>11, <1>12, <1>13 DEF AddressHolds, Promised, Never, now, kept, all

LEMMA AtLeastOne == \A x \in Int : Max({1, x}) \in Int /\ Max({1, x}) >= x
<1> SUFFICES ASSUME NEW x \in Int PROVE Max({1, x}) \in Int /\ Max({1, x}) >= x
  OBVIOUS
<1>1. \E m \in {1, x} : \A n \in {1, x} : m >= n
  OBVIOUS
<1> DEFINE m == CHOOSE k \in {1, x} : \A n \in {1, x} : k >= n
<1>2. m \in {1, x} /\ \A n \in {1, x} : m >= n
  BY <1>1
<1>3. Max({1, x}) = m
  BY DEF Max
<1> HIDE DEF m
<1> QED BY <1>2, <1>3

\* A request that is refused.
LEMMA RefusalHolds ==
    ASSUME clock \in Nat, NEW times, NEW passed, NEW due, AddressHolds(times, passed, due),
           NEW left, left = PurgeExpired(times), Len(left) >= Rpm
    PROVE  AddressHolds(left, passed, clock + 2 * RetryAfter(left[1]))
<1>0. AddressHolds(left, passed, due) /\ Rpm >= 1 /\ Rpm \in Nat /\ Span \in Nat
  BY PurgedHolds, LimitConstants
<1>1. left \in Seq(Times) /\ 1 \in 1..Len(left)
  BY <1>0 DEF AddressHolds, EntryHolds
<1>2. left[1] \in Int
  BY <1>1 DEF Times
<1> DEFINE wait == (Span - (clock - left[1])) \div 2 + 1
<1>3. wait \in Int /\ 2 * wait > Span - (clock - left[1])
  <2> DEFINE v == Span - (clock - left[1])
  <2>1. v \in Int
    BY <1>0, <1>2
  <2> HIDE DEF v
  <2>2. v \div 2 + 1 \in Int /\ 2 * (v \div 2 + 1) > v
    BY <2>1, SMTT(60)
  <2> QED BY <2>2 DEF v
<1>4. RetryAfter(left[1]) = Max({1, wait})
  BY DEF RetryAfter
<1> HIDE DEF wait
<1>5. RetryAfter(left[1]) \in Int /\ RetryAfter(left[1]) >= wait
  BY <1>3, <1>4, AtLeastOne
<1>6. left[1] + Span < clock + 2 * RetryAfter(left[1])
  BY <1>0, <1>2, <1>3, <1>5
<1>7. clock + 2 * RetryAfter(left[1]) \in Int
  BY <1>5
<1> QED BY <1>0, <1>6, <1>7, ZenonT(60) DEF AddressHolds, Promised

\* What was known still is, when only time has passed.
LEMMA LaterHolds ==
    ASSUME clock \in Nat, clock' = clock + 1,
           NEW times, NEW passed,
           EntryHolds(times), GrantedHolds(passed), Covered(passed, times)
    PROVE  /\ times \in Seq(0..(clock + 1)) /\ passed \in Seq(0..(clock + 1))
           /\ \A j \in 0..(Len(passed) - 1) :
                ~(passed[Len(passed) - j] < (clock + 1) - Span) =>
                    j < Len(times) /\ times[Len(times) - j] = passed[Len(passed) - j]
<1>0. times \in Seq(Times) /\ passed \in Seq(Times) /\ Span \in Nat
  BY LimitConstants DEF EntryHolds, GrantedHolds
<1>1. times \in Seq(0..(clock + 1)) /\ passed \in Seq(0..(clock + 1))
  BY <1>0 DEF Times
<1>2. ASSUME NEW j \in 0..(Len(passed) - 1), ~(passed[Len(passed) - j] < (clock + 1) - Span)
      PROVE  j < Len(times) /\ times[Len(times) - j] = passed[Len(passed) - j]
  <2>1. Len(passed) - j \in DOMAIN passed
    BY <1>0
  <2>2. passed[Len(passed) - j] \in Int
    BY <1>0, <2>1 DEF Times
  <2>3. ~Expired(passed[Len(passed) - j])
    BY <1>0, <1>2, <2>2 DEF Expired
  <2> QED BY <2>3 DEF Covered
<1> QED BY <1>1, <1>2

LEMMA LimitInitially == RequestsInit => LimitInv
<1> SUFFICES ASSUME RequestsInit PROVE LimitInv
  OBVIOUS
<1>1. /\ clock = 0 /\ granted = [a \in Addresses |-> <<>>] /\ dueAt = [a \in Addresses |-> Never]
      /\ window = [a \in {} |-> <<>>]
  BY DEF RequestsInit
<1>2. ASSUME NEW a \in Addresses PROVE AddressHolds(Entry(window, a), granted[a], dueAt[a])
  <2>1. Entry(window, a) = <<>> /\ granted[a] = <<>> /\ dueAt[a] = Never
    BY <1>1 DEF Entry
  <2>2. EntryHolds(<<>>) /\ GrantedHolds(<<>>) /\ Covered(<<>>, <<>>)
    BY LimitConstants DEF EntryHolds, GrantedHolds, Covered, InOrder
  <2> QED BY <2>1, <2>2 DEF AddressHolds, Promised, Never
<1>3. granted \in [Addresses -> Seq(Times)] /\ dueAt \in [Addresses -> Int]
  BY <1>1 DEF Never
<1> QED BY <1>1, <1>2, <1>3 DEF LimitInv

\* A step that leaves the clock, and gives each address what holds of it.
LEMMA LimitKept ==
    ASSUME LimitInv, UNCHANGED clock,
           granted' \in [Addresses -> Seq(Times)], dueAt' \in [Addresses -> Int],
           \A a \in Addresses : AddressHolds(Entry(window', a), granted'[a], dueAt'[a])
    PROVE  LimitInv'
  BY DEF LimitInv, AddressHolds, EntryHolds, GrantedHolds, Covered, Promised, InOrder,
         Expired, Times, Entry

LEMMA LimitOfAddress ==
    ASSUME LimitInv, NEW address \in Addresses, NEW answer, Limit(address, answer),
           UNCHANGED clock
    PROVE  LimitInv'
<1>0. /\ clock \in Nat /\ granted \in [Addresses -> Seq(Times)] /\ dueAt \in [Addresses -> Int]
      /\ \A a \in Addresses : AddressHolds(Entry(Swept, a), granted[a], dueAt[a])
  BY SweptHolds DEF LimitInv
<1> DEFINE times == Entry(Swept, address)
           left == PurgeExpired(times)
<1>1. \A stamps : \A a \in Addresses :
        Entry(Put(Swept, address, stamps), a) = IF a = address THEN stamps ELSE Entry(Swept, a)
  BY ZenonT(60) DEF Entry, Put
<1>2. AddressHolds(times, granted[address], dueAt[address])
  BY <1>0
<1>3. CASE Len(left) >= Rpm
  <2> DEFINE due == clock + 2 * RetryAfter(left[1])
  <2>1. window' = Put(Swept, address, left) /\ dueAt' = [dueAt EXCEPT ![address] = due]
        /\ granted' = granted
    BY <1>3 DEF Limit
  <2>2. AddressHolds(left, granted[address], due)
    BY <1>0, <1>2, <1>3, RefusalHolds
  <2>3. due \in Int
    BY <2>2 DEF AddressHolds
  <2> HIDE DEF left, due
  <2>4. ASSUME NEW a \in Addresses PROVE AddressHolds(Entry(window', a), granted'[a], dueAt'[a])
    <3>1. CASE a = address
      <4>1. Entry(window', a) = left /\ dueAt'[a] = due
        BY <1>0, <1>1, <2>1, <3>1
      <4> QED BY <2>1, <2>2, <3>1, <4>1
    <3>2. CASE a # address
      <4>1. Entry(window', a) = Entry(Swept, a) /\ dueAt'[a] = dueAt[a]
        BY <1>0, <1>1, <2>1, <3>2
      <4> QED BY <1>0, <2>1, <4>1
    <3> QED BY <3>1, <3>2
  <2>5. dueAt' \in [Addresses -> Int] /\ granted' \in [Addresses -> Seq(Times)]
    BY <1>0, <2>1, <2>3
  <2> QED BY <2>4, <2>5, LimitKept
<1>4. CASE ~(Len(left) >= Rpm)
  <2> DEFINE now == Append(left, clock)
             passed == Latest(Append(granted[address], clock))
  <2>1. window' = Put(Swept, address, now) /\ dueAt' = [dueAt EXCEPT ![address] = Never]
        /\ granted' = [granted EXCEPT ![address] = passed]
    BY <1>4, <1>0 DEF Limit
  <2>2. AddressHolds(now, passed, Never)
    <3>1. left \in Seq(Times)
      BY <1>0, <1>2, PurgedHolds DEF AddressHolds, EntryHolds
    <3>2. Len(left) < Rpm
      BY <1>4, <3>1, LimitConstants
    <3> QED BY <1>0, <1>2, <3>2, GrantHolds
  <2>3. passed \in Seq(Times)
    BY <2>2 DEF AddressHolds, GrantedHolds
  <2> HIDE DEF left, now, passed
  <2>4. ASSUME NEW a \in Addresses PROVE AddressHolds(Entry(window', a), granted'[a], dueAt'[a])
    <3>1. CASE a = address
      <4>1. Entry(window', a) = now /\ dueAt'[a] = Never /\ granted'[a] = passed
        BY <1>0, <1>1, <2>1, <3>1
      <4> QED BY <2>2, <4>1
    <3>2. CASE a # address
      <4>1. Entry(window', a) = Entry(Swept, a) /\ dueAt'[a] = dueAt[a] /\ granted'[a] = granted[a]
        BY <1>0, <1>1, <2>1, <3>2
      <4> QED BY <1>0, <4>1
    <3> QED BY <3>1, <3>2
  <2>5. dueAt' \in [Addresses -> Int] /\ granted' \in [Addresses -> Seq(Times)]
    BY <1>0, <2>1, <2>3 DEF Never
  <2> QED BY <2>4, <2>5, LimitKept
<1> QED BY <1>3, <1>4

LEMMA LimitStep == LimitInv /\ [RequestsNext]_requestVars => LimitInv'
<1> SUFFICES ASSUME LimitInv, [RequestsNext]_requestVars PROVE LimitInv'
  OBVIOUS
<1>1. CASE TimePasses
  <2>1. clock \in Nat /\ clock' = clock + 1 /\ UNCHANGED <<window, granted, dueAt>>
        /\ granted \in [Addresses -> Seq(Times)] /\ dueAt \in [Addresses -> Int]
    BY <1>1 DEF TimePasses, LimitInv
  <2>2. ASSUME NEW a \in Addresses PROVE AddressHolds(Entry(window, a), granted[a], dueAt[a])'
    <3>1. AddressHolds(Entry(window, a), granted[a], dueAt[a])
      BY DEF LimitInv
    <3> DEFINE e == Entry(window, a)
               g == granted[a]
    <3>2. EntryHolds(e) /\ GrantedHolds(g) /\ Covered(g, e) /\ dueAt[a] \in Int
          /\ Promised(dueAt[a], e)
      BY <3>1 DEF AddressHolds
    <3>3. /\ e \in Seq(0..(clock + 1)) /\ g \in Seq(0..(clock + 1))
          /\ \A j \in 0..(Len(g) - 1) :
                ~(g[Len(g) - j] < (clock + 1) - Span) =>
                    j < Len(e) /\ e[Len(e) - j] = g[Len(g) - j]
      BY <2>1, <3>2, LaterHolds, ZenonT(60)
    <3>4. Entry(window, a)' = e /\ granted'[a] = g
      BY <2>1 DEF Entry
    <3> HIDE DEF e, g
    <3>5. EntryHolds(Entry(window, a))'
      BY <2>1, <3>2, <3>3, <3>4 DEF EntryHolds, InOrder, Times
    <3>6. GrantedHolds(granted[a])'
      BY <2>1, <3>2, <3>3, <3>4 DEF GrantedHolds, InOrder, Times
    <3>7. Covered(granted[a], Entry(window, a))'
      BY <2>1, <3>3, <3>4 DEF Covered, Expired
    <3>8. (dueAt[a] \in Int /\ Promised(dueAt[a], Entry(window, a)))'
      BY <2>1, <3>2, <3>4 DEF Promised
    <3> QED BY <3>5, <3>6, <3>7, <3>8 DEF AddressHolds
  <2>3. granted' \in [Addresses -> Seq(0..clock')] /\ clock' \in Nat
    BY <2>1 DEF Times
  <2> QED BY <2>1, <2>2, <2>3 DEF LimitInv, Times
<1>2. CASE Arrive
  <2>1. PICK direct \in Addresses, forwarded \in Addresses \cup {"none"},
             path \in {"health", "status"}, bearer \in BOOLEAN :
            Limit(ClientIp(direct, forwarded), Dispatch(path, bearer))
    BY <1>2, ZenonT(60) DEF Arrive
  <2>2. ClientIp(direct, forwarded) \in Addresses
    BY ZenonT(60) DEF ClientIp
  <2> QED BY <1>2, <2>1, <2>2, LimitOfAddress DEF Arrive
<1>3. CASE \E p \in Passage : Reply(p)
  <2>1. PICK p \in Passage : Reply(p)
    BY <1>3
  <2>2. p[1] \in Addresses /\ UNCHANGED <<clock, granted, dueAt>>
        /\ window' = Put(window, p[1], Entry(window, p[1]))
    BY <2>1 DEF Reply, Passage
  <2>3. \A a \in Addresses : Entry(window', a) = Entry(window, a)
    BY <2>2, ZenonT(60) DEF Entry, Put
  <2>4. \A a \in Addresses : AddressHolds(Entry(window', a), granted'[a], dueAt'[a])
    BY <2>2, <2>3 DEF LimitInv
  <2> QED BY <2>2, <2>4, LimitKept DEF LimitInv
<1>4. CASE UNCHANGED requestVars
  BY <1>4, LimitKept DEF requestVars, LimitInv
<1> QED BY <1>1, <1>2, <1>3, <1>4 DEF RequestsNext

LEMMA LimitIsKept == LimitInv => LimitIsFair
<1> SUFFICES ASSUME LimitInv PROVE LimitIsFair
  OBVIOUS
<1>0. Rpm \in Nat /\ Rpm >= 1 /\ Span \in Nat /\ clock \in Nat
  BY LimitConstants DEF LimitInv
<1>1. WindowHolds
  <2> SUFFICES ASSUME NEW a \in Addresses, NEW i \in DOMAIN granted[a],
                      i + Rpm \in DOMAIN granted[a]
               PROVE  granted[a][i + Rpm] - granted[a][i] > Span
    BY DEF WindowHolds
  <2>1. GrantedHolds(granted[a])
    BY DEF LimitInv, AddressHolds
  <2>2. i = 1 /\ Len(granted[a]) = Rpm + 1
    BY <1>0, <2>1 DEF GrantedHolds
  <2> QED BY <1>0, <2>1, <2>2 DEF GrantedHolds
<1>2. RetryIsTrue
  <2> SUFFICES ASSUME NEW a \in Addresses, dueAt[a] # Never, clock >= dueAt[a]
               PROVE  Len(PurgeExpired(Entry(window, a))) < Rpm
    BY DEF RetryIsTrue
  <2> DEFINE e == Entry(window, a)
  <2>1. EntryHolds(e) /\ Promised(dueAt[a], e) /\ dueAt[a] \in Int
    BY DEF LimitInv, AddressHolds
  <2>2. \E gone \in 0..Len(e) :
             /\ PurgeExpired(e) \in Seq(Times) /\ Len(PurgeExpired(e)) = Len(e) - gone
             /\ \A i \in 1..Len(PurgeExpired(e)) : PurgeExpired(e)[i] = e[gone + i]
             /\ \A i \in 1..Len(PurgeExpired(e)) : ~Expired(PurgeExpired(e)[i])
             /\ \A i \in 1..gone : Expired(e[i])
    BY <1>0, <2>1, WhatIsLeft, ZenonT(60) DEF EntryHolds
  <2> DEFINE left == PurgeExpired(e)
  <2>3. PICK gone \in 0..Len(e) :
             /\ left \in Seq(Times) /\ Len(left) = Len(e) - gone
             /\ \A i \in 1..Len(left) : left[i] = e[gone + i]
             /\ \A i \in 1..Len(left) : ~Expired(left[i])
    BY <2>2
  <2> HIDE DEF left, e
  <2>4. e \in Seq(Times) /\ Len(e) <= Rpm /\ Len(e) \in Nat
    BY <2>1 DEF EntryHolds
  <2>5. ASSUME Len(left) >= Rpm PROVE FALSE
    <3>1. gone = 0 /\ Len(e) = Rpm /\ 1 \in 1..Len(left)
      BY <1>0, <2>3, <2>4, <2>5
    <3>2. left[1] = e[1] /\ ~Expired(e[1]) /\ e[1] \in Int
      BY <1>0, <2>3, <2>4, <3>1 DEF Times
    <3>3. e[1] + Span < dueAt[a]
      BY <1>0, <2>1, <3>1 DEF Promised
    <3> QED BY <1>0, <2>1, <3>2, <3>3 DEF Expired
  <2>6. Len(left) < Rpm
    BY <1>0, <2>3, <2>4, <2>5
  <2> QED BY <2>6 DEF left, e
<1> QED BY <1>1, <1>2 DEF LimitIsFair

\* However an address' requests and answers, sweeps and the token interleave,
\* no address passes more often in a window than its limit, and who comes back
\* when told is let through (RateLimitMiddleware.dispatch).
THEOREM LimitStaysFair == RequestsSpec => []LimitIsFair
  BY LimitInitially, LimitStep, LimitIsKept, PTL DEF RequestsSpec

-----------------------------------------------------------------------------
(* Impulses, once more: their types.  What Strongest keeps is at most as    *)
(* many as were asked for, because the order of impulses is total.         *)

\* Of a finite set of impulses at most n have fewer than n before them.
LEMMA StrongestAreFew ==
    ASSUME NEW u \in Seq(Urgencies), NEW S, S \subseteq 1..Len(u), NEW n \in Nat
    PROVE  Cardinality(Strongest(u, S, n)) <= n
<1> DEFINE above(i) == {j \in S : Before(u, j, i)}
           kept == Strongest(u, S, n)
           rank == [i \in kept |-> Cardinality(above(i))]
<1>1. Len(u) \in Nat /\ IsFiniteSet(1..Len(u))
  BY FS_Interval
<1>2. IsFiniteSet(S)
  BY <1>1, FS_Subset
<1>3. \A i \in S : IsFiniteSet(above(i)) /\ Cardinality(above(i)) \in Nat
  <2> SUFFICES ASSUME NEW i \in S PROVE IsFiniteSet(above(i)) /\ Cardinality(above(i)) \in Nat
    OBVIOUS
  <2>1. above(i) \in SUBSET S
    OBVIOUS
  <2> HIDE DEF above
  <2> QED BY <1>2, <2>1, FS_Subset, FS_CardinalityType
<1>4. \A i \in S : i \in Int /\ u[i] \in Int
  <2>1. \A i \in 1..Len(u) : u[i] \in Urgencies
    OBVIOUS
  <2>2. Urgencies \subseteq Nat
    BY ImpulseAssumption
  <2> SUFFICES ASSUME NEW i \in S PROVE i \in Int /\ u[i] \in Int
    OBVIOUS
  <2>3. i \in 1..Len(u)
    OBVIOUS
  <2>4. u[i] \in Nat
    BY <2>1, <2>2, <2>3
  <2> QED BY <1>1, <2>3, <2>4
<1>5. \A i, j \in S : i # j => Before(u, i, j) \/ Before(u, j, i)
  BY <1>4 DEF Before
<1>6. \A i, j \in S : Before(u, i, j) => Cardinality(above(i)) < Cardinality(above(j))
  <2> SUFFICES ASSUME NEW i \in S, NEW j \in S, Before(u, i, j)
               PROVE  Cardinality(above(i)) < Cardinality(above(j))
    OBVIOUS
  <2>1. ~Before(u, i, i)
    BY <1>4 DEF Before
  <2>2. \A k \in S : Before(u, k, i) => Before(u, k, j)
    BY <1>4 DEF Before
  <2>3. above(i) \subseteq above(j) /\ i \in above(j) /\ i \notin above(i)
    BY <2>1, <2>2
  <2>4. IsFiniteSet(above(j))
    BY <1>3
  <2>5. above(i) \in SUBSET above(j) /\ above(i) # above(j)
    BY <2>3
  <2> HIDE DEF above
  <2>6. Cardinality(above(i)) <= Cardinality(above(j)) /\ Cardinality(above(i)) # Cardinality(above(j))
    BY <2>4, <2>5, FS_Subset
  <2> QED BY <1>3, <2>6
<1>7. kept \subseteq S /\ \A i \in kept : Cardinality(above(i)) < n
  BY DEF Strongest
<1>8. rank \in [kept -> 0..(n - 1)]
  <2> HIDE DEF above, kept
  <2> QED BY <1>3, <1>7
<1>9. \A i, j \in kept : rank[i] = rank[j] => i = j
  <2> HIDE DEF above, kept
  <2> SUFFICES ASSUME NEW i \in kept, NEW j \in kept, i # j PROVE rank[i] # rank[j]
    OBVIOUS
  <2>1. rank[i] = Cardinality(above(i)) /\ rank[j] = Cardinality(above(j))
    OBVIOUS
  <2>2. Cardinality(above(i)) \in Nat /\ Cardinality(above(j)) \in Nat
    BY <1>3, <1>7
  <2>3. Cardinality(above(i)) < Cardinality(above(j)) \/ Cardinality(above(j)) < Cardinality(above(i))
    BY <1>5, <1>6, <1>7
  <2> QED BY <2>1, <2>2, <2>3
<1>10. IsFiniteSet(0..(n - 1)) /\ Cardinality(0..(n - 1)) <= n
  <2>1. 0 \in Int /\ n - 1 \in Int
    OBVIOUS
  <2>2. IsFiniteSet(0..(n - 1)) /\ Cardinality(0..(n - 1)) = IF 0 > n - 1 THEN 0 ELSE (n - 1) - 0 + 1
    BY <2>1, FS_Interval, ZenonT(60)
  <2> QED BY <2>2
<1> HIDE DEF kept, rank
<1>11. rank \in Injection(kept, 0..(n - 1))
  BY <1>8, <1>9 DEF Injection, IsInjective
<1>12. IsFiniteSet(kept) /\ Cardinality(kept) <= Cardinality(0..(n - 1))
  BY <1>10, <1>11, FS_Injection
<1>13. Cardinality(kept) \in Nat /\ Cardinality(0..(n - 1)) \in Nat
  BY <1>10, <1>12, FS_CardinalityType
<1> QED BY <1>10, <1>12, <1>13 DEF kept

\* A buffer within its bound, of impulses that were pushed.
BufferIsBounded == IsFiniteSet(buffer) /\ Cardinality(buffer) <= MaxBuffer

ImpulsesBounded ==
    /\ attached \in BOOLEAN
    /\ Len(urgency) <= MaxImpulses
    /\ since \in 0..Cooldown
    /\ BufferIsBounded

\* Whatever is pushed, the buffer is trimmed; whatever is taken, it shrinks.
LEMMA PushBounds ==
    ASSUME NEW u \in Seq(Urgencies), NEW S, NEW T, S \cup T \subseteq 1..Len(u)
    PROVE  IsFiniteSet(Push(u, S, T)) /\ Cardinality(Push(u, S, T)) <= MaxBuffer
<1>1. MaxBuffer \in Nat
  BY ImpulseAssumption
<1>2. Cardinality(Push(u, S, T)) <= MaxBuffer
  BY <1>1, StrongestAreFew, ZenonT(60) DEF Push
<1>3. IsFiniteSet(1..Len(u)) /\ Push(u, S, T) \in SUBSET (1..Len(u))
  BY FS_Interval DEF Push, Strongest
<1> QED BY <1>2, <1>3, FS_Subset

LEMMA SmallerBounds ==
    ASSUME NEW S, NEW T, IsFiniteSet(T), Cardinality(T) <= MaxBuffer, S \subseteq T
    PROVE  IsFiniteSet(S) /\ Cardinality(S) <= MaxBuffer
<1>1. IsFiniteSet(S) /\ Cardinality(S) <= Cardinality(T)
  BY FS_Subset
<1>2. Cardinality(S) \in Nat /\ Cardinality(T) \in Nat /\ MaxBuffer \in Nat
  BY <1>1, FS_CardinalityType, ImpulseAssumption
<1> QED BY <1>1, <1>2

LEMMA EvolvedInRange ==
    ASSUME since \in 0..Cooldown, NEW got, NEW steps \in Nat
    PROVE  Evolved(got, steps) \in 0..Cooldown
<1>1. Cooldown \in Nat
  BY ImpulseAssumption
<1> QED BY <1>1 DEF Evolved

LEMMA ImpulsesStepBounded ==
    ImpulsesInv /\ ImpulsesBounded /\ [ImpulsesNext]_impulseVars => ImpulsesBounded'
<1> SUFFICES ASSUME ImpulsesInv, ImpulsesBounded, [ImpulsesNext]_impulseVars PROVE ImpulsesBounded'
  OBVIOUS
<1>0. /\ attached \in BOOLEAN /\ Len(urgency) <= MaxImpulses /\ since \in 0..Cooldown
      /\ BufferIsBounded /\ ImpulsesPlaced
      /\ urgency \in Seq(Urgencies) /\ buffer \subseteq 1..Len(urgency) /\ Len(urgency) \in Nat
  BY DEF ImpulsesBounded, ImpulsesInv, ImpulsesPlaced, Known
<1>a. Cooldown \in Nat
  BY ImpulseAssumption
<1>b. \A got : \A steps \in {0, 1} : Evolved(got, steps) \in 0..Cooldown
  BY <1>0, EvolvedInRange
<1>f. ASSUME NEW us \in Seq(Urgencies), Fed(us)
      PROVE  /\ urgency' \in Seq(Urgencies) /\ Len(urgency') <= MaxImpulses
             /\ Len(urgency') = Len(urgency) + Len(us)
             /\ buffer \cup New \subseteq 1..Len(urgency')
  <2>1. /\ urgency' \in Seq(Urgencies) /\ Len(urgency') = Len(urgency) + Len(us)
        /\ Known \subseteq Known' /\ New \subseteq Known'
    BY <1>0, <1>f, FedExtends
  <2>2. Len(urgency') <= MaxImpulses
    BY <1>f, <2>1 DEF Fed
  <2> QED BY <1>0, <2>1, <2>2 DEF Known
<1>1. CASE LoopTick
  <2> PICK us \in Feeds : Fed(us) /\
        LET fed == Push(urgency', buffer, New)
            got == IF attached THEN {} ELSE Collect(urgency', fed, since)
        IN  /\ buffer' = fed \ got
            /\ since' = IF attached THEN since ELSE Evolved(got, 1)
    BY <1>1, ZenonT(60) DEF LoopTick
  <2> DEFINE fed == Push(urgency', buffer, New)
             got == IF attached THEN {} ELSE Collect(urgency', fed, since)
  <2>1. buffer' \subseteq fed
    OBVIOUS
  <2>2. us \in Seq(Urgencies) /\ Fed(us)
    BY FeedsAreSequences
  <2>3. urgency' \in Seq(Urgencies) /\ Len(urgency') <= MaxImpulses /\ buffer \cup New \subseteq 1..Len(urgency')
    BY <1>f, <2>2
  <2>4. IsFiniteSet(fed) /\ Cardinality(fed) <= MaxBuffer
    BY <2>3, PushBounds
  <2>5. since' \in 0..Cooldown
    BY <1>0, <1>b
  <2>6. attached' = attached
    BY <1>1 DEF LoopTick
  <2> HIDE DEF fed, got
  <2>7. IsFiniteSet(buffer') /\ Cardinality(buffer') <= MaxBuffer
    BY <2>1, <2>4, SmallerBounds
  <2> QED BY <1>0, <2>3, <2>5, <2>6, <2>7 DEF ImpulsesBounded, BufferIsBounded
<1>2. CASE IdleThought \/ DreamInsight
  <2>1. PICK us \in Seq(Urgencies) : Fed(us)
    BY <1>2, FeedsAreSequences DEF IdleThought, DreamInsight
  <2>2. buffer' = Push(urgency', buffer, New) /\ attached' = attached
        /\ since' \in {since, Evolved({}, 1)}
    BY <1>2 DEF IdleThought, DreamInsight
  <2>3. urgency' \in Seq(Urgencies) /\ Len(urgency') <= MaxImpulses /\ buffer \cup New \subseteq 1..Len(urgency')
    BY <1>f, <2>1
  <2>4. IsFiniteSet(buffer') /\ Cardinality(buffer') <= MaxBuffer
    BY <2>2, <2>3, PushBounds
  <2>5. since' \in 0..Cooldown
    BY <1>0, <1>b, <2>2
  <2> QED BY <1>0, <2>2, <2>3, <2>4, <2>5 DEF ImpulsesBounded, BufferIsBounded
<1>3. CASE \E o \in Origins : Answer(o)
  <2> PICK o \in Origins : Answer(o)
    BY <1>3
  <2> PICK us \in Feeds, late \in Feeds :
        /\ Fed(us \o late)
        /\ LET last == Len(urgency) + Len(us)
               fed  == Push(urgency', buffer, Len(urgency) + 1 .. last)
               got  == IF o = "user" THEN Collect(urgency', fed, since + 1) ELSE {}
           IN  /\ buffer' = Push(urgency', fed \ got, last + 1 .. Len(urgency'))
               /\ since' = IF got = {} THEN Evolved({}, 1) ELSE 0
    BY DEF Answer
  <2> DEFINE last == Len(urgency) + Len(us)
             fed  == Push(urgency', buffer, Len(urgency) + 1 .. last)
             got  == IF o = "user" THEN Collect(urgency', fed, since + 1) ELSE {}
             first == Len(urgency) + 1 .. last
             second == last + 1 .. Len(urgency')
  <2>1. buffer' = Push(urgency', fed \ got, second) /\ since' \in {Evolved({}, 1), 0}
    OBVIOUS
  <2>2. us \in Seq(Urgencies) /\ late \in Seq(Urgencies) /\ us \o late \in Seq(Urgencies)
        /\ Fed(us \o late)
    BY FeedsAreSequences
  <2>3. Len(us \o late) = Len(us) + Len(late) /\ Len(us) \in Nat /\ Len(late) \in Nat
    BY <2>2
  <2>4. /\ urgency' \in Seq(Urgencies) /\ Len(urgency') <= MaxImpulses
        /\ Len(urgency') = Len(urgency) + Len(us \o late)
        /\ buffer \cup New \subseteq 1..Len(urgency')
    BY <1>f, <2>2
  <2>5. first \subseteq 1..Len(urgency') /\ second \subseteq 1..Len(urgency')
    BY <1>0, <2>3, <2>4
  <2>6. fed \subseteq buffer \cup first
    <3>1. \A S, T : Push(urgency', S, T) \subseteq S \cup T
      BY StrongestAreAmong
    <3> QED BY <3>1
  <2> HIDE DEF fed, got, first, second, last
  <2>7. (fed \ got) \cup second \subseteq 1..Len(urgency')
    BY <2>4, <2>5, <2>6
  <2>8. IsFiniteSet(buffer') /\ Cardinality(buffer') <= MaxBuffer
    BY <2>1, <2>4, <2>7, PushBounds
  <2>9. since' \in 0..Cooldown
    BY <1>a, <1>b, <2>1
  <2>10. attached' = attached
    BY DEF Answer
  <2> QED BY <1>0, <2>4, <2>8, <2>9, <2>10 DEF ImpulsesBounded, BufferIsBounded
<1>4. CASE /\ buffer' \subseteq buffer /\ urgency' = urgency /\ attached' \in BOOLEAN
           /\ since' \in 0..Cooldown
  <2>1. IsFiniteSet(buffer') /\ Cardinality(buffer') <= MaxBuffer
    BY <1>0, <1>4, SmallerBounds DEF BufferIsBounded
  <2> QED BY <1>0, <1>4, <2>1 DEF ImpulsesBounded, BufferIsBounded
<1>5. CASE Watch \/ WatchStopped
  BY <1>0, <1>4, <1>5, <1>b DEF Watch, WatchStopped
<1>6. CASE HeartBeat \/ Ask \/ \E o \in Origins : Think(o)
  BY <1>0, <1>4, <1>6, <1>b DEF HeartBeat, Ask, Think
<1>7. CASE Command \/ UserReturns \/ VoiceReturns \/ VoiceFails \/ UNCHANGED impulseVars
  BY <1>0, <1>4, <1>7 DEF Command, UserReturns, VoiceReturns, VoiceFails, impulseVars
<1>8. CASE Attach \/ Detach \/ Quit \/ Restart
  <2>1. buffer' \subseteq buffer /\ urgency' = urgency /\ attached' \in BOOLEAN
        /\ since' \in {since, Cooldown}
    BY <1>8 DEF Attach, Detach, Quit, Restart, SessionEnds
  <2>2. since' \in 0..Cooldown
    BY <1>0, <1>a, <2>1
  <2> QED BY <1>4, <2>1, <2>2
<1> QED
  BY <1>1, <1>2, <1>3, <1>5, <1>6, <1>7, <1>8 DEF ImpulsesNext

LEMMA ImpulsesInitBounded == ImpulsesInit => ImpulsesBounded
<1> SUFFICES ASSUME ImpulsesInit PROVE ImpulsesBounded
  OBVIOUS
<1>1. Cooldown \in Nat /\ MaxImpulses \in Nat /\ MaxBuffer \in Nat
  BY ImpulseAssumption
<1>2. IsFiniteSet({}) /\ Cardinality({}) = 0
  BY FS_EmptySet
<1>3. attached \in BOOLEAN /\ urgency = <<>> /\ buffer = {} /\ since = Cooldown
  BY DEF ImpulsesInit
<1>4. Len(urgency) = 0 /\ since \in 0..Cooldown
  BY <1>1, <1>3
<1> QED BY <1>1, <1>2, <1>3, <1>4 DEF ImpulsesBounded, BufferIsBounded

LEMMA ImpulsesInvInit == ImpulsesInit => ImpulsesInv
  BY DEF ImpulsesInit, ImpulsesInv, ImpulsesPlaced, ToldOnce, IdleCarriesNothing, Pending, Origins

LEMMA ImpulsesTyped == ImpulsesInv /\ ImpulsesBounded => ImpulsesTypeOK
  BY DEF ImpulsesInv, ImpulsesPlaced, IdleCarriesNothing, ImpulsesBounded, BufferIsBounded,
         ImpulsesTypeOK, Known

\* The buffer never holds more than MAX_IMPULSE_BUFFER, though pushes come in
\* lots and between two awaits of a turn; the rest keeps its types (EndogenousSource._push).
THEOREM ImpulsesTypeCorrect == ImpulsesSpec => []ImpulsesTypeOK
<1>1. ImpulsesInv /\ ImpulsesBounded /\ [ImpulsesNext]_impulseVars => (ImpulsesInv /\ ImpulsesBounded)'
  BY ImpulsesStep, ImpulsesStepBounded
<1> QED BY <1>1, ImpulsesInvInit, ImpulsesInitBounded, ImpulsesTyped, PTL DEF ImpulsesSpec

-----------------------------------------------------------------------------
(* All of them.  A step of one leaves the others as they are.              *)

PartsInv ==
    /\ BreakerInv /\ ImpulsesInv /\ ImpulsesBounded /\ CyclesInv /\ SavedInv /\ StopInv

LEMMA PartsInitially == PartsInit => PartsInv
  BY BreakerInit, ImpulsesInvInit, ImpulsesInitBounded, CyclesInitInv, SavedInitInv, StopInitially
  DEF PartsInit, PartsInv

LEMMA PartsSteps ==
    [PartsNext]_partsVars =>
        /\ [Next]_vars /\ [ImpulsesNext]_impulseVars /\ [CyclesNext]_cycleVars
        /\ [SavedNext]_savedVars /\ [StopNext]_stopVars /\ [RequestsNext]_requestVars
<1>1. PartsNext =>
        /\ Next \/ UNCHANGED vars
        /\ ImpulsesNext \/ UNCHANGED impulseVars
        /\ CyclesNext \/ UNCHANGED cycleVars
        /\ SavedNext \/ UNCHANGED savedVars
        /\ StopNext \/ UNCHANGED stopVars
        /\ RequestsNext \/ UNCHANGED requestVars
  BY ZenonT(60) DEF PartsNext, Others
<1>2. UNCHANGED partsVars =>
        /\ UNCHANGED vars /\ UNCHANGED impulseVars /\ UNCHANGED cycleVars
        /\ UNCHANGED savedVars /\ UNCHANGED stopVars /\ UNCHANGED requestVars
  BY DEF partsVars
<1> QED BY <1>1, <1>2

LEMMA PartsStep == PartsInv /\ [PartsNext]_partsVars => PartsInv'
<1> SUFFICES ASSUME PartsInv, [PartsNext]_partsVars PROVE PartsInv'
  OBVIOUS
<1>1. /\ [Next]_vars /\ [ImpulsesNext]_impulseVars /\ [CyclesNext]_cycleVars
      /\ [SavedNext]_savedVars /\ [StopNext]_stopVars
  BY PartsSteps
<1>2. /\ BreakerInv /\ ImpulsesInv /\ ImpulsesBounded /\ CyclesInv /\ SavedInv /\ StopInv
  BY DEF PartsInv
<1>3. BreakerInv' /\ StopInv'
  BY <1>1, <1>2, BreakerStep, StopStep
<1>4. ImpulsesInv' /\ ImpulsesBounded'
  BY <1>1, <1>2, ImpulsesStep, ImpulsesStepBounded
<1>5. CyclesInv'
  BY <1>1, <1>2, CyclesStep
<1>6. SavedInv'
  BY <1>1, <1>2, SavedStepType, SavedStepAhead DEF SavedInv
<1> QED BY <1>3, <1>4, <1>5, <1>6 DEF PartsInv

LEMMA PartsTyped == PartsInv => PartsTypeOK
  BY ImpulsesTyped DEF PartsInv, PartsTypeOK, BreakerInv, CyclesInv, SavedInv, StopInv

\* Every component keeps its types, whichever moves: the breaker's counter, the
\* bound on the buffer of impulses, the index of the cycles and its file, the
\* files of the state and what they hold, the kill switch.
THEOREM PartsKeepTheirTypes == PartsSpec => []PartsTypeOK
  BY PartsInitially, PartsStep, PartsTyped, PTL DEF PartsSpec
=============================================================================
