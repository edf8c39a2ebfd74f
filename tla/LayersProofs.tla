---------------------------- MODULE LayersProofs ----------------------------
(***************************************************************************)
(* Proofs about the optional layers: whatever the reclaim of video memory  *)
(* stopped it knows, the resource controllers let go of the machine,       *)
(* plugins are unloaded before those they depend on, the thresholds of the *)
(* configuration stay in order, the energy accounts add up, and profiles   *)
(* are in force as ProfileProofs shows.                                    *)
(***************************************************************************)
EXTENDS OptionalLayers, ProfileProofs, ListLemmas, TLAPS

-----------------------------------------------------------------------------
\* The entries are countdowns or absent.
VramTypes == held \in [Pids -> Nat \cup {None}]
VramInv == VramTypes /\ StoppedIsKnown

LEMMA VramInitInv == VramInit => VramInv
BY VramAssumption DEF VramInit, VramInv, VramTypes, StoppedIsKnown, Holding

\* What is continued has no entry any more, and the rest keeps its own.
LEMMA ResumeKeepsKnown ==
  ASSUME VramInv, NEW pids
  PROVE  /\ Resumed(pids) \in [Pids -> Nat \cup {None}]
         /\ \A p \in stopped \ pids : p \in Pids /\ Resumed(pids)[p] # None
BY DEF VramInv, VramTypes, StoppedIsKnown, Holding, Resumed

\* A tick, on the entries h and the processes that are still stopped.
LEMMA ReclaimKeepsKnown ==
  ASSUME NEW h \in [Pids -> Nat \cup {None}], NEW still,
         \A p \in still : p \in Pids /\ h[p] # None,
         vramTimer',
         \/ \E state : NoReclaim(h, still, state)
         \/ \E listed \in SUBSET Pids : AttemptReclaim(listed, h, still)
  PROVE  VramInv'
<1>1. CASE \E state : NoReclaim(h, still, state)
  BY <1>1 DEF NoReclaim, VramInv, VramTypes, StoppedIsKnown, Holding
<1>2. ASSUME NEW listed \in SUBSET Pids, AttemptReclaim(listed, h, still)
      PROVE  VramInv'
  <2>1. PICK S \in SUBSET Pids :
          /\ held' = [p \in Pids |-> IF p \in S \cap alive THEN Hold ELSE h[p]]
          /\ stopped' = still \cup (S \cap alive)
    BY <1>2 DEF AttemptReclaim, kSubset
  <2>2. Hold \in Nat /\ Hold # None
    BY VramAssumption
  <2>3. VramTypes'
    BY <2>1, <2>2 DEF VramTypes
  <2>4. \A p \in stopped' : p \in Pids /\ held'[p] # None
    BY <2>1, <2>2
  <2> QED
    BY <2>3, <2>4 DEF VramInv, StoppedIsKnown, Holding
<1> QED
  BY <1>1, <1>2

LEMMA VramTickInv ==
  ASSUME VramInv, VramTicks
  PROVE  VramInv'
<1>1. PICK usage \in {"high", "mid", "low", None}, oom \in BOOLEAN, listed \in SUBSET Pids :
        VramTick(usage, oom, listed)
  BY DEF VramTicks
<1> DEFINE h == Resumed(DueInTick(usage))
           still == stopped \ DueInTick(usage)
<1>2. /\ h \in [Pids -> Nat \cup {None}]
      /\ \A p \in still : p \in Pids /\ h[p] # None
  BY ResumeKeepsKnown
<1>3. /\ held \in [Pids -> Nat \cup {None}]
      /\ \A p \in stopped : p \in Pids /\ held[p] # None
  BY DEF VramInv, VramTypes, StoppedIsKnown, Holding
<1>4. vramTimer'
  BY <1>1 DEF VramTick
<1> HIDE DEF h, still
<1>5. \/ \E state : NoReclaim(held, stopped, state)
      \/ \E state : NoReclaim(h, still, state)
      \/ AttemptReclaim(listed, h, still)
  BY <1>1 DEF VramTick, h, still
<1> QED
  BY <1>2, <1>3, <1>4, <1>5, ReclaimKeepsKnown

LEMMA VramNextInv ==
  ASSUME VramInv, [VramNext]_vramVars
  PROVE  VramInv'
<1>1. CASE VramTicks
  BY <1>1, VramTickInv
<1>2. CASE ForceResume \/ StopVram
  <2>1. held' = Resumed(Holding) /\ stopped' = stopped \ Holding
    BY <1>2 DEF ForceResume, StopVram, ResumeOnStop
  <2>2. stopped' = {}
    BY <2>1 DEF VramInv, StoppedIsKnown
  <2> QED
    BY <2>1, <2>2, ResumeKeepsKnown DEF VramInv, VramTypes, StoppedIsKnown
<1>3. CASE \E p \in Pids : ProcessDies(p)
  BY <1>3 DEF ProcessDies, VramInv, VramTypes, StoppedIsKnown, Holding
<1>4. ASSUME UNCHANGED <<held, stopped, vramTimer>> PROVE VramInv'
  BY <1>4 DEF VramInv, VramTypes, StoppedIsKnown, Holding
<1>5. CASE \E p \in Pids : ProcessStarts(p)
  BY <1>4, <1>5 DEF ProcessStarts
<1>6. CASE \E p \in Pids \cup {NoPid} : FocusMoves(p)
  BY <1>4, <1>6 DEF FocusMoves
<1>7. CASE \E on \in BOOLEAN : ReloadVram(on)
  BY <1>4, <1>7 DEF ReloadVram
<1>8. CASE Elapse
  <2>1. /\ held' = [p \in Pids |-> IF held[p] = None THEN None ELSE LessOne(held[p])]
        /\ UNCHANGED <<stopped, vramTimer>>
    BY <1>8 DEF Elapse
  <2>2. \A n \in Nat : LessOne(n) \in Nat /\ LessOne(n) # None
    BY VramAssumption DEF LessOne
  <2>3. /\ held' \in [Pids -> Nat \cup {None}]
        /\ \A p \in Pids : held[p] # None => held'[p] # None
    BY <2>1, <2>2 DEF VramInv, VramTypes
  <2> QED
    BY <2>1, <2>3 DEF VramInv, VramTypes, StoppedIsKnown, Holding
<1>9. CASE UNCHANGED vramVars
  BY <1>4, <1>9 DEF vramVars
<1> QED
  BY <1>1, <1>2, <1>3, <1>5, <1>6, <1>7, <1>8, <1>9 DEF VramNext

\* The reclaim of video memory has an entry for whatever it stopped, and leaves
\* nothing stopped when it stops itself.
THEOREM StoppedAlwaysKnown == Spec => []StoppedIsKnown
<1>1. Init => VramInv
  BY VramInitInv DEF Init
<1>2. VramInv /\ [Next]_layerVars => VramInv'
  <2>1. [Next]_layerVars => [VramNext]_vramVars
    BY DEF Next, layerVars, OnlyVram, OnlyControllers, OnlyPredictive, OnlyPlugins,
           OnlyRecognition, OnlyEnergy, OnlyConfig, OnlyProfiles
  <2> QED
    BY <2>1, VramNextInv
<1>3. VramInv => StoppedIsKnown
  BY DEF VramInv
<1> QED
  BY <1>1, <1>2, <1>3, PTL DEF Spec

-----------------------------------------------------------------------------
\* As long as only the arbiter touches the card, it has the limit it was found
\* with, or a lower one and a snapshot to go back to for as long as a cap of it
\* is engaged.
AsFound(g) == \E x \in {"found", "fraction"} : g = [limit |-> x, snapshot |-> None]
Lowered(g) == \E x \in {"found", "fraction"} : g = [limit |-> "low", snapshot |-> x]
CardInv ==
  ~foreign => AsFound(gpu) \/ (Lowered(gpu) /\ cap \in {"cpu_bound", "balanced"})

\* Unless a command failed, the flags know what is on the interface.
InterfaceInv ==
  /\ qos.qdisc = "dynalloc" => qos.installed \/ loose.qdisc
  /\ qos.table => qos.created \/ loose.table

QosType == [qdisc : {"found", "default", "dynalloc"}, table : BOOLEAN,
            installed : BOOLEAN, created : BOOLEAN]
LooseType == [qdisc : BOOLEAN, table : BOOLEAN]

RcInv ==
  /\ CardInv /\ InterfaceInv
  /\ qos \in QosType /\ loose \in LooseType /\ setups \in Nat
  /\ rcm \in {"created", "started", "destroyed"}
  /\ capTimer => rcm = "started"
  /\ rcm = "created" => setups < 2
  /\ rcm = "destroyed" =>
       /\ cap = None
       /\ qos.qdisc = "dynalloc" => loose.qdisc
       /\ qos.table => loose.table
  /\ rcm = "created" => cap = None

LEMMA RcInitInv == RcInit => RcInv
BY DEF RcInit, RcInv, CardInv, AsFound, InterfaceInv, QosType, LooseType

\* Engaging on a card that is as it was found.
LEMMA EngageKeepsCard ==
  ASSUME NEW g, AsFound(g),
         NEW bound \in {"gpu_bound", "cpu_bound", "balanced"},
         NEW outcome \in ApplyOutcomes,
         bound # "gpu_bound" => ~Spoils(outcome)
  PROVE  \/ AsFound(EngageOn(g, bound, outcome))
         \/ Lowered(EngageOn(g, bound, outcome)) /\ bound \in {"cpu_bound", "balanced"}
<1>1. CASE bound = "gpu_bound"
  BY <1>1 DEF EngageOn
<1>2. CASE bound # "gpu_bound"
  <2>1. EngageOn(g, bound, outcome) = ApplyProfile(g, "power-saver", outcome)
    BY <1>2 DEF EngageOn
  <2>2. outcome \in {"ok", "unreadable", "failed"}
    BY <1>2 DEF ApplyOutcomes, Spoils
  <2>3. PICK x \in {"found", "fraction"} : g = [limit |-> x, snapshot |-> None]
    BY DEF AsFound
  <2>4. \/ ApplyProfile(g, "power-saver", outcome) = [limit |-> "low", snapshot |-> x]
        \/ ApplyProfile(g, "power-saver", outcome) = g
    BY <2>2, <2>3 DEF ApplyProfile, Limit
  <2> QED
    BY <1>2, <2>1, <2>4 DEF AsFound, Lowered
<1> QED
  BY <1>1, <1>2

\* A restore that works hands the limit back, in whole watts.
LEMMA RestoreHandsBack ==
  ASSUME CardInv, ~foreign
  PROVE  AsFound(RestoreSnapshot(gpu, "ok"))
<1>1. CASE AsFound(gpu)
  <2>1. gpu.snapshot = None
    BY <1>1 DEF AsFound
  <2>2. RestoreSnapshot(gpu, "ok") = gpu
    BY <2>1 DEF RestoreSnapshot
  <2> QED
    BY <1>1, <2>2
<1>2. CASE Lowered(gpu)
  <2>1. PICK x \in {"found", "fraction"} : gpu = [limit |-> "low", snapshot |-> x]
    BY <1>2 DEF Lowered
  <2>2. RestoreSnapshot(gpu, "ok") = [limit |-> "found", snapshot |-> None]
    BY <2>1, Words DEF RestoreSnapshot, Rounded
  <2> QED
    BY <2>2 DEF AsFound
<1> QED
  BY <1>1, <1>2 DEF CardInv

LEMMA ReleaseKeepsCard ==
  ASSUME CardInv, NEW command \in GivenCommand, ReleaseCap(command)
  PROVE  CardInv'
<1> SUFFICES ASSUME ~foreign' PROVE AsFound(gpu')
  BY DEF CardInv
<1>1. ~foreign /\ command = "ok" /\ gpu' = RestoreSnapshot(gpu, command)
  BY DEF ReleaseCap
<1> QED
  BY <1>1, RestoreHandsBack

LEMMA TickKeepsCard ==
  ASSUME CardInv, ArbiterTick
  PROVE  CardInv'
<1>1. PICK load \in {"low", "headroom", "gray", "over"},
           bound \in {"gpu_bound", "cpu_bound", "balanced"},
           outcome \in ApplyOutcomes, command \in GivenCommand :
        \/ EngageCap(load, bound, outcome)
        \/ ReleaseInTick(load, bound, command)
        \/ AdjustCap(load, bound, outcome, command)
  BY DEF ArbiterTick
<1>2. CASE EngageCap(load, bound, outcome)
  <2> SUFFICES ASSUME ~foreign'
               PROVE  AsFound(gpu') \/ (Lowered(gpu') /\ cap' \in {"cpu_bound", "balanced"})
    BY DEF CardInv
  <2>1. ~foreign /\ (bound # "gpu_bound" => ~Spoils(outcome)) /\ cap = None
    BY <1>2 DEF EngageCap
  <2>2. AsFound(gpu)
    BY <2>1, Words DEF CardInv
  <2>3. gpu' = EngageOn(gpu, bound, outcome) /\ cap' = bound
    BY <1>2 DEF EngageCap
  <2> QED
    BY <2>1, <2>2, <2>3, EngageKeepsCard
<1>3. CASE ReleaseInTick(load, bound, command)
  BY <1>3, ReleaseKeepsCard DEF ReleaseInTick
<1>4. CASE AdjustCap(load, bound, outcome, command)
  <2> SUFFICES ASSUME ~foreign'
               PROVE  AsFound(gpu') \/ (Lowered(gpu') /\ cap' \in {"cpu_bound", "balanced"})
    BY DEF CardInv
  <2>1. ~foreign /\ (bound # "gpu_bound" => ~Spoils(outcome)) /\ command = "ok"
    BY <1>4 DEF AdjustCap
  <2>2. AsFound(RestoreSnapshot(gpu, command))
    BY <2>1, RestoreHandsBack
  <2>3. gpu' = EngageOn(RestoreSnapshot(gpu, command), bound, outcome) /\ cap' = bound
    BY <1>4 DEF AdjustCap, Adjusted
  <2> QED
    BY <2>1, <2>2, <2>3, EngageKeepsCard
<1> QED
  BY <1>1, <1>2, <1>3, <1>4

\* A setup either completes what the flags say or meets a command that fails.
LEMMA SetupKeepsInterface ==
  ASSUME InterfaceInv, qos \in QosType, loose \in LooseType,
         NEW c \in SetupCommands, Setup(c)
  PROVE  InterfaceInv' /\ qos' \in QosType /\ loose' \in LooseType
<1>1. /\ qos' = [qdisc |-> QdiscAfter(c), table |-> TableAfter(c),
                 installed |-> qos.installed \/ QdiscUp(c),
                 created |-> qos.created \/ TableUp(c)]
      /\ loose' = [qdisc |-> ~QdiscUp(c),
                   table |-> IF Marking(c) THEN ~TableUp(c) ELSE loose.table]
  BY DEF Setup
<1>2. QdiscAfter(c) \in {"found", "default", "dynalloc"}
  BY DEF QdiscAfter, QosType
<1>3. TableAfter(c) => qos.created \/ TableUp(c) \/ loose'.table
  BY <1>1 DEF TableAfter, InterfaceInv
<1>4. TableAfter(c) \in BOOLEAN /\ QdiscUp(c) \in BOOLEAN /\ TableUp(c) \in BOOLEAN
  BY DEF TableAfter, QdiscUp, TableUp, Marking, SetupCommands, QosType
<1>5. qos' \in QosType
  <2> DEFINE i == qos.installed \/ QdiscUp(c)
             j == qos.created \/ TableUp(c)
  <2>1. i \in BOOLEAN /\ j \in BOOLEAN
    BY <1>4 DEF QosType
  <2>2. qos' = [qdisc |-> QdiscAfter(c), table |-> TableAfter(c), installed |-> i, created |-> j]
    BY <1>1
  <2> HIDE DEF i, j
  <2> QED
    BY <1>2, <1>4, <2>1, <2>2 DEF QosType
<1>6. loose' \in LooseType
  <2> DEFINE u == ~QdiscUp(c)
             v == IF Marking(c) THEN ~TableUp(c) ELSE loose.table
  <2>1. u \in BOOLEAN /\ v \in BOOLEAN
    BY <1>4 DEF LooseType
  <2>2. loose' = [qdisc |-> u, table |-> v]
    BY <1>1
  <2> HIDE DEF u, v
  <2> QED
    BY <2>1, <2>2 DEF LooseType
<1>7. /\ qos'.qdisc = QdiscAfter(c) /\ qos'.table = TableAfter(c)
      /\ qos'.installed = (qos.installed \/ QdiscUp(c))
      /\ qos'.created = (qos.created \/ TableUp(c))
      /\ loose'.qdisc = ~QdiscUp(c)
  BY <1>1
<1>8. InterfaceInv'
  BY <1>3, <1>7 DEF InterfaceInv
<1> QED
  BY <1>5, <1>6, <1>8

LEMMA RcNextInv ==
  ASSUME RcInv, [RcNext]_rcVars
  PROVE  RcInv'
<1> USE DEF RcInv
<1>1. CASE ArbiterTick
  <2>1. rcm = "started" /\ UNCHANGED <<qos, setups, rcm, loose, capTimer>>
    BY <1>1 DEF ArbiterTick
  <2>2. InterfaceInv'
    BY <2>1 DEF InterfaceInv
  <2> QED
    BY <1>1, <2>1, <2>2, TickKeepsCard
<1>2. CASE ForceRelease
  <2>1. rcm = "started" /\ UNCHANGED <<qos, setups, rcm, loose, capTimer>>
    BY <1>2 DEF ForceRelease
  <2>2. InterfaceInv'
    BY <2>1 DEF InterfaceInv
  <2> QED
    BY <1>2, <2>1, <2>2, ReleaseKeepsCard DEF ForceRelease
<1>3. CASE ApplyGpuProfile
  BY <1>3 DEF ApplyGpuProfile, CardInv, InterfaceInv
<1>4. CASE ReloadBudget
  BY <1>4 DEF ReloadBudget, CardInv, InterfaceInv
<1>5. CASE SetupNetwork
  <2>1. /\ rcm = "created" /\ setups' = setups + 1
        /\ rcm' = IF setups' = 2 THEN "started" ELSE rcm
        /\ capTimer' = (setups' = 2 /\ capOn)
        /\ UNCHANGED <<gpu, cap, foreign>>
    BY <1>5 DEF SetupNetwork
  <2>2. InterfaceInv' /\ qos' \in QosType /\ loose' \in LooseType
    BY <1>5, SetupKeepsInterface DEF SetupNetwork
  <2>3. CardInv'
    BY <2>1 DEF CardInv
  <2>4. setups' \in Nat /\ (rcm' = "created" => setups' < 2)
    BY <2>1
  <2> QED
    BY <2>1, <2>2, <2>3, <2>4
<1>6. CASE DestroyManager
  <2>1. rcm' = "destroyed" /\ capTimer' = FALSE /\ UNCHANGED setups
    BY <1>6 DEF DestroyManager
  <2>2. cap' = None /\ CardInv'
    <3>1. CASE cap = None
      BY <1>6, <3>1 DEF DestroyManager, CardInv
    <3>2. CASE cap # None
      BY <1>6, <3>2, ReleaseKeepsCard DEF DestroyManager, ReleaseCap
    <3> QED
      BY <3>1, <3>2
  <2>3. PICK drop \in BOOLEAN, delete \in BOOLEAN : TearDown(drop, delete)
    BY <1>6 DEF DestroyManager
  <2>4. /\ qos' \in QosType /\ loose' \in LooseType /\ InterfaceInv'
        /\ qos'.qdisc = "dynalloc" => loose'.qdisc
        /\ qos'.table => loose'.table
    BY <2>3 DEF TearDown, QosType, LooseType, InterfaceInv
  <2> QED
    BY <2>1, <2>2, <2>4
<1>7. CASE UNCHANGED rcVars
  BY <1>7 DEF rcVars, CardInv, InterfaceInv
<1> QED
  BY <1>1, <1>2, <1>3, <1>4, <1>5, <1>6, <1>7 DEF RcNext

\* The resource controllers hand the card's limit back whenever no cap is
\* engaged, and leave no cap behind, nor anything on the interface but what a command
\* that failed has left.
THEOREM ControllersAlwaysLetGo == Spec => []ControllersLetGo
<1>1. Init => RcInv
  BY RcInitInv DEF Init
<1>2. RcInv /\ [Next]_layerVars => RcInv'
  <2>1. [Next]_layerVars => [RcNext]_rcVars
    BY DEF Next, layerVars, OnlyVram, OnlyControllers, OnlyPredictive, OnlyPlugins,
           OnlyRecognition, OnlyEnergy, OnlyConfig, OnlyProfiles
  <2> QED
    BY <2>1, RcNextInv
<1>3. RcInv => ControllersLetGo
  BY Words DEF RcInv, CardInv, AsFound, ControllersLetGo
<1> QED
  BY <1>1, <1>2, <1>3, PTL DEF Spec

-----------------------------------------------------------------------------
\* A plugin comes after those it depends on, and only the last can be on its way
\* out.
SdkInv ==
  /\ loadOrder \in Seq(Directories)
  /\ pluginState \in [Directories -> {"absent", "unloading", "unloaded"} \cup Activations]
  /\ \A i, j \in DOMAIN loadOrder : loadOrder[i] = loadOrder[j] => i = j
  /\ \A i \in DOMAIN loadOrder : \A id \in DependsOn[loadOrder[i]] :
       \E j \in 1..(i - 1) : PluginId[loadOrder[j]] = id
  /\ \A d \in Directories : pluginState[d] = "unloading" =>
       /\ loadOrder # <<>> /\ d = loadOrder[Len(loadOrder)]
       /\ sdk = "destroying"

LEMMA SdkInitInv == SdkInit => SdkInv
BY DEF SdkInit, SdkInv

LEMMA LoadKeepsOrder ==
  ASSUME SdkInv, NEW d \in Directories, NEW activation \in Activations,
         LoadPlugin(d, activation)
  PROVE  SdkInv'
<1> DEFINE n == Len(loadOrder)
<1> USE DEF SdkInv
<1>1. /\ sdk = "bootstrap" /\ sdk' = sdk /\ ~Refused(d)
      /\ loadOrder' = Append(loadOrder, d)
      /\ pluginState' = [pluginState EXCEPT ![d] = activation]
  BY DEF LoadPlugin
<1>2. /\ n \in Nat /\ DOMAIN loadOrder = 1..n /\ DOMAIN loadOrder' = 1..(n + 1)
      /\ loadOrder' \in Seq(Directories)
      /\ \A i \in 1..n : loadOrder'[i] = loadOrder[i]
      /\ loadOrder'[n + 1] = d
  BY <1>1
<1>3. /\ \A i \in 1..n : PluginId[loadOrder[i]] # PluginId[d]
      /\ \A id \in DependsOn[d] : \E j \in 1..n : PluginId[loadOrder[j]] = id
  BY <1>1, <1>2 DEF Refused, Loaded, Ids
<1>4. \A i, j \in DOMAIN loadOrder' : loadOrder'[i] = loadOrder'[j] => i = j
  BY <1>2, <1>3
<1>5. \A i \in DOMAIN loadOrder' : \A id \in DependsOn[loadOrder'[i]] :
        \E j \in 1..(i - 1) : PluginId[loadOrder'[j]] = id
  <2> SUFFICES ASSUME NEW i \in 1..(n + 1), NEW id \in DependsOn[loadOrder'[i]]
               PROVE  \E j \in 1..(i - 1) : PluginId[loadOrder'[j]] = id
    BY <1>2
  <2>1. CASE i \in 1..n
    <3>1. PICK j \in 1..(i - 1) : PluginId[loadOrder[j]] = id
      BY <1>2, <2>1
    <3> QED
      BY <1>2, <2>1, <3>1
  <2>2. CASE i = n + 1
    <3>1. PICK j \in 1..n : PluginId[loadOrder[j]] = id
      BY <1>2, <1>3, <2>2
    <3> QED
      BY <1>2, <2>2, <3>1
  <2> QED
    BY <1>2, <2>1, <2>2
<1>6. /\ pluginState' \in [Directories -> {"absent", "unloading", "unloaded"} \cup Activations]
      /\ \A e \in Directories : pluginState'[e] # "unloading"
  BY <1>1 DEF Activations
<1> QED
  BY <1>2, <1>4, <1>5, <1>6

LEMMA CleanupKeepsOrder ==
  ASSUME SdkInv, NEW d \in Directories, Cleanup(d)
  PROVE  SdkInv'
<1> DEFINE n == Len(loadOrder)
<1> USE DEF SdkInv
<1>1. /\ sdk = "destroying" /\ sdk' = sdk /\ pluginState[d] = "unloading"
      /\ loadOrder' = RemoveAt(loadOrder, Position(d))
      /\ pluginState' = [pluginState EXCEPT ![d] = "unloaded"]
  BY DEF Cleanup
<1>2. loadOrder # <<>> /\ d = loadOrder[n]
  BY <1>1
<1>3. n \in Nat \ {0} /\ DOMAIN loadOrder = 1..n
  BY <1>2
<1>4. Position(d) = n
  BY <1>2, <1>3 DEF Position
<1>5. loadOrder' = SubSeq(loadOrder, 1, n - 1)
  <2>1. SubSeq(loadOrder, n + 1, n) = <<>>
    BY <1>3
  <2>2. SubSeq(loadOrder, 1, n - 1) \in Seq(Directories)
    BY <1>3
  <2>3. \A s \in Seq(Directories) : s \o <<>> = s
    OBVIOUS
  <2> QED
    BY <1>1, <1>4, <2>1, <2>2, <2>3 DEF RemoveAt
<1>6. /\ loadOrder' \in Seq(Directories) /\ DOMAIN loadOrder' = 1..(n - 1)
      /\ \A i \in 1..(n - 1) : loadOrder'[i] = loadOrder[i]
  BY <1>3, <1>5
<1>7. \A i, j \in DOMAIN loadOrder' : loadOrder'[i] = loadOrder'[j] => i = j
  BY <1>3, <1>6
<1>8. \A i \in DOMAIN loadOrder' : \A id \in DependsOn[loadOrder'[i]] :
        \E j \in 1..(i - 1) : PluginId[loadOrder'[j]] = id
  <2> SUFFICES ASSUME NEW i \in DOMAIN loadOrder', NEW id \in DependsOn[loadOrder'[i]]
               PROVE  \E j \in 1..(i - 1) : PluginId[loadOrder'[j]] = id
    OBVIOUS
  <2>1. i \in 1..(n - 1) /\ i \in DOMAIN loadOrder /\ loadOrder'[i] = loadOrder[i]
    BY <1>3, <1>6
  <2>2. PICK j \in 1..(i - 1) : PluginId[loadOrder[j]] = id
    BY <2>1
  <2>3. j \in 1..(n - 1)
    BY <1>3, <2>1
  <2> QED
    BY <1>6, <2>2, <2>3
<1>9. /\ pluginState' \in [Directories -> {"absent", "unloading", "unloaded"} \cup Activations]
      /\ \A e \in Directories : pluginState'[e] # "unloading"
  BY <1>1, <1>2
<1> QED
  BY <1>6, <1>7, <1>8, <1>9

LEMMA SdkNextInv ==
  ASSUME SdkInv, [SdkNext]_sdkVars
  PROVE  SdkInv'
<1>1. ASSUME NEW d \in Directories, NEW activation \in Activations, LoadPlugin(d, activation)
      PROVE  SdkInv'
  BY <1>1, LoadKeepsOrder
<1>2. ASSUME NEW d \in Directories, Cleanup(d) PROVE SdkInv'
  BY <1>2, CleanupKeepsOrder
<1>3. ASSUME NEW d \in Directories, Deactivate(d) PROVE SdkInv'
  <2>1. /\ sdk = "destroying" /\ sdk' = sdk /\ loadOrder # <<>> /\ loadOrder' = loadOrder
        /\ d = loadOrder[Len(loadOrder)]
        /\ pluginState' = [pluginState EXCEPT ![d] = "unloading"]
    BY <1>3 DEF Deactivate, NextToUnload, Last
  <2> QED
    BY <2>1 DEF SdkInv
<1>4. CASE \E d \in Directories : RefuseDirectory(d)
  BY <1>4 DEF RefuseDirectory, SdkInv
<1>5. CASE BootstrapEnds \/ StartDestroy
  BY <1>5 DEF BootstrapEnds, StartDestroy, SdkInv
<1>6. CASE DestroyEnds
  BY <1>6 DEF DestroyEnds, SdkInv
<1>7. CASE UNCHANGED sdkVars
  BY <1>7 DEF sdkVars, SdkInv
<1> QED
  BY <1>1, <1>2, <1>3, <1>4, <1>5, <1>6, <1>7 DEF SdkNext

\* Code of a plugin runs with those it depends on loaded and not yet asked to
\* leave.
THEOREM DependentsAlwaysUnloadedFirst == Spec => []DependentsUnloadedFirst
<1>1. Init => SdkInv
  BY SdkInitInv DEF Init
<1>2. SdkInv /\ [Next]_layerVars => SdkInv'
  <2>1. [Next]_layerVars => [SdkNext]_sdkVars
    BY DEF Next, layerVars, OnlyVram, OnlyControllers, OnlyPredictive, OnlyPlugins,
           OnlyRecognition, OnlyEnergy, OnlyConfig, OnlyProfiles
  <2> QED
    BY <2>1, SdkNextInv
<1>3. SdkInv => DependentsUnloadedFirst
  <2> SUFFICES ASSUME SdkInv, NEW i \in DOMAIN loadOrder, NEW id \in DependsOn[loadOrder[i]]
               PROVE  \E j \in 1..(i - 1) : /\ PluginId[loadOrder[j]] = id
                                            /\ pluginState[loadOrder[j]] # "unloading"
    BY DEF DependentsUnloadedFirst
  <2>1. PICK j \in 1..(i - 1) : PluginId[loadOrder[j]] = id
    BY DEF SdkInv
  <2>2. Len(loadOrder) \in Nat /\ DOMAIN loadOrder = 1..Len(loadOrder)
    BY DEF SdkInv
  <2>3. j # Len(loadOrder) /\ j \in DOMAIN loadOrder /\ Len(loadOrder) \in DOMAIN loadOrder
    BY <2>1, <2>2
  <2>4. loadOrder[j] \in Directories /\ loadOrder[j] # loadOrder[Len(loadOrder)]
    BY <2>3 DEF SdkInv
  <2> QED
    BY <2>1, <2>4 DEF SdkInv
<1> QED
  BY <1>1, <1>2, <1>3, PTL DEF Spec

-----------------------------------------------------------------------------
\* What is put back was in force, and in order.
ConfigInv ==
  /\ config \in [Fields -> Int]
  /\ file \in Files \cup {None}
  /\ \A kept \in snapshots : kept \in [PsiFields -> Int] /\ PsiInOrder(kept)
  /\ ThresholdsInOrder

LEMMA MergedInOrder ==
  ASSUME NEW f \in Files \cup {None}
  PROVE  /\ Merged(f) \in [Fields -> Int]
         /\ Merged(f)["PSI_CPU_WARN"] < Merged(f)["PSI_CPU_CRITICAL"]
         /\ ThermalInOrder(Merged(f))
<1> USE ConfigAssumption DEF ThermalInOrder
<1>1. CASE f = None
  BY <1>1 DEF Merged
<1>2. CASE f # None
  <2> DEFINE v == Validated(f)
             p == PsiReverted(v)
  <2>1. v \in [Fields -> Int]
    BY <1>2 DEF Validated
  <2> HIDE DEF v
  <2>2. p \in [Fields -> Int] /\ p["PSI_CPU_WARN"] < p["PSI_CPU_CRITICAL"]
    BY <2>1 DEF PsiReverted, Overwritten, Defaults, Fields, PsiFields
  <2>3. Merged(f) = ThermalReverted(p)
    BY <1>2 DEF Merged, v
  <2> HIDE DEF p
  <2> QED
    BY <2>2, <2>3 DEF ThermalReverted, Overwritten, Defaults, Fields, PsiFields, ThermalFields
<1> QED
  BY <1>1, <1>2

LEMMA ConfigInitInv == ConfigInit => ConfigInv
<1> SUFFICES ASSUME ConfigInit PROVE ConfigInv
  OBVIOUS
<1>1. PICK psi \in BOOLEAN : config = SelfChecked(Merged(file), psi)
  BY DEF ConfigInit
<1>2. file \in Files \cup {None} /\ snapshots = {}
  BY DEF ConfigInit
<1> DEFINE m == Merged(file)
<1>3. /\ m \in [Fields -> Int] /\ m["PSI_CPU_WARN"] < m["PSI_CPU_CRITICAL"]
      /\ ThermalInOrder(m)
  BY <1>2, MergedInOrder
<1> HIDE DEF m
<1>4. config = SelfChecked(m, psi)
  BY <1>1 DEF m
<1> QED
  BY <1>2, <1>3, <1>4
     DEF ConfigInv, SelfChecked, Overwritten, Unreachable, ThresholdsInOrder, PsiInOrder,
         ThermalInOrder, Fields, PsiFields, ThermalFields

LEMMA ConfigNextInv ==
  ASSUME ConfigInv, ConfigNext
  PROVE  ConfigInv'
<1> USE ConfigAssumption DEF ConfigInv, ThresholdsInOrder
<1>1. CASE EditConfig
  BY <1>1 DEF EditConfig
<1>2. CASE HotReload
  <2>1. CASE file = None
    BY <1>2, <2>1 DEF HotReload
  <2>2. CASE file # None
    <3>1. config' = [k \in Fields |-> Merged(file)[k]]
      BY <1>2, <2>2 DEF HotReload, HotReloadable
    <3>2. /\ Merged(file) \in [Fields -> Int]
          /\ Merged(file)["PSI_CPU_WARN"] < Merged(file)["PSI_CPU_CRITICAL"]
          /\ ThermalInOrder(Merged(file))
      BY MergedInOrder
    <3>3. config' = Merged(file)
      BY <3>1, <3>2
    <3> QED
      BY <1>2, <3>2, <3>3 DEF HotReload, PsiInOrder
  <2> QED
    BY <2>1, <2>2
<1>3. CASE ApplyThermalProfile
  <2>1. PICK preset \in ThermalPresets \cup {Defaults(ThermalFields)} :
          config' = Overwritten(config, preset)
    BY <1>3 DEF ApplyThermalProfile
  <2>2. preset \in [ThermalFields -> Int] /\ ThermalInOrder(preset)
    BY DEF Defaults, ThermalInOrder, ThermalFields, Fields, PsiFields
  <2>3. config' \in [Fields -> Int] /\ PsiInOrder(config') /\ ThermalInOrder(config')
    BY <2>1, <2>2 DEF Overwritten, PsiInOrder, ThermalInOrder, ThermalFields, Fields, PsiFields
  <2> QED
    BY <1>3, <2>3 DEF ApplyThermalProfile
<1>4. CASE SetSchedulerMode
  <2>1. PICK mode \in Modes : config' = Overwritten(config, mode)
    BY <1>4 DEF SetSchedulerMode
  <2>2. mode \in [PsiFields -> Int] /\ PsiInOrder(mode)
    BY DEF PsiInOrder
  <2>3. config' \in [Fields -> Int] /\ PsiInOrder(config') /\ ThermalInOrder(config')
    BY <2>1, <2>2 DEF Overwritten, PsiInOrder, ThermalInOrder, Fields, PsiFields
  <2>4. Snapshot \in [PsiFields -> Int] /\ PsiInOrder(Snapshot)
    BY DEF Snapshot, PsiInOrder, Fields, PsiFields
  <2>5. snapshots' \subseteq snapshots \cup {Snapshot} /\ file' = file
    BY <1>4 DEF SetSchedulerMode
  <2> QED
    BY <2>3, <2>4, <2>5
<1>5. CASE ProfileSettles
  <2>1. PICK kept \in snapshots, failed \in BOOLEAN :
          /\ snapshots' = snapshots \ {kept}
          /\ config' = IF failed THEN Overwritten(config, kept) ELSE config
    BY <1>5 DEF ProfileSettles
  <2>2. config' \in [Fields -> Int] /\ PsiInOrder(config') /\ ThermalInOrder(config')
    BY <2>1 DEF Overwritten, PsiInOrder, ThermalInOrder, Fields, PsiFields
  <2> QED
    BY <1>5, <2>1, <2>2 DEF ProfileSettles
<1> QED
  BY <1>1, <1>2, <1>3, <1>4, <1>5 DEF ConfigNext

\* The thresholds of a pair stay in order, for any files, presets and modes.
THEOREM ThresholdsAlwaysInOrder == Spec => []ThresholdsInOrder
<1>1. Init => ConfigInv
  BY ConfigInitInv DEF Init
<1>2. ConfigInv /\ [Next]_layerVars => ConfigInv'
  <2> SUFFICES ASSUME ConfigInv, [Next]_layerVars PROVE ConfigInv'
    OBVIOUS
  <2>1. CASE ConfigNext
    BY <2>1, ConfigNextInv
  <2>2. CASE UNCHANGED configVars
    BY <2>2 DEF configVars, ConfigInv, ThresholdsInOrder, PsiInOrder, ThermalInOrder
  <2> QED
    BY <2>1, <2>2 DEF Next, OnlyVram, OnlyControllers, OnlyPredictive, OnlyPlugins,
       OnlyRecognition, OnlyEnergy, OnlyProfiles, layerVars, configVars
<1>3. ConfigInv => ThresholdsInOrder
  BY DEF ConfigInv
<1> QED
  BY <1>1, <1>2, <1>3, PTL DEF Spec

-----------------------------------------------------------------------------
(***************************************************************************)
(* The energy that is shared out.  Sums are taken one amount after the     *)
(* other, as the loops of the code take them.                              *)
(***************************************************************************)
Amounts(s) == Len(s) \in Nat /\ \A i \in 1..Len(s) : s[i] \in Int

IsSum(sum, s) ==
  /\ sum \in [0..Len(s) -> Int] /\ sum[0] = 0
  /\ \A n \in 1..Len(s) : sum[n] = sum[n - 1] + s[n]

LEMMA AddedUp ==
  ASSUME NEW s, Amounts(s)
  PROVE  \E sum : IsSum(sum, s) /\ Added(s) = sum[Len(s)]
<1> DEFINE N == Len(s)
           step == [k \in 1..N |-> [x \in Int |-> x + s[k]]]
           Loop(f) == [n \in 0..N |-> IF n = 0 THEN 0 ELSE f[n - 1] + s[n]]
<1>1. N \in Nat /\ step \in [1..N -> [Int -> Int]] /\ 0 \in Int
  BY DEF Amounts
<1>2. PICK f \in [0..N -> Int] : f[0] = 0 /\ \A k \in 1..N : f[k] = step[k][f[k - 1]]
  <2> DEFINE S == Int
             base == 0
  <2>1. N \in Nat /\ step \in [1..N -> [S -> S]] /\ base \in S
    BY <1>1
  <2> HIDE DEF step, N, S, base
  <2>2. \E f \in [0..N -> S] : f[0] = base /\ \A k \in 1..N : f[k] = step[k][f[k - 1]]
    BY <2>1, LoopRuns
  <2> QED
    BY <2>2 DEF S, base
<1>3. \A k \in 1..N : f[k] = f[k - 1] + s[k]
  <2> SUFFICES ASSUME NEW k \in 1..N PROVE f[k] = f[k - 1] + s[k]
    OBVIOUS
  <2>1. k - 1 \in 0..N
    BY <1>1
  <2> QED
    BY <1>2, <2>1
<1>4. f = Loop(f)
  BY <1>1, <1>2, <1>3
<1> DEFINE g == CHOOSE g : g = Loop(g)
<1>5. g = Loop(g)
  BY <1>4
<1>6. Added(s) = g[N]
  BY Zenon DEF Added
<1> HIDE DEF g
<1> DEFINE Same == {n \in Nat : n <= N => g[n] = f[n]}
<1>7. 0 \in Same
  BY <1>1, <1>2, <1>5
<1>8. \A n \in Nat : n \in Same => n + 1 \in Same
  <2> SUFFICES ASSUME NEW n \in Nat, n + 1 <= N, g[n] = f[n] PROVE g[n + 1] = f[n + 1]
    BY <1>1
  <2>1. n + 1 \in 0..N /\ n + 1 \in 1..N /\ n + 1 # 0 /\ (n + 1) - 1 = n
    BY <1>1
  <2> QED
    BY <1>3, <1>5, <2>1
<1>9. Nat \subseteq Same
  <2> HIDE DEF Same
  <2> QED
    BY <1>7, <1>8, Induct
<1>10. IsSum(f, s) /\ Added(s) = f[Len(s)]
  BY <1>1, <1>2, <1>3, <1>6, <1>9 DEF IsSum
<1> QED
  BY <1>10

LEMMA AddedIsNumber ==
  ASSUME NEW s, Amounts(s)
  PROVE  Added(s) \in Int
<1>1. PICK sum : IsSum(sum, s) /\ Added(s) = sum[Len(s)]
  BY AddedUp
<1> QED
  BY <1>1 DEF IsSum, Amounts

\* One more amount at the end, one less at the front, and one that grows.
LEMMA AddedLonger ==
  ASSUME NEW s, Amounts(s), NEW t, Amounts(t), Len(t) = Len(s) + 1,
         \A i \in 1..Len(s) : t[i] = s[i]
  PROVE  Added(t) = Added(s) + t[Len(t)]
<1>1. PICK f : IsSum(f, s) /\ Added(s) = f[Len(s)]
  BY AddedUp
<1>2. PICK g : IsSum(g, t) /\ Added(t) = g[Len(t)]
  BY AddedUp
<1>3. Len(s) \in Nat /\ Len(t) \in 1..Len(t) /\ Len(t) - 1 = Len(s)
  BY DEF Amounts
<1> DEFINE Same == {n \in Nat : n <= Len(s) => g[n] = f[n]}
<1>4. 0 \in Same
  BY <1>1, <1>2 DEF IsSum
<1>5. \A n \in Nat : n \in Same => n + 1 \in Same
  <2> SUFFICES ASSUME NEW n \in Nat, n + 1 <= Len(s), g[n] = f[n] PROVE g[n + 1] = f[n + 1]
    BY <1>3
  <2>1. n + 1 \in 1..Len(s) /\ n + 1 \in 1..Len(t) /\ (n + 1) - 1 = n
    BY <1>3
  <2> QED
    BY <1>1, <1>2, <2>1 DEF IsSum
<1>6. Nat \subseteq Same
  <2> HIDE DEF Same
  <2> QED
    BY <1>4, <1>5, Induct
<1>7. g[Len(s)] = f[Len(s)]
  BY <1>3, <1>6
<1>8. g[Len(t)] = g[Len(t) - 1] + t[Len(t)]
  BY <1>2, <1>3 DEF IsSum
<1> QED
  BY <1>1, <1>2, <1>3, <1>7, <1>8

LEMMA AddedShorter ==
  ASSUME NEW s, Amounts(s), NEW t, Amounts(t), Len(s) = Len(t) + 1,
         \A i \in 1..Len(t) : t[i] = s[i + 1]
  PROVE  Added(s) = Added(t) + s[1]
<1>1. PICK f : IsSum(f, s) /\ Added(s) = f[Len(s)]
  BY AddedUp
<1>2. PICK g : IsSum(g, t) /\ Added(t) = g[Len(t)]
  BY AddedUp
<1>3. Len(t) \in Nat /\ Len(s) \in Nat /\ 1 \in 1..Len(s) /\ s[1] \in Int
  BY DEF Amounts
<1> DEFINE Same == {n \in Nat : n <= Len(t) => f[n + 1] = g[n] + s[1]}
<1>4. 0 \in Same
  <2>1. f[1] = f[1 - 1] + s[1] /\ 1 - 1 = 0 /\ 0 + 1 = 1
    BY <1>1, <1>3 DEF IsSum
  <2> QED
    BY <1>1, <1>2, <2>1 DEF IsSum
<1>5. \A n \in Nat : n \in Same => n + 1 \in Same
  <2> SUFFICES ASSUME NEW n \in Nat, n + 1 <= Len(t), f[n + 1] = g[n] + s[1]
               PROVE  f[(n + 1) + 1] = g[n + 1] + s[1]
    BY <1>3
  <2>1. /\ n + 1 \in 1..Len(t) /\ (n + 1) + 1 \in 1..Len(s)
        /\ (n + 1) - 1 = n /\ ((n + 1) + 1) - 1 = n + 1
        /\ n \in 0..Len(t)
    BY <1>3
  <2>2. /\ f[(n + 1) + 1] = f[n + 1] + s[(n + 1) + 1]
        /\ g[n + 1] = g[n] + t[n + 1]
        /\ t[n + 1] = s[(n + 1) + 1]
        /\ g[n] \in Int /\ t[n + 1] \in Int
    BY <1>1, <1>2, <2>1 DEF IsSum, Amounts
  <2> QED
    BY <1>3, <2>2
<1>6. Nat \subseteq Same
  <2> HIDE DEF Same
  <2> QED
    BY <1>4, <1>5, Induct
<1>7. f[Len(t) + 1] = g[Len(t)] + s[1]
  BY <1>3, <1>6
<1> QED
  BY <1>1, <1>2, <1>7

LEMMA AddedGrown ==
  ASSUME NEW s, Amounts(s), NEW t, Amounts(t), Len(t) = Len(s), NEW k \in 1..Len(s),
         NEW d \in Int, t[k] = s[k] + d, \A i \in 1..Len(s) : i # k => t[i] = s[i]
  PROVE  Added(t) = Added(s) + d
<1>1. PICK f : IsSum(f, s) /\ Added(s) = f[Len(s)]
  BY AddedUp
<1>2. PICK g : IsSum(g, t) /\ Added(t) = g[Len(t)]
  BY AddedUp
<1>3. Len(s) \in Nat
  BY DEF Amounts
<1> DEFINE Same == {n \in Nat : n <= Len(s) => g[n] = f[n] + (IF k <= n THEN d ELSE 0)}
<1>4. 0 \in Same
  BY <1>1, <1>2 DEF IsSum
<1>5. \A n \in Nat : n \in Same => n + 1 \in Same
  <2> SUFFICES ASSUME NEW n \in Nat, n + 1 <= Len(s),
                      g[n] = f[n] + (IF k <= n THEN d ELSE 0)
               PROVE  g[n + 1] = f[n + 1] + (IF k <= n + 1 THEN d ELSE 0)
    BY <1>3
  <2>1. n + 1 \in 1..Len(s) /\ (n + 1) - 1 = n /\ n \in 0..Len(s)
    BY <1>3
  <2>2. /\ f[n + 1] = f[n] + s[n + 1] /\ g[n + 1] = g[n] + t[n + 1]
        /\ f[n] \in Int /\ s[n + 1] \in Int
    BY <1>1, <1>2, <2>1 DEF IsSum, Amounts
  <2>3. CASE k = n + 1
    BY <2>2, <2>3
  <2>4. CASE k # n + 1
    <3>1. t[n + 1] = s[n + 1] /\ (k <= n <=> k <= n + 1)
      BY <2>1, <2>4
    <3> QED
      BY <2>2, <3>1
  <2> QED
    BY <2>3, <2>4
<1>6. Nat \subseteq Same
  <2> HIDE DEF Same
  <2> QED
    BY <1>4, <1>5, Induct
<1>7. g[Len(s)] = f[Len(s)] + d
  BY <1>3, <1>6
<1> QED
  BY <1>1, <1>2, <1>7

\* Accounts: one for an application.
Account1 == [comm : Apps, joules : Nat]
Accounts == {a \in Seq(Account1) : \A i, j \in DOMAIN a : a[i].comm = a[j].comm => i = j}
Joules(a) == [i \in DOMAIN a |-> a[i].joules]

LEMMA AccountsAreAmounts ==
  ASSUME NEW a \in Accounts
  PROVE  /\ Amounts(Joules(a)) /\ Len(Joules(a)) = Len(a) /\ Len(a) \in Nat
         /\ DOMAIN a = 1..Len(a)
         /\ \A i \in 1..Len(a) : a[i] \in Account1 /\ Joules(a)[i] = a[i].joules
<1>1. a \in Seq(Account1)
  BY DEF Accounts
<1>2. Len(a) \in Nat /\ DOMAIN a = 1..Len(a) /\ \A i \in 1..Len(a) : a[i] \in Account1
  BY <1>1
<1> DEFINE f == Joules(a)
<1>3. f = [i \in 1..Len(a) |-> f[i]] /\ \A i \in 1..Len(a) : f[i] = a[i].joules
  BY <1>2 DEF Joules
<1> HIDE DEF f
<1>4. Len(f) = Len(a)
  BY <1>2, <1>3, ListOf
<1>5. \A i \in 1..Len(a) : f[i] \in Int
  BY <1>2, <1>3 DEF Account1
<1>6. Amounts(f)
  BY <1>2, <1>4, <1>5 DEF Amounts
<1> QED
  BY <1>2, <1>3, <1>4, <1>6 DEF f

\* What is attributed to one application is all that the accounts grow by; when one
\* is dropped they may even shrink.
LEMMA AttributeAdds ==
  ASSUME NEW a \in Accounts, NEW comm \in Apps, NEW joules \in Nat
  PROVE  /\ Attribute(a, comm, joules) \in Accounts
         /\ Added(Joules(Attribute(a, comm, joules))) <= Added(Joules(a)) + joules
<1> DEFINE b == Attribute(a, comm, joules)
<1>1. /\ Amounts(Joules(a)) /\ Len(Joules(a)) = Len(a) /\ Len(a) \in Nat
      /\ DOMAIN a = 1..Len(a) /\ a \in Seq(Account1)
      /\ \A i \in 1..Len(a) : a[i] \in Account1 /\ Joules(a)[i] = a[i].joules
      /\ \A i, j \in DOMAIN a : a[i].comm = a[j].comm => i = j
  BY AccountsAreAmounts DEF Accounts
<1>2. CASE \E i \in DOMAIN a : a[i].comm = comm
  <2>1. PICK k \in 1..Len(a) : a[k].comm = comm
    BY <1>1, <1>2
  <2> DEFINE c == [i \in DOMAIN a |-> IF a[i].comm = comm
                                        THEN [a[i] EXCEPT !.joules = a[i].joules + joules]
                                        ELSE a[i]]
  <2>2. b = c
    BY <1>2 DEF Attribute
  <2>3. DOMAIN c = 1..Len(a) /\ c = [i \in 1..Len(a) |-> c[i]]
    BY <1>1
  <2>4. \A i \in 1..Len(a) :
          c[i] = IF i = k THEN [a[i] EXCEPT !.joules = a[i].joules + joules] ELSE a[i]
    BY <1>1, <2>1
  <2> HIDE DEF c
  <2>5. \A i \in 1..Len(a) : /\ c[i] \in Account1 /\ c[i].comm = a[i].comm
                             /\ c[i].joules = a[i].joules + (IF i = k THEN joules ELSE 0)
    <3> SUFFICES ASSUME NEW i \in 1..Len(a)
                 PROVE  /\ c[i] \in Account1 /\ c[i].comm = a[i].comm
                        /\ c[i].joules = a[i].joules + (IF i = k THEN joules ELSE 0)
      OBVIOUS
    <3> DEFINE x == a[i]
               y == c[i]
    <3>1. x \in Account1
      BY <1>1
    <3>2. y = IF i = k THEN [x EXCEPT !.joules = x.joules + joules] ELSE x
      BY <2>4
    <3> HIDE DEF x, y
    <3>3. y \in Account1 /\ y.comm = x.comm /\ y.joules = x.joules + (IF i = k THEN joules ELSE 0)
      <4>1. CASE i = k
        BY <3>1, <3>2, <4>1 DEF Account1
      <4>2. CASE i # k
        BY <3>1, <3>2, <4>2 DEF Account1
      <4> QED
        BY <4>1, <4>2
    <3> QED
      BY <3>3 DEF x, y
  <2>6. c \in Seq(Account1) /\ Len(c) = Len(a)
    <3>1. c \in [1..Len(a) -> Account1]
      BY <2>3, <2>5
    <3> QED
      BY <1>1, <2>3, <3>1, IsASeq, ListOf
  <2>7. c \in Accounts
    BY <1>1, <2>3, <2>5, <2>6 DEF Accounts
  <2>8. /\ Amounts(Joules(c)) /\ Len(Joules(c)) = Len(c)
        /\ \A i \in 1..Len(c) : Joules(c)[i] = c[i].joules
    BY <2>7, AccountsAreAmounts
  <2>9. \A i \in 1..Len(a) : a[i].joules \in Int
    BY <1>1 DEF Account1
  <2> DEFINE s == Joules(a)
             t == Joules(c)
  <2>10. /\ Amounts(s) /\ Amounts(t) /\ Len(t) = Len(s) /\ k \in 1..Len(s)
         /\ t[k] = s[k] + joules /\ \A i \in 1..Len(s) : i # k => t[i] = s[i]
    BY <1>1, <2>1, <2>5, <2>6, <2>8, <2>9
  <2> HIDE DEF s, t
  <2>11. Added(t) = Added(s) + joules /\ Added(s) \in Int
    BY <2>10, AddedGrown, AddedIsNumber
  <2>12. c \in Accounts /\ Added(Joules(c)) <= Added(Joules(a)) + joules
    BY <2>7, <2>11 DEF s, t
  <2> QED
    BY <2>2, <2>12
<1>3. CASE ~(\E i \in DOMAIN a : a[i].comm = comm)
  <2> DEFINE x == [comm |-> comm, joules |-> joules]
             grown == Append(a, x)
             rest == Tail(grown)
  <2>1. x \in Account1 /\ x.comm = comm /\ x.joules = joules
    BY DEF Account1
  <2>2. b = IF Len(grown) > MaxApps THEN rest ELSE grown
    BY <1>3 DEF Attribute
  <2> HIDE DEF x
  <2>3. /\ grown \in Seq(Account1) /\ Len(grown) = Len(a) + 1
        /\ \A i \in 1..Len(a) : grown[i] = a[i]
        /\ grown[Len(a) + 1] = x /\ grown # <<>>
    BY <1>1, <2>1, AppendProperties
  <2> HIDE DEF grown
  <2>4. \A i \in 1..Len(grown) : i \in 1..Len(a) \/ i = Len(a) + 1
    BY <1>1, <2>3
  <2>5. DOMAIN grown = 1..Len(grown)
    BY <2>3
  <2>6. \A i, j \in DOMAIN grown : grown[i].comm = grown[j].comm => i = j
    BY <1>1, <1>3, <2>1, <2>3, <2>4, <2>5
  <2>7. grown \in Accounts
    BY <2>3, <2>6 DEF Accounts
  <2>8. /\ Amounts(Joules(grown)) /\ Len(Joules(grown)) = Len(grown)
        /\ \A i \in 1..Len(grown) : Joules(grown)[i] = grown[i].joules /\ grown[i] \in Account1
    BY <2>7, AccountsAreAmounts
  <2>9. Added(Joules(grown)) = Added(Joules(a)) + joules
    <3> DEFINE s == Joules(a)
               t == Joules(grown)
    <3>1. /\ Amounts(s) /\ Amounts(t) /\ Len(t) = Len(s) + 1
          /\ \A i \in 1..Len(s) : t[i] = s[i]
          /\ t[Len(t)] = joules
      BY <1>1, <2>1, <2>3, <2>8
    <3> HIDE DEF s, t
    <3>2. Added(t) = Added(s) + joules
      BY <3>1, AddedLonger
    <3> QED
      BY <3>2 DEF s, t
  <2>10. /\ rest \in Seq(Account1) /\ Len(rest) = Len(a)
         /\ \A i \in 1..Len(rest) : rest[i] = grown[i + 1]
    BY <1>1, <2>3, HeadTailProperties
  <2> HIDE DEF rest
  <2>11. DOMAIN rest = 1..Len(rest)
    BY <2>10
  <2>12. \A i \in 1..Len(rest) : i + 1 \in 1..Len(grown)
    BY <1>1, <2>3, <2>10
  <2>13. \A i, j \in DOMAIN rest : rest[i].comm = rest[j].comm => i = j
    <3> SUFFICES ASSUME NEW i \in DOMAIN rest, NEW j \in DOMAIN rest,
                        rest[i].comm = rest[j].comm
                 PROVE  i = j
      OBVIOUS
    <3>1. i + 1 \in DOMAIN grown /\ j + 1 \in DOMAIN grown /\ grown[i + 1].comm = grown[j + 1].comm
      BY <2>5, <2>10, <2>11, <2>12
    <3>2. i + 1 = j + 1
      BY <2>6, <3>1
    <3> QED
      BY <1>1, <2>10, <2>11, <3>2
  <2>14. rest \in Accounts
    BY <2>10, <2>13 DEF Accounts
  <2>15. /\ Amounts(Joules(rest)) /\ Len(Joules(rest)) = Len(rest)
         /\ \A i \in 1..Len(rest) : Joules(rest)[i] = rest[i].joules
    BY <2>14, AccountsAreAmounts
  <2>16. Added(Joules(rest)) <= Added(Joules(grown))
    <3> DEFINE s == Joules(grown)
               t == Joules(rest)
    <3>1. /\ Amounts(s) /\ Amounts(t) /\ Len(s) = Len(t) + 1
          /\ \A i \in 1..Len(t) : t[i] = s[i + 1]
      BY <1>1, <2>3, <2>8, <2>10, <2>12, <2>15
    <3>2. s[1] \in Nat
      <4>1. 1 \in 1..Len(grown)
        BY <1>1, <2>3
      <4> QED
        BY <2>8, <4>1 DEF Account1
    <3> HIDE DEF s, t
    <3>3. Added(s) = Added(t) + s[1] /\ Added(t) \in Int
      BY <3>1, AddedShorter, AddedIsNumber
    <3>4. Added(t) <= Added(s)
      BY <3>2, <3>3
    <3> QED
      BY <3>4 DEF s, t
  <2>17. Added(Joules(a)) \in Int /\ Added(Joules(grown)) \in Int /\ Added(Joules(rest)) \in Int
    BY <1>1, <2>8, <2>15, AddedIsNumber
  <2>18. /\ b \in Accounts
         /\ Added(Joules(b)) = Added(Joules(grown)) \/ Added(Joules(b)) = Added(Joules(rest))
    BY <2>2, <2>7, <2>14
  <2> HIDE DEF b
  <2>19. b \in Accounts /\ Added(Joules(b)) <= Added(Joules(a)) + joules
    BY <2>9, <2>16, <2>17, <2>18
  <2> QED
    BY <2>19 DEF b
<1> QED
  BY <1>2, <1>3

\* All the turns of the loop together share out what there is.
LEMMA SharesAdd ==
  ASSUME ledger \in Accounts, NEW delta \in Nat, NEW order \in SetToSeqs(Apps),
         NEW times \in Times(order)
  PROVE  /\ SharedOut(delta, times, order) \in Accounts
         /\ Added(Joules(SharedOut(delta, times, order)))
              <= Added(Joules(ledger)) + delta * TotalTicks
<1> DEFINE N == Len(order)
           amounts == [i \in DOMAIN order |-> times[order[i]]]
           After(k, a) == IF times[order[k]] = 0 THEN a
                          ELSE Attribute(a, order[k], delta * times[order[k]])
           Loop(f) == [n \in 0..N |-> IF n = 0 THEN ledger ELSE After(n, f[n - 1])]
           step == [k \in 1..N |-> [a \in Accounts |-> After(k, a)]]
<1>1. /\ N \in Nat /\ order \in [1..N -> Apps] /\ DOMAIN order = 1..N
  <2>1. Cardinality(Apps) \in Nat
    BY EnergyAssumption, FS_CardinalityType
  <2>2. order \in [1..Cardinality(Apps) -> Apps]
    BY DEF SetToSeqs
  <2> QED
    BY <2>1, <2>2
<1>2. /\ times \in [Apps -> 0..TotalTicks] /\ Added(amounts) = TotalTicks
      /\ TotalTicks \in Nat
  BY EnergyAssumption DEF Times
<1>3. \A k \in 1..N : order[k] \in Apps /\ times[order[k]] \in Nat
  BY <1>1, <1>2
<1>4. Amounts(amounts) /\ Len(amounts) = N /\ \A k \in 1..N : amounts[k] = times[order[k]]
  <2>1. amounts = [i \in 1..N |-> amounts[i]] /\ \A k \in 1..N : amounts[k] = times[order[k]]
    BY <1>1
  <2> HIDE DEF amounts
  <2>2. Len(amounts) = N
    BY <1>1, <2>1, ListOf
  <2> QED
    BY <1>1, <1>3, <2>1, <2>2 DEF Amounts
<1>5. PICK sum : IsSum(sum, amounts) /\ TotalTicks = sum[N]
  <2> HIDE DEF amounts
  <2> QED
    BY <1>2, <1>4, AddedUp
<1> HIDE DEF amounts
<1>6. ASSUME NEW k \in 1..N, NEW a \in Accounts
      PROVE  /\ After(k, a) \in Accounts
             /\ Added(Joules(After(k, a))) <= Added(Joules(a)) + delta * amounts[k]
             /\ Added(Joules(a)) \in Int /\ Added(Joules(After(k, a))) \in Int
             /\ delta * amounts[k] \in Nat
  <2> DEFINE comm == order[k]
             joules == delta * times[order[k]]
  <2>1. comm \in Apps /\ joules \in Nat /\ joules = delta * amounts[k]
    BY <1>3, <1>4
  <2>2. times[order[k]] = 0 => joules = 0
    OBVIOUS
  <2> HIDE DEF comm, joules
  <2>3. /\ Attribute(a, comm, joules) \in Accounts
        /\ Added(Joules(Attribute(a, comm, joules))) <= Added(Joules(a)) + joules
    BY <2>1, AttributeAdds
  <2>4. /\ Added(Joules(a)) \in Int
        /\ Added(Joules(Attribute(a, comm, joules))) \in Int
    BY <2>3, AccountsAreAmounts, AddedIsNumber
  <2>5. (After(k, a) = a /\ joules = 0) \/ After(k, a) = Attribute(a, comm, joules)
    BY <2>2 DEF comm, joules
  <2> HIDE DEF After
  <2>6. CASE After(k, a) = a /\ joules = 0
    BY <2>1, <2>4, <2>6
  <2>7. CASE After(k, a) = Attribute(a, comm, joules)
    BY <2>1, <2>3, <2>4, <2>7
  <2> QED
    BY <2>5, <2>6, <2>7
<1> HIDE DEF After
<1>7. step \in [1..N -> [Accounts -> Accounts]]
  BY <1>6
<1>8. PICK f \in [0..N -> Accounts] : f[0] = ledger /\ \A k \in 1..N : f[k] = step[k][f[k - 1]]
  <2> DEFINE S == Accounts
             base == ledger
  <2>1. N \in Nat /\ step \in [1..N -> [S -> S]] /\ base \in S
    BY <1>1, <1>7
  <2> HIDE DEF step, N, S, base
  <2>2. \E f \in [0..N -> S] : f[0] = base /\ \A k \in 1..N : f[k] = step[k][f[k - 1]]
    BY <2>1, LoopRuns
  <2> QED
    BY <2>2 DEF S, base
<1>9. \A k \in 1..N : f[k - 1] \in Accounts /\ f[k] = After(k, f[k - 1])
  <2> SUFFICES ASSUME NEW k \in 1..N PROVE f[k - 1] \in Accounts /\ f[k] = After(k, f[k - 1])
    OBVIOUS
  <2>1. k - 1 \in 0..N
    BY <1>1
  <2> QED
    BY <1>8, <2>1
<1>10. f = Loop(f)
  BY <1>1, <1>8, <1>9
<1> DEFINE g == CHOOSE g : g = Loop(g)
<1>11. g = Loop(g)
  BY <1>10
<1>12. SharedOut(delta, times, order) = g[N]
  BY Zenon DEF SharedOut, After
<1> HIDE DEF g
<1> DEFINE Bounded == {n \in Nat : n <= N =>
                         /\ g[n] = f[n]
                         /\ Added(Joules(g[n])) <= Added(Joules(ledger)) + delta * sum[n]}
<1>13. 0 \in Bounded
  <2>1. g[0] = ledger /\ f[0] = ledger /\ sum[0] = 0
    BY <1>1, <1>5, <1>8, <1>11 DEF IsSum
  <2>2. Added(Joules(ledger)) \in Int
    BY AccountsAreAmounts, AddedIsNumber
  <2> QED
    BY <2>1, <2>2
<1>14. \A n \in Nat : n \in Bounded => n + 1 \in Bounded
  <2> SUFFICES ASSUME NEW n \in Nat, n + 1 <= N, g[n] = f[n],
                      Added(Joules(g[n])) <= Added(Joules(ledger)) + delta * sum[n]
               PROVE  /\ g[n + 1] = f[n + 1]
                      /\ Added(Joules(g[n + 1])) <= Added(Joules(ledger)) + delta * sum[n + 1]
    BY <1>1
  <2>1. n + 1 \in 0..N /\ n + 1 \in 1..N /\ n \in 0..N /\ n + 1 # 0 /\ (n + 1) - 1 = n
    BY <1>1
  <2>2. g[n + 1] = f[n + 1]
    BY <1>9, <1>11, <2>1
  <2>3. f[n + 1] = After(n + 1, f[n]) /\ f[n] \in Accounts
    BY <1>9, <2>1
  <2>4. /\ Added(Joules(f[n + 1])) <= Added(Joules(f[n])) + delta * amounts[n + 1]
        /\ Added(Joules(f[n])) \in Int /\ Added(Joules(f[n + 1])) \in Int
    BY <1>6, <2>1, <2>3
  <2>5. /\ sum[n + 1] = sum[n] + amounts[n + 1]
        /\ sum[n] \in Int /\ amounts[n + 1] \in Int
    BY <1>4, <1>5, <2>1 DEF IsSum, Amounts
  <2>6. delta * sum[n + 1] = delta * sum[n] + delta * amounts[n + 1]
    BY <2>5
  <2>7. Added(Joules(ledger)) \in Int
    BY AccountsAreAmounts, AddedIsNumber
  <2>8. delta * sum[n] \in Int /\ delta * amounts[n + 1] \in Int
    BY <2>5
  <2> QED
    BY <2>2, <2>4, <2>6, <2>7, <2>8
<1>15. Nat \subseteq Bounded
  <2> HIDE DEF Bounded
  <2> QED
    BY <1>13, <1>14, Induct
<1> QED
  BY <1>1, <1>5, <1>8, <1>12, <1>15

\* What the counter shows since the last sample is what was used, but for whole turns
\* of it.
Shown(before, now) == IF now < before THEN now - before + Overflow ELSE now - before

EnergyInv ==
  /\ counter \in 0..(Overflow - 1) /\ prev \in 0..(Overflow - 1) \cup {None}
  /\ total \in Nat /\ ledger \in Accounts /\ missed \in BOOLEAN
  /\ spent \in Nat /\ pending \in 0..spent
  /\ IF prev = None THEN spent = 0
     ELSE /\ Shown(prev, counter) <= pending
          /\ pending < Overflow => Shown(prev, counter) = pending
  /\ total <= (spent - pending) * TotalTicks
  /\ ~missed => total = (spent - pending) * TotalTicks
  /\ Added(Joules(ledger)) <= total

LEMMA EnergyInitInv == EnergyInit => EnergyInv
<1> SUFFICES ASSUME EnergyInit PROVE EnergyInv
  OBVIOUS
<1>1. Overflow \in Nat \ {0} /\ TotalTicks \in Nat
  BY EnergyAssumption
<1>2. ledger \in Accounts /\ Len(ledger) = 0
  BY EmptySeq DEF EnergyInit, Accounts
<1>3. Amounts(Joules(ledger)) /\ Len(Joules(ledger)) = 0
  BY <1>2, AccountsAreAmounts
<1>4. Added(Joules(ledger)) = 0
  BY <1>3, AddedUp DEF IsSum
<1>5. /\ counter = 0 /\ prev = None /\ total = 0
      /\ spent = 0 /\ pending = 0 /\ missed = FALSE
  BY DEF EnergyInit
<1>6. 0 \in 0..(Overflow - 1)
  BY <1>1
<1>7. (0 - 0) * TotalTicks = 0
  BY <1>1
<1>8. /\ total <= (spent - pending) * TotalTicks
      /\ ~missed => total = (spent - pending) * TotalTicks
  BY <1>5, <1>7
<1>9. /\ counter \in 0..(Overflow - 1) /\ prev \in 0..(Overflow - 1) \cup {None}
      /\ total \in Nat /\ missed \in BOOLEAN
  BY <1>5, <1>6
<1>10. spent \in Nat /\ pending \in 0..spent
  BY <1>5
<1>11. Added(Joules(ledger)) <= total
  BY <1>4, <1>5
<1> QED
  BY <1>2, <1>5, <1>8, <1>9, <1>10, <1>11 DEF EnergyInv

LEMMA TurnsOver ==
  ASSUME NEW w \in Nat \ {0}, NEW x \in 0..w
  PROVE  x % w = IF x = w THEN 0 ELSE x
<1>1. CASE x = w
  BY <1>1, Z3
<1>2. CASE x # w
  BY <1>2, Z3
<1> QED
  BY <1>1, <1>2

LEMMA HalfIsLess ==
  ASSUME NEW w \in Nat \ {0}
  PROVE  w \div 2 \in Nat /\ w \div 2 < w
BY Z3

LEMMA MoreTimes ==
  ASSUME NEW a \in Nat, NEW b \in Nat, a <= b, NEW c \in Nat
  PROVE  a * c <= b * c
<1>1. (b - a) * c \in Nat /\ b - a \in Nat
  OBVIOUS
<1>2. b * c = a * c + (b - a) * c
  OBVIOUS
<1> QED
  BY <1>1, <1>2

LEMMA ConsumeInv ==
  ASSUME EnergyInv, Consume
  PROVE  EnergyInv'
<1>1. /\ Overflow \in Nat \ {0} /\ TotalTicks \in Nat /\ None \notin Int
  BY EnergyAssumption
<1>2. /\ counter' = (counter + 1) % Overflow
      /\ spent' = IF prev = None THEN spent ELSE spent + 1
      /\ pending' = IF prev = None THEN pending ELSE pending + 1
      /\ UNCHANGED <<prev, total, ledger, missed>>
  BY DEF Consume
<1>3. counter' = IF counter + 1 = Overflow THEN 0 ELSE counter + 1
  <2> DEFINE next == counter + 1
  <2>1. next \in 0..Overflow
    BY <1>1 DEF EnergyInv
  <2>2. counter' = next % Overflow
    BY <1>2
  <2> HIDE DEF next
  <2>3. next % Overflow = IF next = Overflow THEN 0 ELSE next
    BY <1>1, <2>1, TurnsOver
  <2>4. counter' = IF next = Overflow THEN 0 ELSE next
    BY <2>2, <2>3
  <2> QED
    BY <2>4 DEF next
<1>4. spent' - pending' = spent - pending /\ spent' \in Nat /\ pending' \in 0..spent'
  BY <1>2 DEF EnergyInv
<1>5. CASE prev = None
  BY <1>1, <1>2, <1>3, <1>4, <1>5 DEF EnergyInv
<1>6. CASE prev # None
  <2>1. prev \in 0..(Overflow - 1) /\ counter \in 0..(Overflow - 1) /\ counter' \in 0..(Overflow - 1)
    BY <1>1, <1>3, <1>6 DEF EnergyInv
  <2>2. Shown(prev, counter') \in {0, Shown(prev, counter) + 1}
    BY <1>1, <1>3, <2>1 DEF Shown
  <2>3. Shown(prev, counter) + 1 < Overflow => Shown(prev, counter') = Shown(prev, counter) + 1
    BY <1>1, <1>3, <2>1 DEF Shown
  <2>4. /\ Shown(prev, counter) <= pending /\ Shown(prev, counter) \in Nat
        /\ pending < Overflow => Shown(prev, counter) = pending
    BY <1>1, <1>6, <2>1 DEF EnergyInv, Shown
  <2>5. /\ Shown(prev, counter') <= pending + 1
        /\ pending + 1 < Overflow => Shown(prev, counter') = pending + 1
    <3> DEFINE a == Shown(prev, counter)
               b == Shown(prev, counter')
    <3>1. a \in Nat /\ a <= pending /\ (pending < Overflow => a = pending) /\ b \in {0, a + 1}
      BY <2>2, <2>4
    <3>2. a + 1 < Overflow => b = a + 1
      BY <2>3
    <3> HIDE DEF a, b
    <3>3. b <= pending + 1 /\ (pending + 1 < Overflow => b = pending + 1)
      BY <1>1, <3>1, <3>2 DEF EnergyInv
    <3> QED
      BY <3>3 DEF a, b
  <2> QED
    BY <1>2, <1>4, <1>6, <2>1, <2>5 DEF EnergyInv, Shown
<1> QED
  BY <1>5, <1>6

LEMMA SampleInv ==
  ASSUME EnergyInv, NEW inTime \in BOOLEAN, SampleEnergy(inTime)
  PROVE  EnergyInv'
<1> DEFINE delta == IF prev # None /\ inTime THEN DeltaUj(prev, counter) ELSE None
<1>1. /\ Overflow \in Nat \ {0} /\ TotalTicks \in Nat /\ None \notin Int
      /\ Overflow \div 2 \in Nat /\ Overflow \div 2 < Overflow
  BY EnergyAssumption, HalfIsLess
<1>2. /\ Account(delta) /\ prev' = counter /\ pending' = 0
      /\ missed' = (missed \/ (prev # None /\ (~inTime \/ pending > Overflow \div 2)))
      /\ counter' = counter /\ spent' = spent
  BY DEF SampleEnergy
<1>3. /\ counter \in 0..(Overflow - 1) /\ spent \in Nat /\ pending \in 0..spent
      /\ total \in Nat /\ missed \in BOOLEAN
      /\ total <= (spent - pending) * TotalTicks
      /\ ~missed => total = (spent - pending) * TotalTicks
  BY DEF EnergyInv
<1>4. counter # None /\ Shown(counter, counter) = 0
  BY <1>1, <1>3 DEF Shown
<1>5. \A a, b \in Nat : a <= b => a * TotalTicks <= b * TotalTicks
  BY <1>1, MoreTimes
<1>6. SUFFICES /\ total' \in Nat /\ ledger' \in Accounts
               /\ total' <= spent * TotalTicks
               /\ ~missed' => total' = spent * TotalTicks
               /\ Added(Joules(ledger'))  <= total'
  BY <1>1, <1>2, <1>3, <1>4 DEF EnergyInv
<1>7. CASE delta = None
  <2>1. total' = total /\ ledger' = ledger
    BY <1>2, <1>7 DEF Account
  <2>2. (spent - pending) * TotalTicks <= spent * TotalTicks
    BY <1>3, <1>5
  <2>3. (spent - pending) * TotalTicks \in Int /\ spent * TotalTicks \in Int
    BY <1>1, <1>3
  <2>4. total' <= spent * TotalTicks
    BY <1>3, <2>1, <2>2, <2>3
  <2>5. ~missed' => total' = spent * TotalTicks
    <3> SUFFICES ASSUME ~missed' PROVE total' = spent * TotalTicks
      OBVIOUS
    <3>1. ~missed /\ (prev = None \/ (inTime /\ ~(pending > Overflow \div 2)))
      BY <1>2
    <3>2. CASE prev = None
      BY <1>3, <2>1, <3>1, <3>2 DEF EnergyInv
    <3>3. CASE prev # None
      <4>1. pending < Overflow
        BY <1>1, <1>3, <3>1, <3>3
      <4>2. Shown(prev, counter) = pending
        BY <3>3, <4>1 DEF EnergyInv
      <4>3. delta = Shown(prev, counter)
        BY <1>1, <1>3, <3>1, <3>3, <4>2 DEF DeltaUj, Shown
      <4> QED
        BY <1>1, <1>3, <1>7, <4>2, <4>3
    <3> QED
      BY <3>2, <3>3
  <2> QED
    BY <1>3, <2>1, <2>4, <2>5 DEF EnergyInv
<1>8. CASE delta # None
  <2>1. prev # None /\ inTime /\ delta = DeltaUj(prev, counter)
    BY <1>8
  <2>2. delta = Shown(prev, counter)
    BY <1>8, <2>1 DEF DeltaUj, Shown
  <2>3. /\ prev \in 0..(Overflow - 1) /\ Shown(prev, counter) <= pending
        /\ pending < Overflow => Shown(prev, counter) = pending
    BY <2>1 DEF EnergyInv
  <2>4. delta \in Nat
    BY <1>1, <1>3, <2>2, <2>3 DEF Shown
  <2>5. /\ total' = total + delta * TotalTicks
        /\ \E order \in SetToSeqs(Apps) : \E times \in Times(order) :
             ledger' = SharedOut(delta, times, order)
    BY <1>2, <1>8 DEF Account
  <2> HIDE DEF delta
  <2>6. delta <= pending /\ (pending < Overflow => delta = pending)
    BY <2>2, <2>3
  <2>7. /\ ledger' \in Accounts
        /\ Added(Joules(ledger')) <= Added(Joules(ledger)) + delta * TotalTicks
    BY <2>4, <2>5, SharesAdd DEF EnergyInv
  <2>8. delta * TotalTicks \in Nat /\ (spent - pending) * TotalTicks \in Int
    BY <1>1, <1>3, <2>4
  <2>9. (spent - pending) * TotalTicks + delta * TotalTicks = (spent - pending + delta) * TotalTicks
    BY <1>1, <1>3, <2>4
  <2>10. (spent - pending + delta) * TotalTicks <= spent * TotalTicks
    <3>1. spent - pending + delta \in Nat /\ spent - pending + delta <= spent
      BY <1>3, <2>4, <2>6
    <3> QED
      BY <1>3, <1>5, <3>1
  <2>11. spent * TotalTicks \in Int /\ (spent - pending + delta) * TotalTicks \in Int
    BY <1>1, <1>3, <2>4
  <2>12. total' \in Nat /\ total' <= spent * TotalTicks
    BY <1>3, <2>5, <2>8, <2>9, <2>10, <2>11
  <2>13. ASSUME ~missed' PROVE total' = spent * TotalTicks
    <3>1. ~missed /\ ~(pending > Overflow \div 2)
      BY <1>2, <2>1, <2>13
    <3>2. delta = pending
      BY <1>1, <1>3, <2>6, <3>1
    <3>3. spent - pending + delta = spent
      BY <1>3, <3>2
    <3>4. total' = (spent - pending) * TotalTicks + delta * TotalTicks
      BY <1>3, <2>5, <3>1
    <3> QED
      BY <2>9, <3>3, <3>4
  <2>14. Added(Joules(ledger')) <= total'
    <3>1. /\ Added(Joules(ledger)) <= total /\ Added(Joules(ledger)) \in Int
          /\ Added(Joules(ledger')) \in Int
      BY <2>7, AccountsAreAmounts, AddedIsNumber DEF EnergyInv
    <3> QED
      BY <1>3, <2>5, <2>7, <2>8, <3>1
  <2> QED
    BY <2>7, <2>12, <2>13, <2>14
<1> QED
  BY <1>7, <1>8

\* However often the counter wraps around, no more energy is accounted for than was
\* used, and none is lost but for intervals that cannot be read; no application gets
\* what is not there.
THEOREM EnergyAlwaysAccounted == Spec => []EnergyAccounted
<1>1. Init => EnergyInv
  BY EnergyInitInv DEF Init
<1>2. EnergyInv /\ [Next]_layerVars => EnergyInv'
  <2> SUFFICES ASSUME EnergyInv, [Next]_layerVars PROVE EnergyInv'
    OBVIOUS
  <2>1. CASE EnergyNext
    BY <2>1, ConsumeInv, SampleInv DEF EnergyNext
  <2>2. CASE UNCHANGED energyVars
    BY <2>2 DEF energyVars, EnergyInv, Joules, Shown
  <2> QED
    BY <2>1, <2>2 DEF Next, OnlyVram, OnlyControllers, OnlyPredictive, OnlyPlugins,
       OnlyRecognition, OnlyConfig, OnlyProfiles, layerVars, energyVars
<1>3. EnergyInv => EnergyAccounted
  <2> SUFFICES ASSUME EnergyInv PROVE EnergyAccounted
    OBVIOUS
  <2>1. /\ TotalTicks \in Nat /\ spent \in Nat /\ pending \in 0..spent /\ total \in Nat
    BY EnergyAssumption DEF EnergyInv
  <2>2. (spent - pending) * TotalTicks <= spent * TotalTicks
    BY <2>1, MoreTimes
  <2>3. (spent - pending) * TotalTicks \in Int /\ spent * TotalTicks \in Int
    BY <2>1
  <2> QED
    BY <2>1, <2>2, <2>3 DEF EnergyInv, EnergyAccounted, Joules
<1> QED
  BY <1>1, <1>2, <1>3, PTL DEF Spec

-----------------------------------------------------------------------------
\* The strongest call is obeyed whatever became of the registry, and a profile
\* that becomes active puts in force what it says itself and by inheritance.
THEOREM ProfilesStayInForce == Spec => ProfileInForce
<1>1. Init => ProfileInv
  BY ProfileInitInv DEF Init
<1>2. ProfileInv /\ [Next]_layerVars => ProfileInv' /\ PutsInForce
  <2>1. [Next]_layerVars => [ProfileNext]_profileVars
    BY DEF Next, layerVars, OnlyVram, OnlyControllers, OnlyPredictive, OnlyPlugins,
           OnlyRecognition, OnlyEnergy, OnlyConfig, OnlyProfiles
  <2> QED
    BY <2>1, ProfileNextInv
<1>3. ProfileInv => CallObeyed
  BY DEF ProfileInv
<1>4. PutsInForce =>
        [activeProfile' # activeProfile /\ WellResolved(registered', activeProfile') =>
           \A d \in Domains :
             Given(registered', d)[activeProfile'] \in KnownPresets[d] =>
               presets'[d] = Given(registered', d)[activeProfile']]_profileVars
  BY DEF PutsInForce
<1> QED
  BY <1>1, <1>2, <1>3, <1>4, PTL DEF Spec, ProfileInForce
=============================================================================
