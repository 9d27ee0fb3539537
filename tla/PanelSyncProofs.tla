---------------------------- MODULE PanelSyncProofs ----------------------------
(***************************************************************************)
(* Theorems of PanelSync for any number of syncs, panels, releases and     *)
(* faults.  The inductive invariant carries the fact from the request that *)
(* was answered to the row: a panel that a sync is about to save, and has  *)
(* written itself, shows the running release.  The row itself need not say *)
(* what its panel shows: what was sent since it was written may be there   *)
(* instead (RowInv), whichever release runs by then.  That there is one    *)
(* panel rests on what a lone sync knows at each of its steps (OneInv):    *)
(* before it creates one the platform has none, or the row has named one.  *)
(***************************************************************************)
EXTENDS PanelSync, FiniteSetTheorems, TLAPS

PCs == {"idle", "load", "update", "verify", "adopt", "create", "save"}

Shows(p) == panel[p] \in {0, release}

(* A panel that is about to be updated or saved is one of the platform's.  *)
AimInv == \A c \in Syncs : pc[c] \in {"update", "save"} => mine[c].panel \in Panels

(* What a sync has written itself shows the running release.               *)
Safe(c) == pc[c] = "save" /\ ~mine[c].adopted => panel[mine[c].panel] \in {0, release}
MineInv == \A c \in Syncs : Safe(c)

(* The panel of a row that was written after its items were sent shows     *)
(* them, or what was sent since.                                           *)
RowInv ==
  saved.panel # 0 /\ ~saved.adopted =>
    panel[saved.panel] \in {0, saved.items} \cup unsaved

IInv == Typed /\ AimInv /\ MineInv /\ RowInv

--------------------------------------------------------------------------------
(* The variables of the syncs themselves.                                  *)
OwnType ==
  /\ pc \in [Syncs -> PCs]
  /\ mine \in [Syncs -> [panel : 0..MaxPanels, adopted : BOOLEAN]]
  /\ tries \in [Syncs -> 0..MaxAttempts]
  /\ outcome \in [Syncs -> {"none", "unchanged", "synced", "failed"}]
OwnInv == OwnType /\ AimInv /\ MineInv
BudgetType == budget \in [calls : Nat, faults : Nat, crashes : Nat, losses : Nat]

(* A step that writes no panel but with the running release, and not the   *)
(* release, keeps every panel that shows it.                               *)
PanelsHold ==
  /\ panel' \in [Panels -> 0..MaxReleases]
  /\ release' = release
  /\ \A p \in Panels : Shows(p) => Shows(p)'

(* What a panel has got is remembered until the row is written.            *)
SentHold ==
  /\ unsaved \subseteq unsaved' /\ unsaved' \in SUBSET (1..MaxReleases)
  /\ \A p \in Panels : panel'[p] \in {panel[p], 0} \cup unsaved'

LEMMA NoPanel == 0 \in 0..MaxPanels
  BY BoundsAssumption

LEMMA SpendType ==
  ASSUME Typed, NEW what \in {"calls", "faults", "crashes", "losses"}, Spend(what)
  PROVE  BudgetType'
  BY DEF Spend, Typed, BudgetType

LEMMA OthersSafe ==
  ASSUME IInv, PanelsHold, NEW d \in Syncs, pc'[d] = pc[d], mine'[d] = mine[d]
  PROVE  Safe(d)'
<1> SUFFICES ASSUME pc[d] = "save", ~mine[d].adopted
             PROVE  panel'[mine[d].panel] \in {0, release'}
  BY DEF Safe
<1>1. mine[d].panel \in Panels /\ panel[mine[d].panel] \in {0, release}
  BY DEF IInv, AimInv, MineInv, Safe
<1> QED BY <1>1 DEF PanelsHold, Shows

LEMMA Goes ==
  ASSUME IInv, PanelsHold, NEW c \in Syncs, NEW q \in PCs, NEW p \in 0..MaxPanels,
         NEW a \in BOOLEAN, Goto(c, q, p, a),
         q \in {"update", "save"} => p \in Panels,
         q = "save" /\ ~a => panel'[p] \in {0, release'}
  PROVE  OwnInv'
<1>1. 1 \in 0..MaxAttempts
  BY AttemptsAssumption
<1>2. OwnType'
  BY <1>1 DEF OwnType, IInv, Typed, Goto, PCs
<1>3. /\ pc'[c] = q /\ mine'[c] = [panel |-> p, adopted |-> a]
      /\ \A d \in Syncs \ {c} : pc'[d] = pc[d] /\ mine'[d] = mine[d]
  BY DEF Goto, IInv, Typed
<1>4. AimInv'
  BY <1>3 DEF AimInv, IInv, Panels
<1>5. Safe(c)'
  BY <1>3 DEF Safe
<1>6. ASSUME NEW d \in Syncs \ {c} PROVE Safe(d)'
  BY <1>3, OthersSafe
<1>7. MineInv'
  BY <1>5, <1>6 DEF MineInv
<1> QED BY <1>2, <1>4, <1>7 DEF OwnInv

LEMMA Ends ==
  ASSUME IInv, PanelsHold, NEW c \in Syncs, NEW how \in {"unchanged", "synced", "failed"},
         End(c, how)
  PROVE  OwnInv'
<1>1. 0 \in 0..MaxAttempts /\ 0 \in 0..MaxPanels
  BY AttemptsAssumption, BoundsAssumption
<1>2. OwnType'
  BY <1>1 DEF OwnType, IInv, Typed, End, PCs
<1>3. /\ pc'[c] = "idle"
      /\ \A d \in Syncs \ {c} : pc'[d] = pc[d] /\ mine'[d] = mine[d]
  BY DEF End, IInv, Typed
<1>4. AimInv'
  BY <1>3 DEF AimInv, IInv, Panels
<1>5. Safe(c)'
  BY <1>3 DEF Safe
<1>6. ASSUME NEW d \in Syncs \ {c} PROVE Safe(d)'
  BY <1>3, OthersSafe
<1>7. MineInv'
  BY <1>5, <1>6 DEF MineInv
<1> QED BY <1>2, <1>4, <1>7 DEF OwnInv

(* A request without an answer, at one of the platform's two calls.        *)
LEMMA UnansweredKeeps ==
  ASSUME IInv, PanelsHold, NEW c \in Syncs, pc[c] \in {"update", "create"}, Unanswered(c)
  PROVE  OwnInv' /\ BudgetType'
<1>0. BudgetType'
  BY SpendType DEF Unanswered, IInv
<1>1. CASE Again(c) /\ tries' = [tries EXCEPT ![c] = @ + 1] /\ UNCHANGED <<pc, mine, outcome>>
  <2>1. OwnType'
    BY <1>1, AttemptsAssumption DEF Again, OwnType, IInv, Typed, PCs
  <2>2. AimInv'
    BY <1>1 DEF IInv, AimInv, Panels
  <2>3. MineInv'
    BY <1>1, OthersSafe DEF MineInv
  <2> QED BY <1>0, <2>1, <2>2, <2>3 DEF OwnInv
<1>2. CASE GiveUp(c)
  <2>1. mine[c].panel \in 0..MaxPanels
    BY DEF IInv, Typed
  <2>2. CASE pc[c] = "update"
    <3>1. Goto(c, "verify", mine[c].panel, FALSE)
      BY <1>2, <2>2 DEF GiveUp
    <3> QED BY <1>0, <2>1, <3>1, Goes DEF PCs
  <2>3. CASE pc[c] = "create"
    <3>1. End(c, "failed")
      BY <1>2, <2>3 DEF GiveUp
    <3> QED BY <1>0, <3>1, Ends
  <2> QED BY <2>2, <2>3
<1> QED BY <1>1, <1>2 DEF Unanswered

(* Steps that leave the row alone.                                         *)
LEMMA RowStays ==
  ASSUME IInv, PanelsHold, SentHold, UNCHANGED saved, created' \in 0..MaxPanels,
         OwnInv', BudgetType'
  PROVE  IInv'
<1>1. RowInv'
  <2> SUFFICES ASSUME saved.panel # 0, ~saved.adopted
               PROVE  panel'[saved.panel] \in {0, saved.items} \cup unsaved'
    BY DEF RowInv
  <2>1. saved.panel \in Panels
    BY BoundsAssumption DEF IInv, Typed, Panels
  <2>2. panel[saved.panel] \in {0, saved.items} \cup unsaved
    BY DEF IInv, RowInv
  <2> QED BY <2>1, <2>2 DEF SentHold
<1> QED BY <1>1 DEF IInv, Typed, OwnInv, OwnType, BudgetType, PanelsHold, SentHold, PCs

LEMMA SentStays == IInv /\ UNCHANGED <<panel, unsaved>> => SentHold
  BY DEF IInv, Typed, SentHold

LEMMA PanelsStay == IInv /\ UNCHANGED <<panel, release>> => PanelsHold
  BY DEF IInv, Typed, PanelsHold, Shows

LEMMA PanelWritten ==
  ASSUME IInv, NEW p \in Panels, Send(p), release' = release
  PROVE  PanelsHold /\ SentHold /\ Shows(p)'
<1>1. PanelsHold /\ Shows(p)'
  BY DEF IInv, Typed, PanelsHold, Shows, Send
<1>2. SentHold
  BY DEF IInv, Typed, SentHold, Send
<1> QED BY <1>1, <1>2

--------------------------------------------------------------------------------
(* One lemma per action.                                                   *)
LEMMA LocalKeeps ==
  ASSUME IInv, Locally, OwnInv', BudgetType'
  PROVE  IInv'
<1>1. PanelsHold /\ SentHold
  BY PanelsStay, SentStays DEF Locally
<1> QED BY <1>1, RowStays DEF Locally, IInv, Typed

LEMMA BudgetStays == IInv /\ UNCHANGED budget => BudgetType'
  BY DEF IInv, Typed, BudgetType

LEMMA FaultSpent == IInv /\ Spend("faults") => BudgetType'
  BY SpendType DEF IInv

LEMMA BeginKeeps == ASSUME IInv, NEW c \in Syncs, Begin(c) PROVE IInv'
<1>1. PanelsHold
  BY PanelsStay DEF Begin, Locally
<1>2. OwnInv'
  <2>1. Goto(c, "load", 0, FALSE)
    BY DEF Begin
  <2> QED BY <1>1, <2>1, Goes, NoPanel DEF PCs
<1>3. BudgetType'
  BY SpendType DEF Begin, IInv
<1> QED BY <1>2, <1>3, LocalKeeps DEF Begin

LEMMA LoadKeeps == ASSUME IInv, NEW c \in Syncs, Load(c) PROVE IInv'
<1>1. PanelsHold
  BY PanelsStay DEF Load, Locally
<1>2. saved.panel \in 0..MaxPanels /\ 0 \in 0..MaxPanels
  BY BoundsAssumption DEF IInv, Typed
<1>3. CASE End(c, "unchanged") /\ UNCHANGED budget
  BY <1>1, <1>3, Ends, BudgetStays, LocalKeeps DEF Load
<1>4. CASE saved.panel # 0 /\ Goto(c, "update", saved.panel, FALSE) /\ UNCHANGED budget
  <2>1. saved.panel \in Panels
    BY <1>2, <1>4, BoundsAssumption DEF Panels
  <2>2. OwnInv'
    BY <1>1, <1>2, <1>4, <2>1, Goes DEF PCs
  <2> QED BY <1>4, <2>2, BudgetStays, LocalKeeps DEF Load
<1>5. CASE Goto(c, "adopt", 0, FALSE) /\ UNCHANGED budget
  <2>1. OwnInv'
    BY <1>1, <1>2, <1>5, Goes DEF PCs
  <2> QED BY <1>5, <2>1, BudgetStays, LocalKeeps DEF Load
<1>6. CASE Spend("faults") /\ End(c, "failed")
  BY <1>1, <1>6, Ends, FaultSpent, LocalKeeps DEF Load
<1> QED BY <1>3, <1>4, <1>5, <1>6 DEF Load

LEMMA UpdateKeeps == ASSUME IInv, NEW c \in Syncs, Update(c) PROVE IInv'
<1> DEFINE p == mine[c].panel
<1>1. pc[c] = "update" /\ p \in Panels /\ p \in 0..MaxPanels
  BY DEF Update, IInv, AimInv, Typed
<1>2. PanelsHold /\ SentHold /\ OwnInv' /\ BudgetType'
  <2>1. CASE Send(p) /\ Goto(c, "save", p, FALSE) /\ UNCHANGED budget
    <3>1. PanelsHold /\ SentHold /\ panel'[p] \in {0, release'}
      BY <1>1, <2>1, PanelWritten DEF Update, Shows
    <3> QED BY <1>1, <2>1, <3>1, Goes, BudgetStays DEF PCs
  <2>2. CASE Send(p) /\ Unanswered(c)
    <3>1. PanelsHold /\ SentHold
      BY <1>1, <2>2, PanelWritten DEF Update
    <3> QED BY <1>1, <2>2, <3>1, UnansweredKeeps
  <2>3. CASE Goto(c, "verify", p, FALSE) /\ UNCHANGED <<panel, unsaved, budget>>
    <3>1. PanelsHold /\ SentHold
      BY <2>3, PanelsStay, SentStays DEF Update
    <3> QED BY <1>1, <2>3, <3>1, Goes, BudgetStays DEF PCs
  <2>4. CASE Unanswered(c) /\ UNCHANGED <<panel, unsaved>>
    <3>1. PanelsHold /\ SentHold
      BY <2>4, PanelsStay, SentStays DEF Update
    <3> QED BY <1>1, <2>4, <3>1, UnansweredKeeps
  <2> QED BY <2>1, <2>2, <2>3, <2>4 DEF Update
<1> QED BY <1>2, RowStays DEF Update, IInv, Typed

LEMMA VerifyKeeps == ASSUME IInv, NEW c \in Syncs, Verify(c) PROVE IInv'
<1>1. PanelsHold
  BY PanelsStay DEF Verify, Locally
<1>2. CASE Ours # {} /\ End(c, "failed") /\ UNCHANGED budget
  BY <1>1, <1>2, Ends, BudgetStays, LocalKeeps DEF Verify
<1>3. CASE Ours = {} /\ Goto(c, "adopt", 0, FALSE) /\ UNCHANGED budget
  <2>1. OwnInv'
    BY <1>1, <1>3, Goes, NoPanel DEF PCs
  <2> QED BY <1>3, <2>1, BudgetStays, LocalKeeps DEF Verify
<1>4. CASE Spend("faults") /\ End(c, "failed")
  BY <1>1, <1>4, Ends, FaultSpent, LocalKeeps DEF Verify
<1> QED BY <1>2, <1>3, <1>4 DEF Verify

LEMMA AdoptKeeps == ASSUME IInv, NEW c \in Syncs, Adopt(c) PROVE IInv'
<1>1. PanelsHold
  BY PanelsStay DEF Adopt, Locally
<1>2. CASE \E p \in Ours : Goto(c, "save", p, TRUE) /\ UNCHANGED budget
  <2>1. PICK p \in Ours : Goto(c, "save", p, TRUE) /\ UNCHANGED budget
    BY <1>2
  <2>2. p \in Panels /\ p \in 0..MaxPanels
    BY BoundsAssumption DEF Ours, Panels
  <2>3. OwnInv'
    BY <1>1, <2>1, <2>2, Goes DEF PCs
  <2> QED BY <2>1, <2>3, BudgetStays, LocalKeeps DEF Adopt
<1>3. ASSUME Goto(c, "create", 0, FALSE), BudgetType'
      PROVE  IInv'
  <2>1. OwnInv'
    BY <1>1, <1>3, Goes, NoPanel DEF PCs
  <2> QED BY <1>3, <2>1, LocalKeeps DEF Adopt
<1> QED BY <1>2, <1>3, BudgetStays, FaultSpent DEF Adopt

LEMMA CreateKeeps == ASSUME IInv, NEW c \in Syncs, Create(c) PROVE IInv'
<1>1. pc[c] = "create" /\ created \in 0..MaxPanels
  BY DEF Create, IInv, Typed
<1>2. CASE /\ created < MaxPanels
           /\ created' = created + 1
           /\ Send(created + 1)
           /\ \/ Goto(c, "save", created + 1, FALSE) /\ UNCHANGED budget
              \/ Unanswered(c)
  <2>1. created + 1 \in Panels /\ created + 1 \in 0..MaxPanels
    BY <1>1, <1>2, BoundsAssumption DEF Panels
  <2>2. PanelsHold /\ SentHold /\ panel'[created + 1] \in {0, release'}
    BY <1>2, <2>1, PanelWritten DEF Create, Shows
  <2>3. CASE Goto(c, "save", created + 1, FALSE) /\ UNCHANGED budget
    <3>1. OwnInv'
      BY <2>1, <2>2, <2>3, Goes DEF PCs
    <3> QED BY <1>2, <2>1, <2>2, <2>3, <3>1, BudgetStays, RowStays DEF Create
  <2>4. CASE Unanswered(c)
    <3>1. OwnInv' /\ BudgetType'
      BY <1>1, <2>2, <2>4, UnansweredKeeps
    <3> QED BY <1>2, <2>1, <2>2, <3>1, RowStays DEF Create
  <2> QED BY <1>2, <2>3, <2>4
<1>3. CASE Unanswered(c) /\ UNCHANGED <<panel, created, unsaved>>
  <2>1. PanelsHold /\ SentHold
    BY <1>3, PanelsStay, SentStays DEF Create
  <2>2. OwnInv' /\ BudgetType'
    BY <1>1, <1>3, <2>1, UnansweredKeeps
  <2> QED BY <1>1, <1>3, <2>1, <2>2, RowStays DEF Create
<1> QED BY <1>2, <1>3 DEF Create

(* The row takes over what the sync knows of its panel.                    *)
LEMMA SaveKeeps == ASSUME IInv, NEW c \in Syncs, Save(c) PROVE IInv'
<1>1. PanelsHold
  BY PanelsStay DEF Save
<1>2. CASE /\ saved' = [panel |-> mine[c].panel, items |-> release, adopted |-> mine[c].adopted]
           /\ unsaved' = {}
           /\ End(c, "synced") /\ UNCHANGED budget
  <2>1. OwnInv' /\ BudgetType'
    BY <1>1, <1>2, Ends, BudgetStays
  <2>2. /\ saved' \in [panel : 0..MaxPanels, items : 0..MaxReleases, adopted : BOOLEAN]
        /\ saved'.panel = mine[c].panel /\ saved'.items = release
        /\ saved'.adopted = mine[c].adopted
    BY <1>2 DEF IInv, Typed
  <2>3. Safe(c)
    BY DEF IInv, MineInv
  <2>4. RowInv'
    BY <2>2, <2>3 DEF RowInv, Safe, Save
  <2> QED BY <1>1, <1>2, <2>1, <2>2, <2>4
          DEF Save, IInv, Typed, OwnInv, OwnType, BudgetType, PanelsHold, PCs
<1>3. CASE Spend("faults") /\ End(c, "failed") /\ UNCHANGED <<saved, unsaved>>
  <2>1. OwnInv'
    BY <1>1, <1>3, Ends
  <2>2. SentHold
    BY <1>3, SentStays DEF Save
  <2> QED BY <1>1, <1>3, <2>1, <2>2, FaultSpent, RowStays DEF Save, IInv, Typed
<1> QED BY <1>2, <1>3 DEF Save

(* When the process has stopped nobody is about to save anything.          *)
LEMMA StoppedOwn == ASSUME IInv, Stopped PROVE OwnInv'
<1>1. 0 \in 0..MaxAttempts /\ 0 \in 0..MaxPanels
  BY AttemptsAssumption, BoundsAssumption
<1> QED BY <1>1 DEF Stopped, OwnInv, OwnType, PCs, AimInv, MineInv, Safe

LEMMA CrashKeeps == IInv /\ Crash => IInv'
<1> SUFFICES ASSUME IInv, Crash PROVE IInv'
  OBVIOUS
<1>1. BudgetType'
  BY SpendType DEF Crash, IInv
<1> QED BY <1>1, StoppedOwn, LocalKeeps DEF Crash

(* What the row and the panels say does not depend on the release.         *)
LEMMA UpgradeKeeps == IInv /\ Upgrade => IInv'
<1> SUFFICES ASSUME IInv, Upgrade PROVE IInv'
  OBVIOUS
<1>1. release' \in 1..MaxReleases /\ UNCHANGED <<panel, created, saved, budget, unsaved>>
  BY DEF Upgrade
<1>2. OwnInv'
  BY StoppedOwn DEF Upgrade
<1>3. RowInv'
  BY <1>1 DEF RowInv, IInv
<1> QED BY <1>1, <1>2, <1>3 DEF IInv, Typed, OwnInv, OwnType, PCs

LEMMA DeletePanelKeeps == ASSUME IInv, NEW p \in Panels, DeletePanel(p) PROVE IInv'
<1>1. PanelsHold
  BY BoundsAssumption DEF DeletePanel, IInv, Typed, PanelsHold, Shows
<1>2. \A d \in Syncs : Safe(d)'
  BY <1>1, OthersSafe DEF DeletePanel
<1>3. OwnInv'
  BY <1>2 DEF DeletePanel, IInv, Typed, OwnInv, OwnType, AimInv, MineInv, Panels, PCs
<1>4. BudgetType'
  BY SpendType DEF DeletePanel, IInv
<1>5. SentHold
  BY DEF DeletePanel, IInv, Typed, SentHold
<1> QED BY <1>1, <1>3, <1>4, <1>5, RowStays DEF DeletePanel, IInv, Typed

LEMMA LoseRowKeeps == IInv /\ LoseRow => IInv'
<1> SUFFICES ASSUME IInv, LoseRow PROVE IInv'
  OBVIOUS
<1>1. OwnInv' /\ BudgetType'
  BY StoppedOwn, SpendType DEF LoseRow, IInv
<1>2. saved' = NoState /\ UNCHANGED <<panel, created, release, unsaved>>
  BY DEF LoseRow
<1>3. saved' \in [panel : 0..MaxPanels, items : 0..MaxReleases, adopted : BOOLEAN]
  BY <1>2, BoundsAssumption DEF NoState
<1>4. RowInv'
  BY <1>2 DEF NoState, RowInv
<1> QED BY <1>1, <1>2, <1>3, <1>4 DEF IInv, Typed, OwnInv, OwnType, BudgetType, PCs

--------------------------------------------------------------------------------
LEMMA InitHolds == Init => IInv
<1> SUFFICES ASSUME Init PROVE IInv
  OBVIOUS
<1>1. Typed
  BY AttemptsAssumption, BoundsAssumption DEF Init, Typed, NoState
<1>2. AimInv /\ MineInv
  BY DEF Init, AimInv, MineInv, Safe
<1>3. RowInv
  BY DEF Init, RowInv, NoState
<1> QED BY <1>1, <1>2, <1>3 DEF IInv

LEMMA NextKeeps == IInv /\ [Next]_vars => IInv'
<1> SUFFICES ASSUME IInv, [Next]_vars PROVE IInv'
  OBVIOUS
<1>1. ASSUME NEW c \in Syncs, Begin(c) PROVE IInv'
  BY <1>1, BeginKeeps
<1>2. ASSUME NEW c \in Syncs, Step(c) PROVE IInv'
  BY <1>2, LoadKeeps, UpdateKeeps, VerifyKeeps, AdoptKeeps, CreateKeeps, SaveKeeps DEF Step
<1>3. ASSUME NEW p \in Panels, DeletePanel(p) PROVE IInv'
  BY <1>3, DeletePanelKeeps
<1>4. CASE UNCHANGED vars
  BY <1>4 DEF vars, IInv, Typed, AimInv, MineInv, Safe, RowInv, Panels
<1> QED BY <1>1, <1>2, <1>3, <1>4, CrashKeeps, UpgradeKeeps, LoseRowKeeps DEF Next

(* The invariant that carries the two theorems.                            *)
LEMMA Inductive == Spec => []IInv
  BY InitHolds, NextKeeps, PTL DEF Spec

(* THEOREM.  Every variable of SyncPanels and the platform keeps its type: *)
(* in particular no request is sent more than MaxAttempts times.           *)
THEOREM PanelTypeCorrect == Spec => []TypeOK
<1>1. Init => alone \in BOOLEAN
  BY DEF Init
<1>2. alone \in BOOLEAN /\ [Next]_vars => (alone \in BOOLEAN)'
  BY DEF Next, vars, Begin, Step, DeletePanel, Crash, Upgrade, LoseRow
<1>3. IInv /\ alone \in BOOLEAN => TypeOK
  BY DEF IInv, TypeOK
<1> QED BY <1>1, <1>2, <1>3, Inductive, PTL DEF Spec

(* THEOREM.  The row of bot_panels that lets SyncPanels skip its requests  *)
(* is right of every panel it has written, for any number of concurrent    *)
(* syncs, lost answers, crashes and releases, started in any order, unless *)
(* another release has sent its items and they were never recorded.        *)
THEOREM UnchangedIsCurrent == Spec => []UnchangedMeansCurrent
<1>1. IInv => UnchangedMeansCurrent
  BY DEF IInv, RowInv, UnchangedMeansCurrent
<1> QED BY <1>1, Inductive, PTL

--------------------------------------------------------------------------------
(* One panel.  As long as no two syncs have run at once and no request has *)
(* gone without an answer, at most one sync is under way, and one that is  *)
(* about to create a panel has seen that there is none.                    *)
Calm == alone /\ budget.faults = MaxFaults
Single == \A p, q \in Ours : p = q
OneSync == \A c, d \in Syncs : pc[c] # "idle" /\ pc[d] # "idle" => c = d
CreateInv == \A c \in Syncs : pc[c] = "create" => Ours = {}
CalmInv == Single /\ OneSync /\ CreateInv
OneInv == budget.faults <= MaxFaults /\ (Calm => CalmInv)

(* A step of c alone that was answered.                                    *)
StepOf(c) ==
  /\ pc[c] # "idle" /\ alone' = alone /\ budget' = budget
  /\ \A d \in Syncs \ {c} : pc'[d] = pc[d]

LEMMA FaultsSpent ==
  ASSUME IInv, OneInv, NEW what \in {"calls", "faults", "crashes", "losses"}, Spend(what)
  PROVE  /\ budget'.faults <= MaxFaults
         /\ what = "faults" => budget'.faults # MaxFaults
         /\ what # "faults" => budget'.faults = budget.faults
  BY BoundsAssumption DEF Spend, IInv, Typed, OneInv

(* A request without an answer ends the calm.                              *)
LEMMA FaultEnds == ASSUME IInv, OneInv, Spend("faults") PROVE OneInv'
  BY FaultsSpent DEF OneInv, Calm

LEMMA UnansweredEnds == ASSUME IInv, OneInv, NEW c \in Syncs, Unanswered(c) PROVE OneInv'
  BY FaultEnds DEF Unanswered

LEMMA OthersIdle ==
  ASSUME NEW c \in Syncs, OneSync, StepOf(c)
  PROVE  OneSync' /\ \A d \in Syncs \ {c} : pc'[d] = "idle"
  BY DEF OneSync, StepOf

(* Such a step keeps the invariant when it adds no panel, and is not about *)
(* to create one while there is one.                                       *)
LEMMA StepKeepsOne ==
  ASSUME IInv, OneInv, NEW c \in Syncs, StepOf(c),
         Calm => Single', Calm /\ pc'[c] = "create" => Ours' = {}
  PROVE  OneInv'
<1>1. Calm' => Calm /\ CalmInv
  BY DEF Calm, StepOf, OneInv
<1>2. Calm' => CalmInv'
  <2> SUFFICES ASSUME Calm' PROVE CalmInv'
    OBVIOUS
  <2>1. OneSync' /\ \A d \in Syncs \ {c} : pc'[d] = "idle"
    BY <1>1, OthersIdle DEF CalmInv
  <2>2. CreateInv'
    BY <1>1, <2>1 DEF CreateInv
  <2> QED BY <1>1, <2>1, <2>2 DEF CalmInv
<1> QED BY <1>2 DEF OneInv, StepOf

LEMMA LocalKeepsOne ==
  ASSUME IInv, OneInv, NEW c \in Syncs, StepOf(c), UNCHANGED panel,
         pc'[c] = "create" => Ours = {}
  PROVE  OneInv'
<1>1. Ours' = Ours
  BY DEF Ours, Panels
<1>2. Calm => Single'
  BY <1>1 DEF OneInv, CalmInv, Single
<1> QED BY <1>1, <1>2, StepKeepsOne

LEMMA GotoStep ==
  ASSUME IInv, NEW c \in Syncs, pc[c] # "idle", alone' = alone, budget' = budget,
         NEW q \in PCs, NEW p \in 0..MaxPanels, NEW a \in BOOLEAN, Goto(c, q, p, a)
  PROVE  StepOf(c) /\ pc'[c] = q
  BY DEF Goto, StepOf, IInv, Typed

LEMMA GotoOne ==
  ASSUME IInv, OneInv, NEW c \in Syncs, pc[c] # "idle", alone' = alone, budget' = budget,
         NEW q \in PCs, NEW p \in 0..MaxPanels, NEW a \in BOOLEAN, Goto(c, q, p, a),
         panel' = panel, q = "create" => Ours = {}
  PROVE  OneInv'
<1>1. StepOf(c) /\ pc'[c] = q
  BY GotoStep
<1> QED BY <1>1, LocalKeepsOne

LEMMA EndOne ==
  ASSUME IInv, OneInv, NEW c \in Syncs, pc[c] # "idle", alone' = alone, budget' = budget,
         NEW how \in {"unchanged", "synced", "failed"}, End(c, how), panel' = panel
  PROVE  OneInv'
<1>1. StepOf(c) /\ pc'[c] = "idle"
  BY DEF End, StepOf, IInv, Typed
<1> QED BY <1>1, LocalKeepsOne

LEMMA BeginOne == ASSUME IInv, OneInv, NEW c \in Syncs, Begin(c) PROVE OneInv'
<1>1. budget'.faults = budget.faults /\ budget'.faults <= MaxFaults
  BY FaultsSpent DEF Begin
<1>2. ASSUME Calm' PROVE CalmInv'
  <2>1. Calm /\ CalmInv /\ \A d \in Syncs : pc[d] = "idle"
    BY <1>1, <1>2 DEF Calm, Begin, OneInv
  <2>2. pc'[c] = "load" /\ \A d \in Syncs \ {c} : pc'[d] = "idle"
    BY <2>1 DEF Begin, Goto, IInv, Typed
  <2>3. Ours' = Ours
    BY DEF Begin, Locally, Ours, Panels
  <2> QED BY <2>1, <2>2, <2>3 DEF CalmInv, Single, OneSync, CreateInv
<1> QED BY <1>1, <1>2 DEF OneInv

LEMMA LoadOne == ASSUME IInv, OneInv, NEW c \in Syncs, Load(c), alone' = alone PROVE OneInv'
<1>1. pc[c] # "idle" /\ UNCHANGED panel
  BY DEF Load, Locally
<1>2. CASE End(c, "unchanged") /\ UNCHANGED budget
  BY <1>1, <1>2, EndOne
<1>3. CASE Goto(c, "update", saved.panel, FALSE) /\ UNCHANGED budget
  <2>1. saved.panel \in 0..MaxPanels
    BY DEF IInv, Typed
  <2> QED BY <1>1, <1>3, <2>1, GotoOne DEF PCs
<1>4. CASE Goto(c, "adopt", 0, FALSE) /\ UNCHANGED budget
  BY <1>1, <1>4, NoPanel, GotoOne DEF PCs
<1> QED BY <1>2, <1>3, <1>4, FaultEnds DEF Load

LEMMA UpdateOne == ASSUME IInv, OneInv, NEW c \in Syncs, Update(c), alone' = alone PROVE OneInv'
<1> DEFINE p == mine[c].panel
<1>1. pc[c] # "idle" /\ p \in Panels /\ p \in 0..MaxPanels
  BY DEF Update, IInv, AimInv, Typed
<1>2. CASE /\ panel[p] # 0 /\ Send(p)
           /\ Goto(c, "save", p, FALSE) /\ UNCHANGED budget
  <2>1. Ours' = Ours
    BY <1>1, <1>2 DEF Ours, Panels, IInv, Typed, Send
  <2>2. StepOf(c) /\ pc'[c] = "save"
    BY <1>1, <1>2, GotoStep DEF PCs
  <2>3. Calm => Single'
    BY <2>1 DEF OneInv, CalmInv, Single
  <2> QED BY <2>2, <2>3, StepKeepsOne
<1>3. CASE Goto(c, "verify", p, FALSE) /\ UNCHANGED <<panel, budget>>
  BY <1>1, <1>3, NoPanel, GotoOne DEF PCs
<1> QED BY <1>2, <1>3, UnansweredEnds DEF Update

LEMMA VerifyOne == ASSUME IInv, OneInv, NEW c \in Syncs, Verify(c), alone' = alone PROVE OneInv'
<1>1. pc[c] # "idle" /\ UNCHANGED panel
  BY DEF Verify, Locally
<1>2. CASE End(c, "failed") /\ UNCHANGED budget
  BY <1>1, <1>2, EndOne
<1>3. CASE Goto(c, "adopt", 0, FALSE) /\ UNCHANGED budget
  BY <1>1, <1>3, NoPanel, GotoOne DEF PCs
<1> QED BY <1>2, <1>3, FaultEnds DEF Verify

LEMMA AdoptOne == ASSUME IInv, OneInv, NEW c \in Syncs, Adopt(c), alone' = alone PROVE OneInv'
<1>1. pc[c] # "idle" /\ UNCHANGED panel
  BY DEF Adopt, Locally
<1>2. ASSUME NEW p \in Ours, Goto(c, "save", p, TRUE), budget' = budget PROVE OneInv'
  <2>1. p \in 0..MaxPanels
    BY BoundsAssumption DEF Ours, Panels
  <2> QED BY <1>1, <1>2, <2>1, GotoOne DEF PCs
<1>3. CASE Ours = {} /\ Goto(c, "create", 0, FALSE) /\ UNCHANGED budget
  BY <1>1, <1>3, NoPanel, GotoOne DEF PCs
<1> QED BY <1>2, <1>3, FaultEnds DEF Adopt

(* The only step that adds a panel is taken when there is none.            *)
LEMMA CreateOne == ASSUME IInv, OneInv, NEW c \in Syncs, Create(c), alone' = alone PROVE OneInv'
<1>1. pc[c] = "create"
  BY DEF Create
<1>2. CASE /\ created < MaxPanels /\ Send(created + 1)
           /\ Goto(c, "save", created + 1, FALSE) /\ UNCHANGED budget
  <2>1. created + 1 \in 0..MaxPanels
    BY <1>2, BoundsAssumption DEF IInv, Typed
  <2>2. StepOf(c) /\ pc'[c] = "save"
    BY <1>1, <1>2, <2>1, GotoStep DEF PCs
  <2>3. Calm => Single'
    <3> SUFFICES ASSUME Calm PROVE Single'
      OBVIOUS
    <3>1. Ours = {}
      BY <1>1 DEF OneInv, CalmInv, CreateInv
    <3>2. Ours' \subseteq {created + 1}
      BY <1>2, <3>1 DEF Ours, Panels, IInv, Typed, Send
    <3> QED BY <3>2 DEF Single
  <2> QED BY <2>2, <2>3, StepKeepsOne
<1> QED BY <1>2, UnansweredEnds DEF Create

LEMMA SaveOne == ASSUME IInv, OneInv, NEW c \in Syncs, Save(c), alone' = alone PROVE OneInv'
<1>1. pc[c] # "idle" /\ UNCHANGED panel
  BY DEF Save
<1>2. CASE End(c, "synced") /\ UNCHANGED budget
  BY <1>1, <1>2, EndOne
<1> QED BY <1>2, FaultEnds DEF Save

LEMMA StoppedOne ==
  ASSUME OneInv, Stopped, UNCHANGED <<panel, alone>>, budget'.faults = budget.faults
  PROVE  OneInv'
<1>1. Ours' = Ours
  BY DEF Ours, Panels
<1>2. \A c \in Syncs : pc'[c] = "idle"
  BY DEF Stopped
<1> QED BY <1>1, <1>2 DEF OneInv, Calm, CalmInv, Single, OneSync, CreateInv

LEMMA DeletePanelOne == ASSUME IInv, OneInv, NEW p \in Panels, DeletePanel(p) PROVE OneInv'
<1>1. budget'.faults = budget.faults
  BY FaultsSpent DEF DeletePanel
<1>2. Ours' \subseteq Ours
  BY DEF DeletePanel, Ours, Panels, IInv, Typed
<1>3. UNCHANGED <<pc, alone>>
  BY DEF DeletePanel
<1> QED BY <1>1, <1>2, <1>3 DEF OneInv, Calm, CalmInv, Single, OneSync, CreateInv

LEMMA NextKeepsOne == IInv /\ OneInv /\ [Next]_vars => OneInv'
<1> SUFFICES ASSUME IInv, OneInv, [Next]_vars PROVE OneInv'
  OBVIOUS
<1>1. ASSUME NEW c \in Syncs, Begin(c) PROVE OneInv'
  BY <1>1, BeginOne
<1>2. ASSUME NEW c \in Syncs, Step(c) PROVE OneInv'
  BY <1>2, LoadOne, UpdateOne, VerifyOne, AdoptOne, CreateOne, SaveOne DEF Step
<1>3. ASSUME NEW p \in Panels, DeletePanel(p) PROVE OneInv'
  BY <1>3, DeletePanelOne
<1>4. CASE Crash
  BY <1>4, StoppedOne, FaultsSpent DEF Crash, Locally
<1>5. CASE Upgrade
  BY <1>5, StoppedOne DEF Upgrade
<1>6. CASE LoseRow
  BY <1>6, StoppedOne, FaultsSpent DEF LoseRow
<1>7. CASE UNCHANGED vars
  BY <1>7 DEF vars, OneInv, Calm, CalmInv, Single, OneSync, CreateInv, Ours, Panels
<1> QED BY <1>1, <1>2, <1>3, <1>4, <1>5, <1>6, <1>7 DEF Next

(* THEOREM.  As long as one sync runs at a time and every request is       *)
(* answered, the platform has at most one panel of the bot, through any    *)
(* number of crashes, releases, lost rows and deleted panels.              *)
THEOREM OnePanelHolds == Spec => []OnePanel
<1>1. Init => OneInv
  <2> SUFFICES ASSUME Init PROVE OneInv
    OBVIOUS
  <2>1. Ours = {}
    BY DEF Init, Ours, Panels
  <2> QED BY <2>1, BoundsAssumption DEF Init, OneInv, CalmInv, Single, OneSync, CreateInv
<1>2. OneInv => OnePanel
  <2> SUFFICES ASSUME Calm, Single PROVE Cardinality(Ours) <= 1
    BY DEF OneInv, CalmInv, Calm, OnePanel
  <2>1. CASE Ours = {}
    BY <2>1, FS_EmptySet
  <2>2. ASSUME NEW p \in Ours PROVE Cardinality(Ours) <= 1
    <3>1. Ours = {p}
      BY DEF Single
    <3> QED BY <3>1, FS_Singleton
  <2> QED BY <2>1, <2>2
<1> QED BY <1>1, <1>2, NextKeepsOne, Inductive, PTL DEF Spec
===============================================================================
