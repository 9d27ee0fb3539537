------------------------------- MODULE PanelSync -------------------------------
(***************************************************************************)
(* The group command panel: SyncPanels (internal/bot/panel.go) brings a    *)
(* panel on the platform in line with the commands of the running release  *)
(* and remembers in bot_panels which panel it is and what it was sent.     *)
(* It runs at every start and when an administrator sends /同步面板, so two *)
(* may run at once.  The platform keeps its side through a restart; an     *)
(* answer of it may be lost, and the client then sends the request again   *)
(* (internal/qqapi/client.go); for a request that only reads, one step     *)
(* stands for all the attempts.                                            *)
(***************************************************************************)
EXTENDS Naturals, FiniteSets

CONSTANTS
  Syncs,        \* the start-up worker and the goroutines of /同步面板
  MaxAttempts,  \* how often the client sends one request
  MaxPanels,    \* bound: panels ever created
  MaxCalls,     \* bound: calls of SyncPanels
  MaxReleases,  \* bound: releases with different commands, in any order
  MaxFaults,    \* bound: requests or answers lost, statements that fail
  MaxCrashes,   \* bound: restarts of the same release
  MaxLosses     \* bound: panels deleted on the platform, rows lost here

ASSUME AttemptsAssumption == MaxAttempts \in Nat \ {0}
ASSUME BoundsAssumption ==
  {MaxPanels, MaxCalls, MaxReleases, MaxFaults, MaxCrashes, MaxLosses} \subseteq Nat
  /\ MaxReleases > 0

VARIABLES
  panel,     \* panel[p]: the release whose commands panel p shows; 0: not there
  created,   \* how many panels the platform has created
  saved,     \* the row of bot_panels; panel 0: there is none
  release,   \* the release that runs
  pc,        \* pc[c]: what c does next
  mine,      \* mine[c]: the panel c works on, and whether it has found it
  tries,     \* tries[c]: requests sent for the present call of the client
  outcome,   \* outcome[c]: how c's last call ended
  budget,    \* what is left of the bounds
  alone,     \* history: no two syncs have ever run at once
  unsaved    \* history: releases whose items a panel got since the row was written

vars == <<panel, created, saved, release, pc, mine, tries, outcome, budget, alone,
          unsaved>>

Panels == 1..MaxPanels
Ours == {p \in Panels : panel[p] # 0}
NoState == [panel |-> 0, items |-> 0, adopted |-> FALSE]

Init ==
  /\ panel = [p \in Panels |-> 0]
  /\ created = 0
  /\ saved = NoState
  /\ release = 1
  /\ pc = [c \in Syncs |-> "idle"]
  /\ mine = [c \in Syncs |-> [panel |-> 0, adopted |-> FALSE]]
  /\ tries = [c \in Syncs |-> 0]
  /\ outcome = [c \in Syncs |-> "none"]
  /\ budget = [calls |-> MaxCalls, faults |-> MaxFaults,
               crashes |-> MaxCrashes, losses |-> MaxLosses]
  /\ alone = TRUE
  /\ unsaved = {}

Spend(what) == budget[what] > 0 /\ budget' = [budget EXCEPT ![what] = @ - 1]

(* The platform's and the database's side stay as they are.                *)
Locally == UNCHANGED <<panel, created, saved, release, unsaved>>

(* A panel gets the items of the running release.                          *)
Send(p) ==
  /\ panel' = [panel EXCEPT ![p] = release]
  /\ unsaved' = unsaved \cup {release}

(* c's next request is q, about panel p.                                   *)
Goto(c, q, p, adopted) ==
  /\ pc' = [pc EXCEPT ![c] = q]
  /\ mine' = [mine EXCEPT ![c] = [panel |-> p, adopted |-> adopted]]
  /\ tries' = [tries EXCEPT ![c] = 1]
  /\ UNCHANGED outcome

End(c, how) ==
  /\ outcome' = [outcome EXCEPT ![c] = how]
  /\ pc' = [pc EXCEPT ![c] = "idle"]
  /\ mine' = [mine EXCEPT ![c] = [panel |-> 0, adopted |-> FALSE]]
  /\ tries' = [tries EXCEPT ![c] = 0]

\* Mutants: one attempt too many; a call that fails is taken for done.
AgainOnceMore(c) == tries[c] <= MaxAttempts
GiveUpDone(c) ==
  IF pc[c] = "update" THEN Goto(c, "save", mine[c].panel, FALSE) ELSE End(c, "failed")

Again(c) == tries[c] < MaxAttempts

(* The call of the client has failed, and SyncPanels decides what next.    *)
GiveUp(c) ==
  IF pc[c] = "update" THEN Goto(c, "verify", mine[c].panel, FALSE) ELSE End(c, "failed")

(* An answer did not come: the request is sent again, up to MaxAttempts    *)
(* times, unless the context has ended or there is no token for it.        *)
Unanswered(c) ==
  /\ Spend("faults")
  /\ \/ /\ Again(c)
        /\ tries' = [tries EXCEPT ![c] = @ + 1] /\ UNCHANGED <<pc, mine, outcome>>
     \/ GiveUp(c)

--------------------------------------------------------------------------------
Begin(c) ==
  /\ pc[c] = "idle"
  /\ Spend("calls")
  /\ Goto(c, "load", 0, FALSE)
  /\ alone' = (alone /\ \A d \in Syncs : pc[d] = "idle")
  /\ Locally

(* The row says which panel there is and what it was sent last.            *)
Load(c) ==
  /\ pc[c] = "load"
  /\ \/ /\ \/ saved.panel # 0 /\ saved.items = release /\ End(c, "unchanged")
           \/ saved.panel # 0 /\ saved.items # release /\ Goto(c, "update", saved.panel, FALSE)
           \/ saved.panel = 0 /\ Goto(c, "adopt", 0, FALSE)
        /\ UNCHANGED budget
     \/ Spend("faults") /\ End(c, "failed")
  /\ Locally

(* PUT: replaces the items of the panel, if the platform has it.           *)
Update(c) ==
  /\ pc[c] = "update"
  /\ UNCHANGED <<created, saved, release>>
  /\ LET p == mine[c].panel
     IN \/ /\ panel[p] # 0
           /\ Send(p)
           /\ \/ Goto(c, "save", p, FALSE) /\ UNCHANGED budget
              \/ Unanswered(c)
        \/ panel[p] = 0 /\ Goto(c, "verify", p, FALSE) /\ UNCHANGED <<panel, unsaved, budget>>
        \/ Unanswered(c) /\ UNCHANGED <<panel, unsaved>>

\* A mutant: the update is tried again as long as a panel is listed.
VerifyAgain(c) ==
  /\ pc[c] = "verify"
  /\ \/ Ours # {} /\ Goto(c, "update", mine[c].panel, FALSE) /\ UNCHANGED budget
     \/ Ours = {} /\ Goto(c, "adopt", 0, FALSE) /\ UNCHANGED budget
     \/ Spend("faults") /\ End(c, "failed")
  /\ Locally

(* A failed update is final while the platform lists a panel of ours.      *)
Verify(c) ==
  /\ pc[c] = "verify"
  /\ \/ Ours # {} /\ End(c, "failed") /\ UNCHANGED budget
     \/ Ours = {} /\ Goto(c, "adopt", 0, FALSE) /\ UNCHANGED budget
     \/ Spend("faults") /\ End(c, "failed")
  /\ Locally

\* A mutant: a panel is created without a look at those there are.
AdoptNothing(c) == pc[c] = "adopt" /\ Goto(c, "create", 0, FALSE) /\ Locally /\ UNCHANGED budget

(* A panel with our remark is taken over; a failed listing counts as none. *)
Adopt(c) ==
  /\ pc[c] = "adopt"
  /\ \/ \E p \in Ours : Goto(c, "save", p, TRUE) /\ UNCHANGED budget
     \/ Ours = {} /\ Goto(c, "create", 0, FALSE) /\ UNCHANGED budget
     \/ Spend("faults") /\ Goto(c, "create", 0, FALSE)
  /\ Locally

(* POST: the platform makes a panel whenever it gets the request.          *)
Create(c) ==
  /\ pc[c] = "create"
  /\ UNCHANGED <<saved, release>>
  /\ \/ /\ created < MaxPanels
        /\ created' = created + 1
        /\ Send(created + 1)
        /\ \/ Goto(c, "save", created + 1, FALSE) /\ UNCHANGED budget
           \/ Unanswered(c)
     \/ Unanswered(c) /\ UNCHANGED <<panel, created, unsaved>>

(* savePanelState, with the hash of the present items in every case.       *)
Save(c) ==
  /\ pc[c] = "save"
  /\ \/ /\ saved' = [panel |-> mine[c].panel, items |-> release, adopted |-> mine[c].adopted]
        /\ unsaved' = {}
        /\ End(c, "synced") /\ UNCHANGED budget
     \/ Spend("faults") /\ End(c, "failed") /\ UNCHANGED <<saved, unsaved>>
  /\ UNCHANGED <<panel, created, release>>

--------------------------------------------------------------------------------
Stopped ==
  /\ pc' = [c \in Syncs |-> "idle"]
  /\ mine' = [c \in Syncs |-> [panel |-> 0, adopted |-> FALSE]]
  /\ tries' = [c \in Syncs |-> 0]
  /\ outcome' = [c \in Syncs |-> "none"]

(* The process dies and is started again; both sides keep what they have.  *)
Crash == Spend("crashes") /\ Stopped /\ Locally /\ UNCHANGED alone

(* Another release is started, with other commands: a newer one, or one    *)
(* that has run before.                                                    *)
Upgrade ==
  /\ \E r \in 1..MaxReleases \ {release} : release' = r
  /\ Stopped
  /\ UNCHANGED <<panel, created, saved, budget, alone, unsaved>>

(* Somebody deletes a panel in the platform's console.                     *)
DeletePanel(p) ==
  /\ panel[p] # 0
  /\ Spend("losses")
  /\ panel' = [panel EXCEPT ![p] = 0]
  /\ UNCHANGED <<created, saved, release, pc, mine, tries, outcome, alone, unsaved>>

(* The row is lost: the database is set up anew.                           *)
LoseRow ==
  /\ saved # NoState
  /\ Spend("losses")
  /\ saved' = NoState
  /\ Stopped
  /\ UNCHANGED <<panel, created, release, alone, unsaved>>

Step(c) ==
  /\ Load(c) \/ Update(c) \/ Verify(c) \/ Adopt(c) \/ Create(c) \/ Save(c)
  /\ UNCHANGED alone

Next ==
  \/ \E c \in Syncs : Begin(c) \/ Step(c)
  \/ \E p \in Panels : DeletePanel(p)
  \/ Crash \/ Upgrade \/ LoseRow

(* A goroutine that can go on does.                                        *)
Spec == Init /\ [][Next]_vars
FairSpec == Spec /\ \A c \in Syncs : WF_vars(Step(c))

--------------------------------------------------------------------------------
(* Every variable holds a value of its kind.                               *)
Typed ==
  /\ panel \in [Panels -> 0..MaxReleases]
  /\ created \in 0..MaxPanels
  /\ saved \in [panel : 0..MaxPanels, items : 0..MaxReleases, adopted : BOOLEAN]
  /\ release \in 1..MaxReleases
  /\ pc \in [Syncs -> {"idle", "load", "update", "verify", "adopt", "create", "save"}]
  /\ mine \in [Syncs -> [panel : 0..MaxPanels, adopted : BOOLEAN]]
  /\ tries \in [Syncs -> 0..MaxAttempts]
  /\ outcome \in [Syncs -> {"none", "unchanged", "synced", "failed"}]
  /\ budget \in [calls : Nat, faults : Nat, crashes : Nat, losses : Nat]
  /\ unsaved \in SUBSET (1..MaxReleases)
TypeOK == Typed /\ alone \in BOOLEAN

(* INVARIANT.  A row that makes a sync send nothing is right: the panel it *)
(* names shows the present commands, through crashes between the update    *)
(* and the row, lost answers, second syncs and changes of the release.     *)
(* There are two exceptions: a panel that was taken over rather than       *)
(* written (see PanelFollows), and the return to an earlier release after  *)
(* a later one's items were sent but never recorded.  Load compares the    *)
(* row with the release (panel.go:54), so the earlier release finds its    *)
(* own hash there and leaves the later one's commands on the panel until   *)
(* some release with other commands is synced.                             *)
UnchangedMeansCurrent ==
  LET p == saved.panel
  IN p # 0 /\ saved.items = release /\ ~saved.adopted /\ unsaved \subseteq {release} =>
       panel[p] \in {0, release}

(* INVARIANT.  As long as one sync runs at a time and every request is     *)
(* answered, there is one panel (DEV-GUIDE.md 6.7): it is found again      *)
(* after a crash between its creation and the row, after the row is lost,  *)
(* and is made anew only once the platform has none.                       *)
OnePanel == alone /\ budget.faults = MaxFaults => Cardinality(Ours) <= 1

(* LIVENESS.  A sync ends, whatever the platform answers.                  *)
SyncsEnd == \A c \in Syncs : pc[c] # "idle" ~> pc[c] = "idle"

--------------------------------------------------------------------------------
(* What documents and comments of the repository say of it.                *)

(* panel.go on panelItems: the panel follows the current version           *)
(* automatically.  After a sync that has succeeded it shows its commands.  *)
PanelFollows ==
  [][\A c \in Syncs : pc[c] = "save" /\ pc'[c] = "idle" /\ outcome'[c] = "synced"
       => panel[mine[c].panel] \in {0, release}]_vars
===============================================================================
