----------------------------- MODULE Workspace -----------------------------
(***************************************************************************)
(* The native viewer's workspace: the tabs (or one window per display) on  *)
(* the UI thread, the actor that owns one network task per tab, and the    *)
(* bounded event queue between them (rds-desktop render/workspace.rs,      *)
(* render/viewer/workspace.rs, render/viewer/spaces.rs; rds-cli            *)
(* desktop/workspace.rs).  The UI never waits: an event that finds the     *)
(* queue full is dropped or undone.  Tabs of one saved computer share the  *)
(* identity that was authenticated first (PeerBinding), although its name  *)
(* may come to mean another device.                                        *)
(*                                                                         *)
(* One saved computer, several displays.  Clipboard and input of a tab are *)
(* in Clipboards and ViewerInput, the life of one task's session in        *)
(* ControlPlane.                                                           *)
(***************************************************************************)
EXTENDS Naturals, Sequences, FiniteSets, SequencesExt

CONSTANTS Displays,     \* what can be opened
          Peers,        \* identities the computer's name may resolve to
          First,        \* the one it resolves to at first
          MaxTabs,      \* MAX_TABS
          QueueCap,     \* the event channel's 32
          MaxOpens,     \* bound on tab identities
          MaxRestarts,  \* bound on configurations and reconnects
          MaxAsks,      \* bound on lookups and saves
          MaxRenames,   \* bound on changes of the name
          MaxMishaps    \* bound on attempts that fail and windows that do not open

VARIABLES ui,       \* the UI thread's model, views and the queue's tail end
          tasks,    \* network tasks of the actor, by tab and revision
          actor,    \* the event it is handling
          sessions, \* the actor's map: tab -> revision of its task, 0: none
          binding,  \* PeerBinding, "none" until a session was authenticated
          name,     \* whom the computer's name resolves to
          target,   \* DeviceConfig::target: "name" or a pinned identity
          met,      \* identities some session was shown (history)
          lookups, renames, mishaps, exited

wsVars == <<ui, tasks, actor, sessions, binding, name, target, met, lookups, renames, mishaps, exited>>

TabIds == 1 .. MaxOpens
NoTab == 0
Idle == [kind |-> "idle", id |-> NoTab, rev |-> 0]
Start(t) == [kind |-> "start", id |-> t.id, rev |-> t.rev]
Stop(id) == [kind |-> "stop", id |-> id, rev |-> 0]
Inspect == [kind |-> "inspect", id |-> NoTab, rev |-> 0]
Save == [kind |-> "save", id |-> NoTab, rev |-> 0]

WsInit ==
  /\ \E spaces \in BOOLEAN :
       ui = [spaces |-> spaces, tabs |-> <<>>, next |-> 0, active |-> NoTab, deck |-> NoTab,
             inactive |-> {}, panes |-> {NoTab}, views |-> {}, queue |-> <<>>, restarts |-> 0, asks |-> 0]
  /\ tasks = {}
  /\ actor = Idle
  /\ sessions = [id \in TabIds |-> 0]
  /\ binding = "none"
  /\ name = First
  /\ target = "name"
  /\ met = {}
  /\ lookups = "none" /\ renames = 0 /\ mishaps = 0 /\ exited = FALSE

-----------------------------------------------------------------------------
(* WorkspaceModel. *)
IdsOf(u) == {u.tabs[i].id : i \in 1 .. Len(u.tabs)}
TabOf(u, id) == CHOOSE t \in ToSet(u.tabs) : t.id = id
Showing(u, d) == {t \in ToSet(u.tabs) : t.display = d}
Place(u, id) == CHOOSE i \in 1 .. Len(u.tabs) : u.tabs[i].id = id

(* close: the neighbour that takes the place becomes active. *)
ModelClose(u, id) ==
  LET i == Place(u, id)
      rest == RemoveAt(u.tabs, i)
  IN [u EXCEPT !.tabs = rest,
               !.active = IF @ # id THEN @
                          ELSE IF rest = <<>> THEN NoTab
                          ELSE IF i <= Len(rest) THEN rest[i].id ELSE rest[Len(rest)].id]
ModelOpen(u, d) ==
  [u EXCEPT !.next = @ + 1, !.active = u.next + 1,
            !.tabs = Append(@, [id |-> u.next + 1, display |-> d, profile |-> 0, rev |-> 1])]
move_tab(u, id) == [u EXCEPT !.tabs = Append(RemoveAt(@, Place(u, id)), TabOf(u, id))]

(* try_send on the event channel *)
Room(u) == Len(u.queue) < QueueCap
Push(u, e) == IF Room(u) THEN [u EXCEPT !.queue = Append(@, e)] ELSE u
DropView(u, id) == [u EXCEPT !.views = {v \in @ : v[1] # id}]
NewView(u, t) == [u EXCEPT !.views = {v \in @ : v[1] # t.id} \cup {<<t.id, t.rev>>}]

-----------------------------------------------------------------------------
(* Tabs in one window: Deck. *)
workspace_select(u, id) ==
  IF u.deck = id \/ id \notin u.inactive THEN u
  ELSE LET kept == u.deck \in IdsOf(u)
           v == IF kept \/ u.deck = NoTab THEN u ELSE DropView(u, u.deck)
       IN [v EXCEPT !.inactive = (@ \ {id}) \cup (IF kept THEN {u.deck} ELSE {}),
                    !.deck = id, !.active = id]

(* Closing drops the view, and with it the task's input, before it tries to  *)
(* tell the actor.                                                           *)
DropInactive(u, id) == [DropView(u, id) EXCEPT !.inactive = @ \ {id}]
KeepInactive(u, id) == [u EXCEPT !.inactive = @ \ {id}]  \* mutant: only Stop ends a task
Forget(u, id) == DropInactive(u, id)
workspace_close(u, id) ==
  LET closed == ModelClose(u, id)
      told == Push(IF u.deck = id THEN closed ELSE Forget(closed, id), Stop(id))
  IN IF u.deck # id THEN told
     ELSE IF told.active # NoTab THEN workspace_select(told, told.active)
     ELSE [DropView(told, id) EXCEPT !.deck = NoTab]

(* A tab whose Start found the queue full is taken back. *)
RollBack(u, v) == [ModelClose(v, v.next) EXCEPT !.active = IF u.deck # NoTab THEN u.deck ELSE @]
DeckOpen(u, d) ==
  IF Showing(u, d) # {}
  THEN LET t == CHOOSE t \in Showing(u, d) : TRUE
       IN IF t.profile = 0 THEN workspace_select([u EXCEPT !.active = t.id], t.id) ELSE u
  ELSE IF Len(u.tabs) >= MaxTabs THEN u
  ELSE LET v == ModelOpen(u, d)
           t == TabOf(v, v.next)
       IN IF ~Room(u) THEN RollBack(u, v)
          ELSE workspace_select([NewView(Push(v, Start(t)), t) EXCEPT !.inactive = @ \cup {t.id}], t.id)

Undeliverable(u, id) == workspace_close(u, id)
OnFull(u, id) == Undeliverable(u, id)
workspace_restart(u, id) ==
  LET t == TabOf(u, id)
      v == NewView(u, t)
  IN IF Room(u) THEN Push(v, Start(t)) ELSE OnFull(v, id)

-----------------------------------------------------------------------------
(* One window per display: Screens. *)
SpaceClose(u, id) == Push(DropView([ModelClose(u, id) EXCEPT !.panes = @ \ {id}], id), Stop(id))
SpaceOpen(u, d, opens) ==
  IF Showing(u, d) # {} \/ Len(u.tabs) >= MaxTabs THEN u
  ELSE LET v == ModelOpen(u, d)
           t == TabOf(v, v.next)
       IN IF ~opens \/ ~Room(u) THEN ModelClose(v, t.id)
          ELSE [NewView(Push(v, Start(t)), t) EXCEPT !.panes = (@ \cup {t.id}) \ {NoTab}]
SpaceRestart(u, id) ==
  LET t == TabOf(u, id)
      v == NewView(u, t)
  IN IF Room(u) THEN Push(v, Start(t)) ELSE SpaceClose(v, id)

-----------------------------------------------------------------------------
(* The UI thread's actions. *)
Opened(u, d, opens) == IF u.spaces THEN SpaceOpen(u, d, opens) ELSE DeckOpen(u, d)
ClosedTab(u, id) == IF u.spaces THEN SpaceClose(u, id) ELSE workspace_close(u, id)
Restarted(u, id) == IF u.spaces THEN SpaceRestart(u, id) ELSE workspace_restart(u, id)

others == <<tasks, actor, sessions, binding, name, target, met, lookups, renames, exited>>

Open(d) ==
  /\ ~exited /\ ui.next < MaxOpens
  /\ \E opens \in BOOLEAN :
       /\ ~opens => ui.spaces /\ mishaps < MaxMishaps
       /\ mishaps' = IF opens THEN mishaps ELSE mishaps + 1
       /\ ui' = Opened(ui, d, opens)
  /\ UNCHANGED others

(* OpenAll is tried on a copy of the model first and then opened one by one. *)
OpenAll(c, d) ==
  /\ ~exited /\ ui.next + 2 <= MaxOpens /\ c # d
  /\ Cardinality(Showing(ui, c)) + Cardinality(Showing(ui, d)) + MaxTabs >= Len(ui.tabs) + 2
  /\ \A t \in Showing(ui, c) \cup Showing(ui, d) : t.profile = 0
  /\ \E u \in {Opened(ui, c, TRUE)} : ui' = Opened(u, d, TRUE)
  /\ UNCHANGED <<others, mishaps>>

Select(id) ==
  /\ ~exited /\ ~ui.spaces /\ id \in IdsOf(ui)
  /\ ui' = workspace_select([ui EXCEPT !.active = id], id)
  /\ UNCHANGED <<others, mishaps>>

Close(id) ==
  /\ ~exited /\ id \in IdsOf(ui)
  /\ ui' = ClosedTab(ui, id)
  /\ UNCHANGED <<others, mishaps>>

Move(id) ==
  /\ ~exited /\ id \in IdsOf(ui)
  /\ ui' = move_tab(ui, id)
  /\ UNCHANGED <<others, mishaps>>

(* Configure changes the profile, Reconnect keeps it; both start a new       *)
(* revision of the tab.                                                      *)
Configure(id, profile) ==
  /\ ~exited /\ id \in IdsOf(ui) /\ ui.restarts < MaxRestarts
  /\ LET u == [ui EXCEPT !.restarts = @ + 1,
                         !.tabs[Place(ui, id)].rev = @ + 1, !.tabs[Place(ui, id)].profile = profile]
     IN ui' = Restarted(u, id)
  /\ UNCHANGED <<others, mishaps>>

Ask(e) ==
  /\ ~exited
  /\ ui.asks < MaxAsks
  /\ ui' = Push([ui EXCEPT !.asks = @ + 1], e)
  /\ UNCHANGED <<others, mishaps>>

(* The window closes: every task's token is a child of the stop token. *)
Exit ==
  /\ ~exited
  /\ exited' = TRUE
  /\ tasks' = {[t EXCEPT !.stop = TRUE] : t \in tasks}
  /\ ui' = [ui EXCEPT !.tabs = <<>>, !.active = NoTab, !.deck = NoTab, !.inactive = {}, !.panes = {},
                      !.views = {}, !.queue = <<>>]
  /\ lookups' = "none"
  /\ UNCHANGED <<actor, sessions, binding, name, target, met, renames, mishaps>>

-----------------------------------------------------------------------------
(* The actor handles one event at a time. *)
Running(id) == {t \in tasks : t.id = id}
Cancel(id) == {IF t.id = id /\ t.rev = sessions[id] THEN [t EXCEPT !.stop = TRUE] ELSE t : t \in tasks}
ActorTakes ==
  /\ ~exited /\ actor = Idle /\ ui.queue # <<>>
  /\ actor' = Head(ui.queue)
  /\ ui' = [ui EXCEPT !.queue = Tail(@)]
  /\ tasks' = IF actor'.kind \in {"start", "stop"} THEN Cancel(actor'.id) ELSE tasks
  /\ UNCHANGED <<sessions, binding, name, target, met, lookups, renames, mishaps, exited>>

(* finish: the previous task of the tab is joined, or aborted after three    *)
(* seconds, before the next one starts.                                      *)
Joined(id) == \A t \in tasks : t.id = id => t.rev # sessions[id]
Finished(id) == Joined(id)
ActorStarts ==
  /\ actor.kind = "start" /\ Finished(actor.id)
  /\ tasks' = IF exited THEN tasks
              ELSE tasks \cup {[id |-> actor.id, rev |-> actor.rev, at |-> "connecting",
                                peer |-> target, stop |-> FALSE]}
  /\ sessions' = [sessions EXCEPT ![actor.id] = actor.rev]
  /\ actor' = Idle
  /\ UNCHANGED <<ui, binding, name, target, met, lookups, renames, mishaps, exited>>
ActorStops ==
  /\ actor.kind = "stop" /\ Finished(actor.id)
  /\ sessions' = [sessions EXCEPT ![actor.id] = 0]
  /\ actor' = Idle
  /\ UNCHANGED <<ui, tasks, binding, name, target, met, lookups, renames, mishaps, exited>>

(* inspect looks the displays up over a connection of its own and pins the   *)
(* identity it met in the saved profile.                                     *)
ActorInspects ==
  /\ actor.kind = "inspect"
  /\ lookups' = IF lookups # "none" \/ exited THEN lookups
                ELSE IF binding # "none" THEN binding
                ELSE IF target # "name" THEN target ELSE name
  /\ actor' = Idle
  /\ UNCHANGED <<ui, tasks, sessions, binding, name, target, met, renames, mishaps, exited>>
InspectionEnds ==
  /\ lookups # "none" /\ ~exited
  /\ \E ok \in BOOLEAN : target' = IF ok THEN lookups ELSE target
  /\ lookups' = "none"
  /\ UNCHANGED <<ui, tasks, actor, sessions, binding, name, met, renames, mishaps, exited>>

(* Save writes the identity the tabs are bound to, if any. *)
ActorSaves ==
  /\ actor.kind = "save"
  /\ target' = IF binding # "none" THEN binding ELSE target
  /\ actor' = Idle
  /\ UNCHANGED <<ui, tasks, sessions, binding, name, met, lookups, renames, mishaps, exited>>

-----------------------------------------------------------------------------
(* A network task: desktop.rs network and managed_session. *)
Becomes(t, u) == tasks' = (tasks \ {t}) \cup {u}
taskOthers == <<ui, actor, sessions, name, target, lookups, renames, exited>>

(* The manager connects to the bound identity, the pinned target or whatever *)
(* the name means now; the peer it met is read back later.                   *)
Connects(t) ==
  /\ t.at = "connecting" /\ ~t.stop
  /\ Becomes(t, [t EXCEPT !.at = "verifying",
                          !.peer = IF binding # "none" THEN binding
                                   ELSE IF t.peer # "name" THEN t.peer ELSE name])
  /\ UNCHANGED <<taskOthers, binding, met, mishaps>>

(* authenticated: the first identity binds the tabs; another one is refused. *)
SameAsBound(p) == binding = "none" \/ binding = p
authenticated(p) == SameAsBound(p)
Verifies(t) ==
  /\ t.at = "verifying" /\ ~t.stop
  /\ IF authenticated(t.peer)
     THEN /\ binding' = t.peer /\ met' = met \cup {t.peer}
          /\ Becomes(t, [t EXCEPT !.at = "session"])
     ELSE /\ Becomes(t, [t EXCEPT !.at = "pause"])
          /\ UNCHANGED <<binding, met>>
  /\ UNCHANGED <<taskOthers, mishaps>>

AttemptFails(t) ==
  /\ t.at \in {"connecting", "session"} /\ mishaps < MaxMishaps
  /\ mishaps' = mishaps + 1
  /\ Becomes(t, [t EXCEPT !.at = "pause"])
  /\ UNCHANGED <<taskOthers, binding, met>>

(* The dropped input is noticed in a session and in a pause, never while an  *)
(* attempt is being made.                                                    *)
HasView(t) == <<t.id, t.rev>> \in ui.views
Retries(t) ==
  /\ t.at = "pause" /\ ~t.stop /\ HasView(t)
  /\ Becomes(t, [t EXCEPT !.at = "connecting"])
  /\ UNCHANGED <<taskOthers, binding, met, mishaps>>
SeesClose(t) ==
  /\ t.at \in {"session", "pause"} /\ ~HasView(t)
  /\ tasks' = tasks \ {t}
  /\ UNCHANGED <<taskOthers, binding, met, mishaps>>
SeesStop(t) ==
  /\ t.stop
  /\ tasks' = tasks \ {t}
  /\ UNCHANGED <<taskOthers, binding, met, mishaps>>

(* The registry binds the computer's name to another device. *)
Rename(p) ==
  /\ renames < MaxRenames /\ p # name
  /\ name' = p /\ renames' = renames + 1
  /\ UNCHANGED <<ui, tasks, actor, sessions, binding, target, met, lookups, mishaps, exited>>

TaskStep == \E t \in tasks :
  \/ Connects(t) \/ Verifies(t) \/ AttemptFails(t) \/ Retries(t) \/ SeesClose(t) \/ SeesStop(t)
ActorStep == \/ ActorTakes \/ ActorStarts \/ ActorStops
             \/ ActorInspects \/ InspectionEnds \/ ActorSaves

WsNext ==
  \/ \E d \in Displays : Open(d)
  \/ \E c, d \in Displays : OpenAll(c, d)
  \/ \E id \in TabIds : Select(id) \/ Close(id) \/ Move(id)
                        \/ \E profile \in {0, 1} : Configure(id, profile)
  \/ \E e \in {Inspect, Save} : Ask(e)
  \/ Exit \/ TaskStep \/ ActorStep
  \/ \E p \in Peers : Rename(p)

(* The runtime polls every task: attempts end, and what was cancelled or     *)
(* closed is noticed.                                                        *)
WsFairness ==
  \A id \in TabIds, rev \in 1 .. MaxRestarts + 1 :
    WF_wsVars(\E t \in tasks : t.id = id /\ t.rev = rev
                 /\ (Connects(t) \/ Verifies(t) \/ SeesClose(t) \/ SeesStop(t)))
WsSpec == WsInit /\ [][WsNext]_wsVars /\ WsFairness

-----------------------------------------------------------------------------
WsTypeOK ==
  /\ Len(ui.tabs) <= MaxTabs /\ Len(ui.queue) <= QueueCap
  /\ ui.active \in IdsOf(ui) \cup {NoTab}
  /\ binding \in Peers \cup {"none"}

(* Every open tab has exactly one view, of its current revision, and the     *)
(* presentation shows what the model says, also after an open or a restart   *)
(* that had to be undone because the queue was full (viewer/workspace.rs     *)
(* workspace_open, workspace_restart; spaces.rs pane, restart).              *)
ViewsMatchTabs ==
  ~exited =>
    /\ ui.views = {<<t.id, t.rev>> : t \in ToSet(ui.tabs)}
    /\ IF ui.spaces THEN ui.panes \ {NoTab} = IdsOf(ui)
       ELSE ui.deck = ui.active /\ ui.inactive = IdsOf(ui) \ {ui.deck}

(* When the actor has worked through the queue, every open tab has a task of *)
(* its current revision: no tab is left without one because an event was     *)
(* dropped.                                                                  *)
NoDeadTab ==
  ~exited /\ ui.queue = <<>> /\ actor = Idle =>
    \A t \in ToSet(ui.tabs) : sessions[t.id] = t.rev

(* A tab never has two tasks: a restart joins the old one before the new one *)
(* connects (desktop/workspace.rs SessionTask::finish).                      *)
OneStreamPerTab == \A id \in TabIds : Cardinality(Running(id)) <= 1

(* All tabs of a computer are shown one device, whatever its name comes to   *)
(* mean while they connect and reconnect (desktop.rs PeerBinding).           *)
OneIdentity == Cardinality(met) <= 1

=============================================================================
