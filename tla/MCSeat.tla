---------------------------- MODULE MCSeat ----------------------------
(***************************************************************************)
(* Input and clipboards of a remote desktop.  "input": two keys, a button  *)
(* and two sessions.  "aim": two positions and a button.  "x11", "copy"    *)
(* and "selection": the clipboards of an X server, of a viewer with two    *)
(* panes and of a portal.  "ei" and "portal": input and screen casts       *)
(* through the desktop portal.                                             *)
(***************************************************************************)
EXTENDS Naturals

VARIABLES
    workload, srv, wire, eof, cur, waiting, lost, worker, owners, down,
    pointer, clicks, trouble, phys, focused, flags, held, aim, queue,
    view, net, sess, gestures, xfixes, owner, copies, xEvents, property,
    answers, publishing, marked, texts, heldText, lastOwner, reading,
    found, gaveUp, windows, nextWin, reported, serving, pasted, pane,
    handoff, fence, native, focus, paste, offer, outgoing, events,
    requests, session, source, locals, copyGestures, handler, raced, heard, claims,
    copyPasted, portal, ownersQ, transfersQ, poll, offered, previous,
    generation, selectionReading, wanted, writes, writing, snapshot,
    lease, job, answer, selectionPasted, owed, selectionTrouble, eiWorker,
    eiStop, eiReady, era, resumed, holds, known, sink, eiRequests,
    inFlight, acked, unsent, toPeer, toUs, peer, pressed, inputs, pauses,
    lateWrite, prep, lock, store, visible, durable, portalTok, own, slot,
    pipe, pipeStop, coord, coordStop, closed, pictures, served,
    portalLost, crashes, formats

Input ==
    INSTANCE ViewerInput WITH
        Keys <- {"m", "k"}, Modifiers <- {"m"}, Buttons <- {"b"},
        Positions <- {1}, QueueCap <- 3, WireCap <- 1,
        MaxSessions <- 2, MaxWorkers <- 2, MaxTrouble <- 1,
        MaxGestures <- 3

\* A user who only points and clicks, in one session.
Aim ==
    INSTANCE ViewerInput WITH
        Keys <- {"m", "k"}, Modifiers <- {"m"}, Buttons <- {"b"},
        Positions <- {1, 2}, QueueCap <- 4, WireCap <- 1,
        MaxSessions <- 2, MaxWorkers <- 2, MaxTrouble <- 0,
        MaxGestures <- 5

Clip ==
    INSTANCE Clipboards WITH
        MaxCopies <- 2, MaxTexts <- 1, Pieces <- 2, Readers <- {"r1"},
        MaxServed <- 1, Panes <- {"p", "q"}, CopyPieces <- 1,
        CopyMaxTexts <- 2, MaxGestures <- 2, MaxTrouble <- 1,
        gestures <- copyGestures

Portal ==
    INSTANCE PortalSession WITH
        Leases <- {1}, MaxCopies <- 2, MaxTexts <- 1, MaxPastes <- 1,
        MaxWriting <- 2, MaxTrouble <- 1, reading <- selectionReading,
        pasted <- selectionPasted, trouble <- selectionTrouble,
        Sinks <- {1, 2}, Items <- {"k"}, Devices <- {"kbd", "ptr"},
        DeviceOf <- [k |-> "kbd"], QueueCap <- 1, WireCap <- 1,
        MaxInputs <- 2, MaxPauses <- 1, requests <- eiRequests,
        Ids <- {"x", "y"}, MaxAttempts <- 2, Permits <- 1,
        MaxCrashes <- 1, MaxFormats <- 2, lost <- portalLost

inputVars ==
    <<srv, wire, eof, cur, waiting, lost, worker, owners, down, pointer,
      clicks, trouble, phys, focused, flags, held, aim, queue, view,
      net, sess, gestures>>
x11Vars ==
    <<xfixes, owner, copies, xEvents, property, answers, publishing, marked,
      texts, heldText, lastOwner, reading, found, gaveUp, windows,
      nextWin, reported, serving, pasted>>
copyVars ==
    <<pane, handoff, fence, native, focus, paste, offer, outgoing, events,
      requests, session, source, locals, copyGestures, handler, raced, heard,
      claims, copyPasted>>
selectionVars ==
    <<portal, ownersQ, transfersQ, poll, offered, previous, generation,
      selectionReading, wanted, writes, writing, snapshot, lease, job,
      answer, selectionPasted, owed, selectionTrouble>>
eiVars ==
    <<eiWorker, eiStop, eiReady, era, resumed, holds, known, sink, eiRequests,
      inFlight, acked, unsent, toPeer, toUs, peer, pressed, inputs,
      pauses, lateWrite>>
portalVars ==
    <<prep, lock, store, visible, durable, portalTok, own, slot, pipe,
      pipeStop, coord, coordStop, closed, pictures, served, portalLost,
      crashes, formats>>

MCInit ==
    /\ workload \in {"input", "aim", "x11", "copy", "selection", "ei", "portal"}
    /\ Input!InputInit
    /\ Clip!ClipInit
    /\ workload # "x11" => xfixes
    /\ Clip!CopyInit
    /\ workload # "copy" => focus = "p"
    /\ Portal!PbInit
    /\ Portal!EiInit
    /\ Portal!PdInit

MCNext ==
    /\ UNCHANGED workload
    /\ \/ workload = "input" /\ Input!InputNext /\ (trouble' = 0 \/ gestures' <= 2)
           /\ UNCHANGED <<x11Vars, copyVars, selectionVars, eiVars, portalVars>>
       \/ workload = "aim" /\ Aim!InputNext /\ sess' <= 1 /\ phys' \subseteq {"b"} /\ focused'
           /\ UNCHANGED <<x11Vars, copyVars, selectionVars, eiVars, portalVars>>
       \/ workload = "x11" /\ Clip!ClipNext
           /\ UNCHANGED <<inputVars, copyVars, selectionVars, eiVars, portalVars>>
       \/ workload = "copy" /\ Clip!CopyNext
           /\ UNCHANGED <<inputVars, x11Vars, selectionVars, eiVars, portalVars>>
       \/ workload = "selection" /\ Portal!PbNext
           /\ UNCHANGED <<inputVars, x11Vars, copyVars, eiVars, portalVars>>
       \/ workload = "ei" /\ Portal!EiNext
           /\ UNCHANGED <<inputVars, x11Vars, copyVars, selectionVars, portalVars>>
       \/ workload = "portal" /\ Portal!PdNext /\ (crashes' = 0 \/ formats' <= 1)
           /\ UNCHANGED <<inputVars, x11Vars, copyVars, selectionVars, eiVars>>

MCSpec ==
    /\ MCInit
    /\ [][MCNext]_<<workload, inputVars, x11Vars, copyVars, selectionVars, eiVars, portalVars>>

\* A key is down exactly while a session holds it, on X11 and through the portal;
\* an action sent for a request that was reported as failed is the last of its
\* worker, releases never take a desktop down, and a click lands where it was
\* aimed (x11/repeat.rs, portal/input.rs, InputSender::send).
InputOwned ==
    /\ workload = "input" => Input!HeldWhileOwned
    /\ workload = "aim" => Aim!ClicksLand
    /\ workload = "ei" => Portal!HoldsAgree /\ Portal!LateIsLast /\ Portal!ReleaseNeverFails

\* A text that is pasted or reported is one whole text, of the copy it was asked
\* for, and never one's own; a remote text never replaces a copy made before it
\* was allowed on the pasteboard.  Another program's copy that comes between two
\* accesses of one handler is the exception: it may be overwritten, or pasted
\* (clipboard/x11.rs, render/clipboard.rs, portal/clipboard.rs).
TextsAreTrue ==
    /\ [](workload = "x11" => Clip!WholeTexts)
    /\ [](workload = "copy" => Clip!PasteIsTheCopy)
    /\ [](workload = "selection" => Portal!NoEcho /\ Portal!NothingStale)
    /\ Clip!NewestWins

\* A display number names one monitor for ever, a preparation never finds the
\* lock of one that returned, and an ended screen cast leaves no picture behind
\* (portal/state.rs, portal/mod.rs, portal/capture.rs).
PortalConsistent ==
    workload = "portal" =>
        Portal!NumbersStable /\ Portal!NeverBusy /\ Portal!NoStalePixels
=============================================================================
