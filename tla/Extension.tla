------------------------------ MODULE Extension ------------------------------
(***************************************************************************)
(* The Chrome extension as one system: connecting (Connection) and         *)
(* recording (Recorder) share the connection, the app page's bridge and    *)
(* the service worker, which is stopped with all that both had in memory.  *)
(***************************************************************************)
EXTENDS Recorder

vars == <<connVars, recVars, left>>

TypeOK == ConnectionTypeOK /\ RecorderTypeOK

Init == ConnectionInit /\ RecorderInit

AtWork == Busy \/ leaving # {} \/ queue # <<>> \/ queries # {} \/ saving # None \/ starting = "taken"

Next ==
    \/ ConnectionNext /\ UNCHANGED recVars
    \/ AtWork /\ Stopping /\ RecorderStops
    \/ RecorderNext /\ UNCHANGED connVars

(* A message to the worker is delivered and its handler goes on; a page    *)
(* loads and mounts.  Nothing is asked of the person, and the worker may   *)
(* be stopped.                                                             *)
Fairness ==
    /\ WF_vars(announce /\ UNCHANGED recVars)
    /\ WF_vars(PopupFinishes /\ UNCHANGED recVars)
    /\ WF_vars(Finishing /\ UNCHANGED recVars)
    /\ WF_vars(Paging /\ UNCHANGED recVars)
    /\ WF_vars(Shaking /\ UNCHANGED recVars)

Spec == Init /\ [][Next]_vars /\ Fairness

(* The browser is connected as the person last asked: one click opens one  *)
(* page; a Disconnect is undone, and a newer connection taken over, by no  *)
(* earlier click but one whose handshake was accepted already; a completed *)
(* connect leaves no older attempt; and the app says connected only of a   *)
(* connection there was (finishConnect, disconnect, acceptHandshake,       *)
(* probeExtension).                                                        *)
ConnectsAsAsked ==
    /\ TypeOK /\ OneTabPerClick
    /\ DisconnectSticks /\ OlderGivesWay /\ AttemptIsNewer /\ PillIsRecent

(* A connect that was allowed comes to its end, though Chrome closes the   *)
(* popup over its own prompt and pages load in their own time              *)
(* (permissions.onAdded, injectIfLoaded).                                  *)
ConnectCompletes == HandedOver /\ GrantedIsPerformed

(* What the person did is recorded once and as done: a press is one Step,  *)
(* a navigation is told by its click (unless the click comes late or had   *)
(* moved the page twice by then), a Step has the role of its own element,  *)
(* and a re-pick answers once, in whatever order page, Chrome and worker   *)
(* tell of them (recorder-content.js, assembleInteraction).                *)
RecordedAsDone == OnceEach /\ NavigatesOnce /\ OwnRole /\ OneAnswer

(* A recording is saved whole and without its passwords: their values stay *)
(* on the page, each password Step is bound to the Secret chosen for it,   *)
(* and a saved login is not replaced by an empty one while the browser has *)
(* cookies (unless access goes while they are read), though a save may be  *)
(* refused half-way and tried again (finalizeRecording).                   *)
SavedWhole == PasswordsStay /\ SavedBinds /\ LoginKept
=============================================================================
