----------------------------- MODULE MCToolCalls -----------------------------
(* The tools, for TLC: one call of any of them.                              *)
EXTENDS TapTools, AlertTools, NavTools, ReadTools, SettingTools, AppTools, ScenarioTools,
  FlutterTools, QaTools, BrowserTools, EvidenceTools

Of(options) == call.tool \in DOMAIN options

ToolsInit == TapInit \/ AlertInit \/ NavInit \/ ReadInit \/ SettingInit \/ AppInit
  \/ ScenarioInit \/ FlutterInit \/ QaInit \/ BrowserInit \/ EvidenceInit
ToolsStep ==
  \/ Of(TapOptions) /\ TapStep
  \/ Of(AlertOptions) /\ AlertStep
  \/ Of(NavOptions) /\ NavStep
  \/ Of(ReadOptions) /\ ReadStep
  \/ Of(SettingOptions) /\ SettingStep
  \/ Of(AppOptions) /\ AppStep
  \/ Of(ScenarioOptions) /\ PoolStep
  \/ Of(FlutterOptions) /\ FlutterStep
  \/ Of(QaOptions) /\ QaStep
  \/ Of(BrowserOptions) /\ BrowserStep
  \/ Of(EvidenceOptions) /\ EvidenceStep
ToolsNext ==
  \/ Of(TapOptions) /\ TapNext
  \/ Of(AlertOptions) /\ AlertNext
  \/ Of(NavOptions) /\ NavNext
  \/ Of(ReadOptions) /\ ReadNext
  \/ Of(SettingOptions) /\ SettingNext
  \/ Of(AppOptions) /\ AppNext
  \/ Of(ScenarioOptions) /\ PoolNext
  \/ Of(FlutterOptions) /\ FlutterNext
  \/ Of(QaOptions) /\ QaNext
  \/ Of(BrowserOptions) /\ BrowserNext
  \/ Of(EvidenceOptions) /\ EvidenceNext

\* A handler goes on as long as its awaits end; what it acts on need not move.
ToolsSpec == ToolsInit /\ [][ToolsNext]_tvars /\ WF_tvars(ToolsStep)

(***************************************************************************)
(* What a tool says it did or saw is so: a verified tap changed the        *)
(* screen, a counted alert was pressed, a page it claims to have reached   *)
(* was on top, an element it found or missed was or was not there, a       *)
(* screen it calls stable was, an app the tap put into the background is   *)
(* reported, a program it calls paused was, what it found of an app's      *)
(* selectors, targets, routes and requests is there, what it did to a      *)
(* page, its fields and its cookies is done, the evidence it gathered is    *)
(* there, and a code it took from a mailbox is of the newest mail.         *)
(***************************************************************************)
ClaimsAreTrue ==
  /\ VerifiedSawChange /\ BackgroundingIsReported
  /\ CountedHadAnEffect
  /\ NavClaimsAreTrue
  /\ PresenceIsTrue /\ StableWasObserved
  /\ VerdictsAreEarned /\ HybridCleansUp
  /\ FlutterClaims /\ QaClaims /\ BrowserClaims /\ EvidenceIsTrue /\ CodeIsNewest

(***************************************************************************)
(* What a tool says it gave back or turned off, it did: the appearance,    *)
(* the clipboard, the keyboard, the overlays and the status bar it         *)
(* borrowed, the listeners and the recording in the Flutter VM, and the    *)
(* HTTP proxy it stopped.                                                  *)
(***************************************************************************)
SaidIsUndone == BorrowedIsReturned /\ FlutterLeavesNothing /\ QaLeavesNothing /\ EvidenceIsUndone
=============================================================================
