------------------------------ MODULE AppTools ------------------------------
(***************************************************************************)
(* The tools that start, stop, reset and address one app of a device, and  *)
(* the native profiles they save and restore: app_launch, app_activate,    *)
(* app_switch_app, app_terminate, app_reset, app_deeplink, the one-command *)
(* tools, app_push_notification, app_biometric, auth_otp_fetch, and        *)
(* auth_save_native, auth_restore_native, auth_delete_native.              *)
(* A profile is an archive of the app's data container, one of the         *)
(* device's keychains, and the file that says which there are; each        *)
(* command on the way may fail, some after half of their work.             *)
(*                                                                         *)
(* Data is what it was "now" when the call came, what an "old" profile     *)
(* held, "empty", "torn" (a part of something) or "gone".                  *)
(***************************************************************************)
EXTENDS ToolCall

MaxMails == 2   \* bound: the mails that come while a code is looked for

\* What a caller may ask of each tool. launch and reset restore and save a
\* profile on their way when they are given one.
AppOptions ==
  [launch |-> {"profile"}, activate |-> {}, switch |-> {"url"}, terminate |-> {},
   reset |-> {"profile", "keychain"}, deeplink |-> {"logs", "route"}, command |-> {},
   notify |-> {}, biometric |-> {"enroll", "resolve"}, otp |-> {"webhook", "recipient"},
   save_native |-> {"keychain"}, restore_native |-> {"relaunch"}, delete_native |-> {}]

\* file: the keychain archive's part in profile.json, or that there is none.
AppInit ==
  /\ \E data, keys \in {"now", "gone"}, profile \in BOOLEAN, tarKeys \in {"old", "torn", "gone"} :
       world = [booted |-> TRUE, running |-> data # "gone", screen |-> "app", others |-> FALSE,
                data |-> data, keys |-> keys, payload |-> FALSE, notified |-> FALSE,
                enrolled |-> FALSE, mails |-> <<>>,
                tar |-> IF profile THEN "old" ELSE "gone",
                tarKeys |-> IF profile THEN tarKeys ELSE "gone",
                file |-> IF ~profile THEN "gone"
                         ELSE IF tarKeys = "gone" THEN "data" ELSE "both"]
  /\ call \in ToolCalls(AppOptions, [down |-> FALSE, stuck |-> FALSE, kept |-> "gone",
                                 ran |-> FALSE, warned |-> FALSE, given |-> <<>>])

\* The app ends by itself, or something else comes to the screen.
Wander ==
  /\ ~Ended /\ UNCHANGED call
  /\ \/ world' = [world EXCEPT !.running = FALSE, !.screen = "home"]
     \/ world' = [world EXCEPT !.others = TRUE, !.screen = "other"]

\* A mail comes to the mailbox, which lists the newest one first: with a code for the
\* user, with one for somebody else, or with none.
MailComes ==
  /\ call.tool = "otp" /\ ~Ended /\ Len(world.mails) < MaxMails /\ UNCHANGED call
  /\ \E mail \in {"mine", "foreign", "plain"} : world' = [world EXCEPT !.mails = <<mail>> \o @]

Halted(w) == [w EXCEPT !.running = FALSE, !.screen = "home"]
Wound(w) == [Halted(w) EXCEPT !.booted = FALSE]
Fronted(w) == [w EXCEPT !.running = TRUE, !.screen = "app"]
Present == world.booted /\ world.data # "gone"

\* What fails of a profile ends its own tools; app_reset and app_launch go on
\* with a warning.
Failed(c) ==
  IF c.tool \in {"reset", "launch"}
  THEN [c EXCEPT !.at = IF c.tool = "reset" THEN "wipe" ELSE "launch", !.warned = TRUE]
  ELSE [c EXCEPT !.at = "end", !.out = "error"]
GivesUp(from) == Became(call.tool, from, Failed(call))

----------------------------------------------------------------------------
(* The profile: NativeAuthManager.save, for save_native and app_reset. *)

Saving == {"save_native", "reset"}

\* The app is stopped first; that simctl could not is taken for an app that did
\* not run.
SaveStop ==
  /\ world' \in {Halted(world), world}
  /\ Became(call.tool, "save", [call EXCEPT !.at = "pack", !.ran = world'.running,
                                            !.kept = world.data])

\* Mutant of SavePack: an archive that failed is kept.
SavePackHopes ==
  \/ /\ Present /\ Go(call.tool, "pack", "packed")
     /\ world' = [world EXCEPT !.tar = IF call.ran THEN "torn" ELSE world.data]
  \/ /\ Go(call.tool, "pack", "packed")
     /\ world' \in {world, [world EXCEPT !.tar = "torn"]}

\* The container is archived over the archive of an earlier save.
SavePack ==
  \/ /\ Present /\ Go(call.tool, "pack", "packed")
     /\ world' = [world EXCEPT !.tar = IF call.ran THEN "torn" ELSE world.data]
  \/ GivesUp("pack") /\ world' \in {world, [world EXCEPT !.tar = "torn"]}

\* The keychains are archived with the device down. What cannot tell whether it
\* is booted leaves it as it is; a shutdown that fails, or that took effect and is
\* answered as failed, is not followed by the boot (it comes before the try).
KeysBegin(from, to) ==
  \/ /\ world.booted /\ world' = Wound(world)
     /\ Became(call.tool, from, [call EXCEPT !.at = to, !.down = TRUE])
  \/ Pass(call.tool, from, to)
  \/ world.booted /\ GivesUp(from) /\ UNCHANGED world
  \/ /\ world.booted /\ world' = Wound(world)
     /\ Became(call.tool, from, Failed([call EXCEPT !.stuck = TRUE]))

\* The boot of a finally clause, after a success and after a failure.
BootAgain(from, next) ==
  \/ call.down /\ Became(call.tool, from, next) /\ world' = [world EXCEPT !.booted = TRUE]
  \/ ~call.down /\ Became(call.tool, from, next) /\ UNCHANGED world
  \/ /\ call.down /\ UNCHANGED world
     /\ Became(call.tool, from, Failed([call EXCEPT !.stuck = TRUE]))

SaveKeys ==
  \/ ~Opt("keychain") /\ Pass(call.tool, "packed", "write")
  \/ Opt("keychain") /\ KeysBegin("packed", "packKeys")
  \/ /\ world.keys = "gone" /\ Pass(call.tool, "packKeys", "boot")
  \/ /\ world.keys # "gone"  \* also an archive that failed has been named
     /\ Became(call.tool, "packKeys", [call EXCEPT !.at = "boot", !.given = <<"keys">>])
     /\ \E tar \in {world.keys, "torn", world.tarKeys} : world' = [world EXCEPT !.tarKeys = tar]
  \/ BootAgain("boot", [call EXCEPT !.at = "write"])

\* profile.json is written last, in place.
SaveWrite ==
  \/ /\ Go(call.tool, "write", IF call.tool = "reset" THEN "wipe" ELSE "saved")
     /\ world' = [world EXCEPT !.file = IF call.given = <<>> THEN "data" ELSE "both"]
  \/ GivesUp("write") /\ world' \in {world, [world EXCEPT !.file = "torn"]}

NativeSave ==
  call.tool \in Saving /\ (SaveStop \/ SavePack \/ SaveKeys \/ SaveWrite)

AuthSaveNative ==
  \/ End("save_native", "begin", "refused")
  \/ Pass("save_native", "begin", "save")
  \/ End("save_native", "saved", "saved")

----------------------------------------------------------------------------
(* NativeAuthManager.restore, for restore_native and app_launch. *)

Restoring == {"restore_native", "launch"}

\* The profile is read before anything is touched; then the app is stopped.
RestoreRead ==
  \/ /\ world.file \in {"data", "both"} /\ Go(call.tool, "restore", "wipeData")
     /\ world' \in {Halted(world), world}
  \/ GivesUp("restore") /\ UNCHANGED world

\* Mutant of RestoreData: an archive that cannot be unpacked whole is enough.
RestoreDataPart ==
  \/ /\ Present /\ Go(call.tool, "wipeData", "restored")
     /\ \E data \in {world.tar, "torn", "empty"} : world' = [world EXCEPT !.data = data]
  \/ GivesUp("wipeData") /\ UNCHANGED world

\* The container is emptied, then filled from the archive; a failure leaves what
\* was done until then.
RestoreData ==
  \/ /\ Present /\ world.tar # "gone" /\ Go(call.tool, "wipeData", "restored")
     /\ world' = [world EXCEPT !.data = world.tar]
  \/ /\ GivesUp("wipeData")
     /\ IF Present THEN \E data \in {world.data, "torn", "empty"} :
                          world' = [world EXCEPT !.data = data]
                   ELSE UNCHANGED world

\* Mutant of RestoreKeys: the device is booted after a success only.
RestoreKeysLater ==
  \/ world.file = "data" /\ Pass(call.tool, "restored", "relaunch")
  \/ world.file = "both" /\ KeysBegin("restored", "wipeKeys")
  \/ /\ world.tarKeys = "old" /\ Go(call.tool, "wipeKeys", "bootRestored")
     /\ world' = [world EXCEPT !.keys = world.tarKeys]
  \/ GivesUp("wipeKeys") /\ \E keys \in {world.keys, "torn", "gone"} : world' = [world EXCEPT !.keys = keys]
  \/ BootAgain("bootRestored", [call EXCEPT !.at = "relaunch"])

RestoreKeys ==
  \/ world.file = "data" /\ Pass(call.tool, "restored", "relaunch")
  \/ world.file = "both" /\ KeysBegin("restored", "wipeKeys")
  \/ /\ world.tarKeys = "old" /\ Go(call.tool, "wipeKeys", "bootRestored")
     /\ world' = [world EXCEPT !.keys = world.tarKeys]
  \/ /\ Go(call.tool, "wipeKeys", "bootFailed")
     /\ \E keys \in {world.keys, "torn", "gone"} : world' = [world EXCEPT !.keys = keys]
  \/ BootAgain("bootRestored", [call EXCEPT !.at = "relaunch"])
  \/ BootAgain("bootFailed", Failed(call))

\* What a restore claims: the archives it has unpacked.
RestoreDone ==
  /\ call.tool \in Restoring /\ call.at = "relaunch"
  /\ call' = [call EXCEPT !.at = IF call.tool = "launch" \/ Opt("relaunch")
                                 THEN "launch" ELSE "answer",
                          !.given = IF world.file = "both" THEN <<world.tar, world.tarKeys>>
                                                           ELSE <<world.tar>>]
  /\ UNCHANGED world

NativeRestore ==
  call.tool \in Restoring /\ (RestoreRead \/ RestoreData \/ RestoreKeys \/ RestoreDone)

AuthRestoreNative ==
  \/ End("restore_native", "begin", "refused")
  \/ Pass("restore_native", "begin", "restore")
  \/ End("restore_native", "answer", "restored")

\* The directory of the profile is removed, a file after the other.
AuthDeleteNative ==
  \/ /\ Answers("delete_native", "begin", "deleted")
     /\ world' = [world EXCEPT !.tar = "gone", !.tarKeys = "gone", !.file = "gone"]
  \/ /\ Answers("delete_native", "begin", "error")
     /\ \E tar \in {world.tar, "gone"}, keys \in {world.tarKeys, "gone"},
           file \in {world.file, "gone"} :
          world' = [world EXCEPT !.tar = tar, !.tarKeys = keys, !.file = file]

----------------------------------------------------------------------------
(* The app: AppManager and the tools around it. *)

\* launchApp: the device must be booted and the app installed.
LaunchApp(tool, to) ==
  \/ Present /\ Go(tool, "launch", to) /\ world' = Fronted(world)
  \/ Throws(tool, {"launch"})

AppLaunch ==
  \/ End("launch", "begin", "refused")
  \/ Pass("launch", "begin", IF Opt("profile") THEN "restore" ELSE "launch")
  \/ LaunchApp("launch", "answer")
  \/ LaunchApp("restore_native", "answer")
  \/ End("launch", "answer", "launched")

\* activateApp takes an app that runs for one that is in front, and launches it
\* when it does not run or the list of those that do could not be read.
BringForward ==
  \/ End("activate", "begin", "refused")
  \/ world.booted /\ world.running /\ Pass("activate", "begin", "probe")
  \/ Pass("activate", "begin", "launch")
  \/ LaunchApp("activate", "probe")

\* probeMobileContext reads the tree and the list of running apps: the app's own
\* content is told from another app's only when no other app runs.
Match ==
  IF world.screen = "home" \/ ~world.running THEN "mismatch"
  ELSE IF world.others THEN "unknown" ELSE "matched"

\* A mismatch is an error; what is not known, or could not be read, a warning.
AppProbes(tool) ==
  \/ Match = "mismatch" /\ End(tool, "probe", "mismatch")
  \/ Match = "matched" /\ End(tool, "probe", "activated")
  \/ End(tool, "probe", "unverified")

AppActivate == BringForward \/ AppProbes("activate")

AppSwitchApp ==
  \/ End("switch", "begin", "refused")
  \/ ~Opt("url") /\ Pass("switch", "begin", "launch")
  \/ Opt("url") /\ Act("switch", "begin", "probe", {Fronted(world), world})
  \/ LaunchApp("switch", "probe")
  \/ Throws("switch", {"begin"})
  \/ AppProbes("switch")

\* An app that does not run, like one that could not be stopped, is not an error.
AppTerminate ==
  \/ End("terminate", "begin", "refused")
  \/ /\ world.booted /\ Answers("terminate", "begin", "terminated")
     /\ world' = Halted(world)
  \/ End("terminate", "begin", "unterminated")
  \/ Throws("terminate", {"begin"})

\* resetApp: its three commands are tried one after the other, and only an app
\* that is not installed is an error.
AppReset ==
  \/ End("reset", "begin", "refused")
  \/ Pass("reset", "begin", IF Opt("profile") THEN "save" ELSE "wipe")
  \/ ~world.booted /\ End("reset", "wipe", "error")
  \/ world.booted /\ Act("reset", "wipe", "privacy", {Halted(world), world})
  \/ Pass("reset", "privacy", "uninstall")
  \/ world.data = "gone" /\ End("reset", "uninstall", "error")
  \/ /\ Present /\ Answers("reset", "uninstall", "reset")
     /\ world' = [Halted(world) EXCEPT !.data = "gone"]
  \/ End("reset", "uninstall", "reset")

\* The URL is opened; the logs and the route are polled for as long as asked.
AppDeeplink ==
  \/ End("deeplink", "begin", "refused")
  \/ /\ Act("deeplink", "begin", IF Opt("logs") THEN "logs" ELSE "route",
            {Fronted(world), world})
  \/ Pass("deeplink", "logs", "route")
  \/ ~Opt("route") /\ End("deeplink", "route", "opened")
  \/ Opt("route") /\ (End("deeplink", "route", "opened") \/ End("deeplink", "route", "mismatch"))
  \/ Throws("deeplink", {"begin", "logs", "route"})

\* app_permission and the like: one simctl command, or a refusal.
AppCommand ==
  \/ End("command", "begin", "refused")
  \/ End("command", "begin", "done")
  \/ Throws("command", {"begin"})

\* The payload is a file while simctl reads it; it is deleted whatever happened, if
\* that works.
PushWrite ==
  \/ End("notify", "begin", "refused")
  \/ Act("notify", "begin", "push", {[world EXCEPT !.payload = TRUE]})
  \/ Act("notify", "begin", "failed", {world, [world EXCEPT !.payload = TRUE]})
PushSend ==
  \/ Act("notify", "push", "sent", {[world EXCEPT !.notified = TRUE]})
  \/ Act("notify", "push", "failed", {world, [world EXCEPT !.notified = TRUE]})
PushUnlink ==
  \E from \in {"sent", "failed"}, gone \in BOOLEAN :
    /\ Became("notify", from, [call EXCEPT !.at = "end", !.stuck = ~gone,
                                  !.out = IF from = "sent" THEN "pushed" ELSE "error"])
    /\ world' = [world EXCEPT !.payload = @ /\ ~gone]
AppPushNotification == PushWrite \/ PushSend \/ PushUnlink

\* The device that is named, the only one of the session, or else the only booted one.
ResolveBiometricDevice ==
  \/ End("biometric", "begin", "refused")
  \/ ~Opt("resolve") /\ Pass("biometric", "begin", "run")
  \/ Opt("resolve") /\ (Pass("biometric", "begin", "run") \/ End("biometric", "begin", "error"))
\* To enroll stays; a match answers one prompt.
RunBiometric ==
  LET taken == IF Opt("enroll") THEN [world EXCEPT !.enrolled = TRUE] ELSE world
  IN \/ Answers("biometric", "run", "done") /\ world' = taken
     \/ Answers("biometric", "run", "error") /\ world' \in {world, taken}
AppBiometric == ResolveBiometricDevice \/ RunBiometric

\* given: the mail that is taken, counted from the oldest, and how many there were.
Carries(mail) == mail = "mine" \/ (mail = "foreign" /\ ~Opt("recipient"))
FetchFromMailhog ==
  LET carrying == {i \in DOMAIN world.mails : Carries(world.mails[i])}
      found(i) == [call EXCEPT !.at = "end", !.out = IF i = 0 THEN "none" ELSE "code",
                    !.given = <<IF i = 0 THEN 0 ELSE Len(world.mails) + 1 - i, Len(world.mails)>>]
  IN /\ ~Opt("webhook") /\ UNCHANGED world
     /\ \/ carrying = {} /\ Became("otp", "ask", found(0))
        \/ \E i \in carrying : (\A j \in carrying : i <= j) /\ Became("otp", "ask", found(i))
FetchFromWebhookOrCustom ==
  Opt("webhook") /\ \E out \in {"code", "none"} : End("otp", "ask", out)
\* One request, of which a time limit or the status makes an error.
AuthOtpFetch ==
  \/ End("otp", "begin", "refused") \/ Pass("otp", "begin", "ask")
  \/ FetchFromMailhog \/ FetchFromWebhookOrCustom \/ Throws("otp", {"ask"})

----------------------------------------------------------------------------
AppStep ==
  \/ NativeSave \/ AuthSaveNative \/ NativeRestore \/ AuthRestoreNative \/ AuthDeleteNative
  \/ AppLaunch \/ AppActivate \/ AppSwitchApp \/ AppTerminate \/ AppReset \/ AppDeeplink
  \/ AppCommand \/ AppPushNotification \/ AppBiometric \/ AuthOtpFetch
AppNext == AppStep \/ Wander \/ MailComes

----------------------------------------------------------------------------
(***************************************************************************)
(* app_reset destroys the app's data only after it has kept it, when it    *)
(* was asked to: unless it warns, the profile names an archive that holds  *)
(* what the container held (the app was stopped, and nothing else writes). *)
(***************************************************************************)
ResetKeepsWhatItTakes ==
  /\ call.tool = "reset" /\ Opt("profile") /\ call.out = "reset"
  /\ ~call.warned /\ ~call.ran
  => world.file \in {"data", "both"} /\ world.tar = call.kept

(***************************************************************************)
(* A restore that is answered as one has put back all that the profile     *)
(* holds, the container and the keychains together.                        *)
(***************************************************************************)
RestoredIsWhole ==
  call.tool \in Restoring /\ call.out \in {"restored", "launched"} /\ call.given # <<>> =>
    /\ world.data = call.given[1]
    /\ Len(call.given) = 2 => world.keys = call.given[2]

(***************************************************************************)
(* A call that takes the device down to copy its keychains gives it back,  *)
(* whatever failed in between: when it ends with the device down, the boot *)
(* itself has failed, or the shutdown was answered as failed and took      *)
(* effect all the same.                                                    *)
(***************************************************************************)
DeviceIsGivenBack ==
  call.tool \in Saving \cup Restoring /\ ~world.booted /\ call.at = "end" => call.stuck

(***************************************************************************)
(* A code that is answered is of the newest of the mails for the user that *)
(* had come when the mailbox was asked, and "none" that there was none. No *)
(* payload of a push is left among the host's files, unless it could not   *)
(* be deleted.                                                             *)
(***************************************************************************)
CodeIsNewest ==
  /\ call.tool = "otp" /\ call.given # <<>> =>
       LET mail(n) == world.mails[Len(world.mails) + 1 - n]
       IN /\ \A n \in call.given[1] + 1 .. call.given[2] : ~Carries(mail(n))
          /\ call.out = "code" => Carries(mail(call.given[1]))
  /\ call.tool = "notify" /\ Ended /\ ~call.stuck => ~world.payload

(***************************************************************************)
(* What the app has kept is not lost by keeping it: the three above, of    *)
(* every call that resets, saves or restores.                              *)
(***************************************************************************)
StateIsNotLost == ResetKeepsWhatItTakes /\ RestoredIsWhole /\ DeviceIsGivenBack
=============================================================================
