---------------------------- MODULE MCWebKitClient ----------------------------
(* An instance of WebKitClient for TLC.                                      *)
EXTENDS WebKitClient

\* Callers may connect and send while the client reconnects, but not enable domains.
CallersWait ==
  reconnecting => \A u \in Users : job[u].at = "wait" => job[u].domain = None
=============================================================================
