------------------------------ MODULE SdkLibrary ------------------------------
(* What the NET_SDK back end (platform_sdk/sdk.py) makes of a library before it
   calls it: pure functions.

   A library is a record: its file is absent, no file, unloadable or ok; mode is
   the configured login; exports are the purposes whose confirmed symbol it
   exports.                                                                  *)
EXTENDS Naturals, Sequences, FiniteSets, SequencesExt, Nothing

Required == {"init", "login", "logout"}

\* SYMBOL_EVIDENCE: a purpose goes by the name of its confirmed symbol, and some
\* have a candidate, a symbol that is never called.
Candidate == [login |-> "login_ex", login_ex |-> "login", enumerate |-> "discover",
              status |-> "alarm_status"]

\* _resolve_symbol_registry: the mode says which of the two logins is confirmed.
Status(l, purpose) ==
    LET name == IF purpose = "login" THEN l.mode ELSE purpose
    IN  IF name \in l.exports THEN "confirmed"
        ELSE IF name \in DOMAIN Candidate /\ Candidate[name] \in l.exports THEN "candidate"
        ELSE "missing"

\* _resolve_function: only a confirmed symbol is called.
Callable(l, purpose) == Status(l, purpose) = "confirmed"

\* inspect_sdk_library and _evaluate_login_readiness: the exports may be read
\* although the library cannot be loaded.
LoginPathReady(l) == \A p \in Required : Callable(l, p)

\* supports_sdk.
Ready(l) == l.file = "ok" /\ LoginPathReady(l)
=============================================================================
