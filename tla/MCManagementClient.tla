-------------------------- MODULE MCManagementClient --------------------------
EXTENDS ManagementClient, TLC
MCModes == {"platform_sdk", "web", "auto", "sidecar", "native_protocol"}
\* A complete library, one without the login of its mode, one without alarms.
MCLibrary ==
    {[file |-> "ok", mode |-> "login", exports |-> {"init", "login", "logout", "alarm", "alarm_close", "enumerate", "status"}],
     [file |-> "ok", mode |-> "login_ex", exports |-> {"init", "login", "logout"}],
     [file |-> "ok", mode |-> "login_ex", exports |-> {"init", "login_ex", "logout", "discover", "alarm"}]}
Symmetric == Permutations(Client) \cup Permutations(Node) \cup Permutations(Handle) \cup Permutations(Alarm)
=============================================================================
