---------------------------- MODULE MCBoundedCalls ----------------------------
(* The instance of BoundedCalls for TLC. *)
EXTENDS BoundedCalls

\* Linux with either request, MonitorClient with one overload or both, a library
\* with both families, ones that cannot be used.
MCLibraries ==
    LET sdk == {"sdk_init", "discover"}
        run == {"initial", "start", "stop", "quit"}
    IN  {{}, sdk, sdk \cup {"set_ip"}, sdk \cup {"modify_info", "start"}, sdk \cup Requests,
         run \cup Requests \cup {"discover"}, run \cup {"observer"}, {"start", "buffer"},
         {"initial", "start", "quit"} \cup Requests, Requests \cup {"discover"}}

\* Every operation as it is called by default, and one with every kind of deadline.
MCCalls ==
    [op : Operations, client : {"sync", "async"}, timeout : {0}, total : {0}, immediate : {FALSE}, valid : BOOLEAN]
    \cup [op : {"captureJpeg"}, client : {"sync", "async"}, timeout : {0, 2, 5}, total : {0, 2, 13, 14, 17},
          immediate : BOOLEAN, valid : {TRUE}]

\* Three nodes, with parents in the list and out of it.
MCLists ==
    LET node == [type : {"area"}, parent : 0..4, online : {TRUE}]
                \cup [type : {"device", "channel"}, parent : 0..4, online : BOOLEAN]
    IN  [1..3 -> node]
=============================================================================
