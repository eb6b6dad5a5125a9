------------------------------- MODULE Config -------------------------------
(***************************************************************************)
(* The directives (h3_config.c): a configuration is read into one           *)
(* h3_server_conf per server, the main server's settings are merged into   *)
(* the virtual hosts', and h3_post_config completes those of the server    *)
(* that will listen.  Children then look for that server by themselves     *)
(* (find_h3_server, h3_server.c), and h3_hook_fixups (h3_hooks.c) advertises *)
(* HTTP/3 from the settings of whichever server answers a request.         *)
(*                                                                         *)
(* httpd reads the file twice when it starts, and once more at each        *)
(* restart; when each callback is called is external.  All fields are      *)
(* numbers as in the C structure: 0 is NULL, H3_FLAG_UNSET and "not set".  *)
(***************************************************************************)
EXTENDS Integers, FiniteSets

CONSTANTS
  N,             \* how many servers there are; 1 is the main one, the others virtual hosts
  HostPort,      \* what get_server_port finds for each
  Arguments,     \* the arguments each numeric directive is tried with
  ResponseMax,   \* H3_MAX_RESPONSE_BODY_SIZE_MAX
  Unlimited,     \* H3_MAX_RESPONSE_BODY_SIZE_DEFAULT, (apr_size_t)-1
  MaxLines       \* bound: lines of a file, besides those with a path

Servers == 1..N

\* struct h3_server_conf: the numbers 0 is no setting for, those it is one for
\* and whether they were set, the flags and the paths
Counts ==
  {"h3_max_concurrent_streams", "h3_max_connections", "h3_stream_buffer_size",
   "h3_socket_buffer_size", "h3_max_stream_errors", "h3_min_workers", "h3_max_workers",
   "h3_max_worker_idle_seconds", "h3_max_request_body_size", "h3_max_response_body_size",
   "h3_handshake_timeout", "h3_idle_timeout", "h3_alt_svc_max_age"}
Qpack == {"h3_qpack_table_capacity", "h3_qpack_blocked_streams"}
QpackSet == {"h3_qpack_capacity_set", "h3_qpack_blocked_set"}
Flags == {"h3_session_tickets", "h3_alt_svc", "h3_address_validation"}
Paths == {"h3_cert_path", "h3_key_path"}
Numeric == Counts \cup Qpack \cup {"h3_port", "h3_stream_timeout"}
Settings == Numeric \cup Flags \cup Paths
Fields == Settings \cup QpackSet

ASSUME ConfigAssumption ==
  /\ N \in Nat \ {0} /\ HostPort \in [Servers -> Nat]
  /\ Arguments \in [Numeric -> SUBSET Int]
  /\ ResponseMax \in Nat \ {0} /\ Unlimited \in Nat /\ Unlimited > ResponseMax
  /\ MaxLines \in Nat

\* h3_tri_flag
ON == 1
OFF == 2

UINT16_MAX == 65535

\* the maximum h3.h names for each directive; ports have none but their width
HeaderMaximum ==
  [h3_port |-> UINT16_MAX, h3_max_concurrent_streams |-> 1000, h3_max_connections |-> 10000,
   h3_stream_buffer_size |-> 1024 * 1024, h3_socket_buffer_size |-> 64 * 1024 * 1024,
   h3_stream_timeout |-> 86400, h3_max_stream_errors |-> 10000,
   h3_qpack_table_capacity |-> 1024 * 1024, h3_qpack_blocked_streams |-> 1000,
   h3_min_workers |-> 4096, h3_max_workers |-> 4096, h3_max_worker_idle_seconds |-> 86400,
   h3_max_request_body_size |-> 1024 * 1024 * 1024, h3_max_response_body_size |-> ResponseMax,
   h3_handshake_timeout |-> 600, h3_idle_timeout |-> 86400,
   h3_alt_svc_max_age |-> 7 * 24 * 3600]

\* the largest value each directive takes: set_h3_max_concurrent_streams compares
\* with UINT16_MAX, and nothing uses H3_MAX_CONCURRENT_STREAMS_MAX
Maximum == [HeaderMaximum EXCEPT !["h3_max_concurrent_streams"] = UINT16_MAX]

\* what h3_post_config gives the fields that are not set
Default ==
  [h3_max_concurrent_streams |-> 100, h3_max_connections |-> 256,
   h3_stream_buffer_size |-> 64 * 1024, h3_socket_buffer_size |-> 2 * 1024 * 1024,
   h3_max_stream_errors |-> 8, h3_qpack_table_capacity |-> 4096,
   h3_qpack_blocked_streams |-> 0, h3_min_workers |-> 16, h3_max_workers |-> 64,
   h3_max_worker_idle_seconds |-> 600, h3_max_request_body_size |-> 10 * 1024 * 1024,
   h3_max_response_body_size |-> Unlimited, h3_handshake_timeout |-> 10,
   h3_idle_timeout |-> 300, h3_alt_svc_max_age |-> 86400,
   h3_session_tickets |-> ON, h3_alt_svc |-> ON, h3_address_validation |-> ON]

VARIABLES
  conf,      \* the h3_server_conf of each server
  phase,     \* "read", "merged", "running", or "stopped" on an error
  file,      \* the settings accepted from the file being read, Absent if none
  lines,     \* how many lines were read, besides those with a path
  header     \* the Alt-Svc field of the last answer, with the server that gave it

vars == <<conf, phase, file, lines, header>>

Absent == -1
NoHeader == [server |-> 0, port |-> 0, ma |-> 0]

TypeOK ==
  /\ conf \in [Servers -> [Fields -> Nat]]
  /\ phase \in {"read", "merged", "running", "stopped"}
  /\ file \in [Servers -> [Settings -> Nat \cup {Absent}]]
  /\ lines \in 0..MaxLines
  /\ header \in [server : 0..N, port : Nat, ma : Nat]

h3_create_server_config == [f \in Fields |-> 0]

Created == [i \in Servers |-> h3_create_server_config]
Nothing == [i \in Servers |-> [f \in Settings |-> Absent]]

Init ==
  /\ conf = Created /\ file = Nothing
  /\ phase = "read" /\ lines = 0 /\ header = NoHeader

\* httpd starts to read a file again, or exits; its pools are cleared
Restarted(to) ==
  /\ conf' = Created /\ file' = Nothing
  /\ phase' = to /\ lines' = 0 /\ header' = NoHeader
-----------------------------------------------------------------------------
(* The directives, each on a line of server i's section.                   *)

\* a directive stores value in field f
Set(i, f, value) ==
  /\ conf' = [conf EXCEPT ![i][f] = value]
  /\ file' = [file EXCEPT ![i][f] = value]
  /\ lines' = IF f \in Paths THEN lines ELSE lines + 1
  /\ UNCHANGED <<phase, header>>

\* a directive returns a message, and httpd exits
Refuse == Restarted("stopped")

\* a numeric directive; an argument that is empty, not a number or not
\* representable is -1 here
SetCount(i, f, arg) == IF arg \in 1..Maximum[f] THEN Set(i, f, arg) ELSE Refuse

\* set_string
set_h3_cert_path(i) == Set(i, "h3_cert_path", i)
set_h3_key_path(i) == Set(i, "h3_key_path", i)

set_h3_port(i, arg) == SetCount(i, "h3_port", arg)
set_h3_max_concurrent_streams(i, arg) == SetCount(i, "h3_max_concurrent_streams", arg)
set_h3_max_connections(i, arg) == SetCount(i, "h3_max_connections", arg)
set_h3_stream_buffer_size(i, arg) == SetCount(i, "h3_stream_buffer_size", arg)
set_h3_socket_buffer_size(i, arg) == SetCount(i, "h3_socket_buffer_size", arg)
set_h3_stream_timeout(i, arg) == SetCount(i, "h3_stream_timeout", arg)
set_h3_max_stream_errors(i, arg) == SetCount(i, "h3_max_stream_errors", arg)
set_h3_min_workers(i, arg) == SetCount(i, "h3_min_workers", arg)
set_h3_max_workers(i, arg) == SetCount(i, "h3_max_workers", arg)
set_h3_max_worker_idle_seconds(i, arg) == SetCount(i, "h3_max_worker_idle_seconds", arg)
set_h3_max_request_body_size(i, arg) == SetCount(i, "h3_max_request_body_size", arg)
set_h3_max_response_body_size(i, arg) == SetCount(i, "h3_max_response_body_size", arg)
set_h3_handshake_timeout(i, arg) == SetCount(i, "h3_handshake_timeout", arg)
set_h3_idle_timeout(i, arg) == SetCount(i, "h3_idle_timeout", arg)
set_h3_alt_svc_max_age(i, arg) == SetCount(i, "h3_alt_svc_max_age", arg)

SetField(f) ==
  IF f = "h3_qpack_table_capacity" THEN "h3_qpack_capacity_set" ELSE "h3_qpack_blocked_set"

\* 0 is a setting of these, so another field says that they are set
SetQpack(i, f, arg) ==
  IF arg \in 0..Maximum[f]
    THEN /\ conf' = [conf EXCEPT ![i] = [@ EXCEPT ![f] = arg, ![SetField(f)] = 1]]
         /\ file' = [file EXCEPT ![i][f] = arg]
         /\ lines' = lines + 1
         /\ UNCHANGED <<phase, header>>
    ELSE Refuse

set_h3_qpack_table_capacity(i, arg) == SetQpack(i, "h3_qpack_table_capacity", arg)
set_h3_qpack_blocked_streams(i, arg) == SetQpack(i, "h3_qpack_blocked_streams", arg)

set_h3_session_tickets(i, flag) == Set(i, "h3_session_tickets", flag)
set_h3_alt_svc(i, flag) == Set(i, "h3_alt_svc", flag)
set_h3_address_validation(i, flag) == Set(i, "h3_address_validation", flag)

\* h3_cmds, without the two that take a path
LimitDirective(i) ==
  \/ \E a \in Arguments["h3_port"] : set_h3_port(i, a)
  \/ \E a \in Arguments["h3_max_concurrent_streams"] : set_h3_max_concurrent_streams(i, a)
  \/ \E a \in Arguments["h3_max_connections"] : set_h3_max_connections(i, a)
  \/ \E a \in Arguments["h3_stream_buffer_size"] : set_h3_stream_buffer_size(i, a)
  \/ \E a \in Arguments["h3_max_request_body_size"] : set_h3_max_request_body_size(i, a)
  \/ \E flag \in {ON, OFF} : set_h3_alt_svc(i, flag)
  \/ \E a \in Arguments["h3_alt_svc_max_age"] : set_h3_alt_svc_max_age(i, a)
  \/ \E a \in Arguments["h3_handshake_timeout"] : set_h3_handshake_timeout(i, a)
  \/ \E a \in Arguments["h3_idle_timeout"] : set_h3_idle_timeout(i, a)
  \/ \E a \in Arguments["h3_max_response_body_size"] : set_h3_max_response_body_size(i, a)
  \/ \E flag \in {ON, OFF} : set_h3_address_validation(i, flag)
  \/ \E a \in Arguments["h3_socket_buffer_size"] : set_h3_socket_buffer_size(i, a)
  \/ \E flag \in {ON, OFF} : set_h3_session_tickets(i, flag)
  \/ \E a \in Arguments["h3_stream_timeout"] : set_h3_stream_timeout(i, a)
  \/ \E a \in Arguments["h3_max_stream_errors"] : set_h3_max_stream_errors(i, a)
  \/ \E a \in Arguments["h3_qpack_table_capacity"] : set_h3_qpack_table_capacity(i, a)
  \/ \E a \in Arguments["h3_qpack_blocked_streams"] : set_h3_qpack_blocked_streams(i, a)
  \/ \E a \in Arguments["h3_min_workers"] : set_h3_min_workers(i, a)
  \/ \E a \in Arguments["h3_max_workers"] : set_h3_max_workers(i, a)
  \/ \E a \in Arguments["h3_max_worker_idle_seconds"] : set_h3_max_worker_idle_seconds(i, a)

\* a line of server i's section
h3_cmds(i) ==
  /\ phase = "read"
  /\ set_h3_cert_path(i) \/ set_h3_key_path(i) \/ (lines < MaxLines /\ LimitDirective(i))
-----------------------------------------------------------------------------
(* The file has been read.                                                 *)

\* whether configuration c has a value of its own for f
IsSet(c, f) == IF f \in Qpack THEN c[SetField(f)] # 0 ELSE c[f] # 0

h3_merge_server_config_NonZero(base, new) ==
  [f \in Fields |-> IF new[f] # 0 THEN new[f] ELSE base[f]]

h3_merge_server_config(base, new) ==
  [f \in Fields |-> IF IsSet(new, f) THEN new[f] ELSE base[f]]

\* httpd merges the main server's configuration into every virtual host's
Merge ==
  /\ phase = "read" /\ phase' = "merged"
  /\ conf' = [i \in Servers |->
       IF i = 1 THEN conf[1] ELSE h3_merge_server_config(conf[1], conf[i])]
  /\ UNCHANGED <<file, header, lines>>

HasCertAndKey(i) == conf[i]["h3_cert_path"] # 0 /\ conf[i]["h3_key_path"] # 0

IsFirst_Last(i) == \A j \in Servers : HasCertAndKey(j) => j <= i

IsFirst(i) == \A j \in Servers : HasCertAndKey(j) => i <= j

WithDefaults(c, port) ==
  [f \in Fields |->
     IF IsSet(c, f) THEN c[f]
     ELSE IF f = "h3_port" THEN port
     ELSE IF f \in DOMAIN Default THEN Default[f] ELSE c[f]]

RaiseWorkers_Kept(c) == c

\* H3MaxWorkers below H3MinWorkers is raised to match
RaiseWorkers(c) ==
  IF c["h3_max_workers"] < c["h3_min_workers"]
    THEN [c EXCEPT !["h3_max_workers"] = c["h3_min_workers"]] ELSE c

\* h3_post_config: nothing at the first reading (AP_SQ_MS_CREATE_PRE_CONFIG),
\* after which the file is read again; later the first server with a
\* certificate and a key is completed, and its two files must be readable
h3_post_config ==
  /\ phase = "merged"
  /\ \/ Restarted("read")
     \/ (\A i \in Servers : ~HasCertAndKey(i)) /\ Restarted("stopped")
     \/ \E i \in Servers :
          /\ HasCertAndKey(i) /\ IsFirst(i)
          /\ \/ Restarted("stopped")
             \/ /\ conf' = [conf EXCEPT ![i] = RaiseWorkers(WithDefaults(conf[i], HostPort[i]))]
                /\ phase' = "running" /\ UNCHANGED <<file, header, lines>>

\* a restart, graceful or not
Restart == phase = "running" /\ Restarted("read")
-----------------------------------------------------------------------------
(* The children.                                                           *)

\* find_h3_server, in h3_child_init: the server the child's listener serves
find_h3_server(i) == HasCertAndKey(i) /\ \A j \in 1..(i - 1) : ~HasCertAndKey(j)

\* whether h3_hook_fixups adds the field to an answer of server i
Advertises(i) == HasCertAndKey(i) /\ conf[i]["h3_port"] # 0 /\ conf[i]["h3_alt_svc"] # OFF

Field(i) ==
  [server |-> i, port |-> conf[i]["h3_port"], ma |-> conf[i]["h3_alt_svc_max_age"]]

\* a request to server i, whose handler may have set the field itself
h3_hook_fixups(i, present) ==
  /\ phase = "running"
  /\ header' = IF Advertises(i) /\ ~present THEN Field(i) ELSE NoHeader
  /\ UNCHANGED <<conf, phase, file, lines>>

Next ==
  \/ (\E i \in Servers : h3_cmds(i)) \/ Merge \/ h3_post_config \/ Restart
  \/ (\E i \in Servers, present \in BOOLEAN : h3_hook_fixups(i, present))

Spec == Init /\ [][Next]_vars
-----------------------------------------------------------------------------
(* Properties.                                                             *)

\* the setting of f for server i according to the file and the documentation
Own(i, f) ==
  IF file[i][f] # Absent THEN file[i][f]
  ELSE IF file[1][f] # Absent THEN file[1][f]
  ELSE IF f = "h3_port" THEN HostPort[i]
  ELSE IF f \in DOMAIN Default THEN Default[f] ELSE 0

Documented(i, f) ==
  IF f = "h3_max_workers" /\ Own(i, f) < Own(i, "h3_min_workers")
    THEN Own(i, "h3_min_workers") ELSE Own(i, f)

\* The server a child listens for works with the settings the administrator
\* wrote: for every directive its own, else the main server's, else the
\* documented default; an explicit 0 of the QPACK directives is a setting,
\* and H3MaxWorkers is at least H3MinWorkers.  This holds after a restart as
\* after a start, although h3_post_config and find_h3_server look for the
\* server independently and the settings of no other server are completed.
ListensAsWritten ==
  phase = "running" =>
    \E i \in Servers :
      /\ find_h3_server(i)
      /\ \A f \in Settings : conf[i][f] = Documented(i, f)

\* No limit the children enforce is disabled by a zero or past the maximum
\* h3.h:37 ("Directives default and maximum values.") names for it, and the
\* thread pool gets a minimum that is not above its maximum.  Two exceptions:
\* an H3MaxResponseBodySize nobody set is Unlimited, and H3MaxConcurrentStreams
\* is only held to UINT16_MAX (h3_config.c:162), not to the 1000 of h3.h:39.
LimitsInRange ==
  phase = "running" =>
    \A i \in Servers : find_h3_server(i) =>
      /\ \A f \in Counts \ {"h3_max_response_body_size", "h3_max_concurrent_streams"} :
           conf[i][f] \in 1..HeaderMaximum[f]
      /\ conf[i]["h3_max_concurrent_streams"] \in 1..UINT16_MAX
      /\ LET size == conf[i]["h3_max_response_body_size"]
         IN size \in 1..ResponseMax \/ size = Unlimited
      /\ conf[i]["h3_min_workers"] <= conf[i]["h3_max_workers"]

\* What the listening server advertises is where its children listen, for as
\* long as it was told to, and nothing when H3AltSvc is off for it.
AdvertisesListener ==
  \A i \in Servers : header.server = i /\ find_h3_server(i) =>
    /\ header.port = Documented(i, "h3_port")
    /\ header.ma = Documented(i, "h3_alt_svc_max_age")
    /\ Documented(i, "h3_alt_svc") = ON
=============================================================================
