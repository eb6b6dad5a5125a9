---------------------------- MODULE ConfigProofs ----------------------------
(***************************************************************************)
(* Proofs about Config for every number of servers, every set of arguments *)
(* and a file of any length.                                               *)
(***************************************************************************)
EXTENDS Config, TLAPS

\* what a directive stores
Legal(f) ==
  CASE f \in Flags -> {ON, OFF}
    [] f \in Qpack -> 0..Maximum[f]
    [] f \in Paths -> Nat \ {0}
    [] OTHER -> 1..Maximum[f]

FileOK == \A i \in Servers : \A f \in Settings : file[i][f] = Absent \/ file[i][f] \in Legal(f)

\* configuration c has the settings v and no others
Reflects(c, v) ==
  /\ \A f \in Settings \ Qpack : c[f] = IF v[f] = Absent THEN 0 ELSE v[f]
  /\ \A f \in Qpack : /\ c[SetField(f)] # 0 <=> v[f] # Absent
                      /\ v[f] # Absent => c[f] = v[f]

\* a virtual host's settings and those of the main server's it does not override
Inherited(i) ==
  [f \in Settings |-> IF file[i][f] # Absent THEN file[i][f] ELSE file[1][f]]

\* The configurations reflect the file while it is read and the inherited
\* settings once they are merged; defaults come last.
IInv ==
  /\ TypeOK /\ FileOK
  /\ phase = "read" => \A i \in Servers : Reflects(conf[i], file[i])
  /\ phase = "merged" => \A i \in Servers : Reflects(conf[i], Inherited(i))
  /\ phase # "running" => header = NoHeader
  /\ ListensAsWritten /\ AdvertisesListener
-----------------------------------------------------------------------------
\* The groups of fields, and that "set" fields are no settings themselves.
LEMMA FieldGroups ==
  /\ Settings \subseteq Fields /\ Qpack \subseteq Settings /\ Paths \subseteq Settings
  /\ Counts \subseteq Numeric /\ Numeric \subseteq Settings /\ Flags \subseteq Settings
  /\ \A f \in Settings : SetField(f) \in Fields /\ SetField(f) \notin Settings
  /\ \A f, g \in Qpack : SetField(f) = SetField(g) => f = g
  /\ Settings = Numeric \cup Flags \cup Paths
  /\ Paths \cap Qpack = {} /\ Flags \cap Qpack = {} /\ Counts \cap Qpack = {}
  /\ Paths \cap Flags = {} /\ Numeric \cap Flags = {} /\ Numeric \cap Paths = {}
<1>1. Paths \cap Qpack = {} /\ Flags \cap Qpack = {} /\ Counts \cap Qpack = {}
  BY DEF Qpack, Paths, Counts, Flags
<1>2. Paths \cap Flags = {} /\ Numeric \cap Flags = {} /\ Numeric \cap Paths = {}
  BY DEF Qpack, Paths, Counts, Flags, Numeric
<1>3. \A f \in Settings : SetField(f) \in QpackSet
  BY DEF SetField, QpackSet
<1>4. QpackSet \cap Settings = {}
  BY DEF QpackSet, Settings, Numeric, Counts, Qpack, Flags, Paths
<1>5. \A f, g \in Qpack : SetField(f) = SetField(g) => f = g
  BY DEF SetField, Qpack
<1>6. /\ Qpack \subseteq Settings /\ Paths \subseteq Settings /\ Flags \subseteq Settings
      /\ Counts \subseteq Numeric /\ Numeric \subseteq Settings
      /\ Settings = Numeric \cup Flags \cup Paths
  BY Zenon DEF Settings, Numeric
<1>7. Settings \subseteq Fields /\ QpackSet \subseteq Fields
  BY Zenon DEF Fields
<1> QED BY Zenon, <1>1, <1>2, <1>3, <1>4, <1>5, <1>6, <1>7

\* Every numeric directive has a largest value, and it is not 0.
LEMMA MaximumType == \A f \in Numeric : Maximum[f] \in Nat /\ Maximum[f] >= 1
<1>1. ResponseMax \in Nat \ {0}
  BY ConfigAssumption
<1>2. \A f \in Qpack \cup {"h3_port", "h3_stream_timeout"} : Maximum[f] \in Nat /\ Maximum[f] >= 1
  BY DEF Qpack, Maximum, HeaderMaximum, UINT16_MAX
<1>3. \A f \in Counts \ {"h3_max_response_body_size"} : Maximum[f] \in Nat /\ Maximum[f] >= 1
  BY DEF Counts, Maximum, HeaderMaximum, UINT16_MAX
<1>4. Maximum["h3_max_response_body_size"] = ResponseMax
  BY DEF Maximum, HeaderMaximum
<1> QED BY <1>1, <1>2, <1>3, <1>4 DEF Numeric

\* The defaults of the limits are within the limits' ranges, but for the one
\* that is no limit at all.
LEMMA DefaultType ==
  /\ \A f \in DOMAIN Default : Default[f] \in Nat
  /\ Qpack \subseteq DOMAIN Default /\ Counts \subseteq DOMAIN Default
  /\ "h3_port" \notin DOMAIN Default
  /\ \A f \in Counts \ {"h3_max_response_body_size"} : Default[f] \in 1..Maximum[f]
  /\ Default["h3_max_response_body_size"] = Unlimited /\ Default["h3_alt_svc"] = ON
<1>1. DOMAIN Default = Counts \cup Qpack \cup Flags
  BY DEF Default, Counts, Qpack, Flags
<1>2. \A f \in Counts \ {"h3_max_response_body_size"} : Default[f] \in 1..Maximum[f]
  BY DEF Default, Counts, Maximum, HeaderMaximum, UINT16_MAX
<1>3. \A f \in Qpack \cup Flags : Default[f] \in Nat
  BY DEF Default, Qpack, Flags, ON
<1>4. Default["h3_max_response_body_size"] = Unlimited /\ Default["h3_alt_svc"] = ON
  BY DEF Default
<1>5. "h3_port" \notin Counts \cup Qpack \cup Flags
  BY DEF Counts, Qpack, Flags
<1>6. \A f \in Counts \ {"h3_max_response_body_size"} : Default[f] \in Nat
  BY <1>2, MaximumType, FieldGroups
<1>7. Unlimited \in Nat
  BY ConfigAssumption
<1>8. \A f \in Counts : Default[f] \in Nat
  BY Zenon, <1>4, <1>6, <1>7
<1>9. \A f \in DOMAIN Default : Default[f] \in Nat
  BY Zenon, <1>1, <1>3, <1>8
<1> QED BY Zenon, <1>1, <1>2, <1>4, <1>5, <1>9
-----------------------------------------------------------------------------
\* A file that has not been read yet says nothing, and so do the structures.
LEMMA RestartedInv == ASSUME NEW to \in {"read", "stopped"}, Restarted(to) PROVE IInv'
<1>1. /\ conf' = Created /\ file' = Nothing /\ phase' = to /\ lines' = 0 /\ header' = NoHeader
  BY DEF Restarted
<1>2. TypeOK'
  BY <1>1, ConfigAssumption, FieldGroups
     DEF TypeOK, Created, Nothing, h3_create_server_config, NoHeader, Absent
<1>3. FileOK'
  BY <1>1 DEF FileOK, Nothing
<1>4. \A i \in Servers : Reflects(conf'[i], file'[i])
  BY <1>1, FieldGroups DEF Reflects, Created, Nothing, h3_create_server_config
<1>5. ListensAsWritten' /\ AdvertisesListener'
  BY <1>1 DEF ListensAsWritten, AdvertisesListener, NoHeader, Servers
<1> QED BY <1>1, <1>2, <1>3, <1>4, <1>5 DEF IInv

\* The first reading starts with nothing.
LEMMA InitInv == Init => IInv
<1> SUFFICES ASSUME Init PROVE IInv
  OBVIOUS
<1>1. /\ conf = Created /\ file = Nothing /\ phase = "read" /\ lines = 0 /\ header = NoHeader
  BY DEF Init
<1>2. TypeOK
  BY <1>1, ConfigAssumption, FieldGroups
     DEF TypeOK, Created, Nothing, h3_create_server_config, NoHeader, Absent
<1>3. FileOK
  BY <1>1 DEF FileOK, Nothing
<1>4. \A i \in Servers : Reflects(conf[i], file[i])
  BY <1>1, FieldGroups DEF Reflects, Created, Nothing, h3_create_server_config
<1>5. ListensAsWritten /\ AdvertisesListener
  BY <1>1 DEF ListensAsWritten, AdvertisesListener, NoHeader, Servers
<1> QED BY <1>1, <1>2, <1>3, <1>4, <1>5 DEF IInv

\* A directive other than the QPACK ones leaves its value in the structure.
LEMMA SetInv ==
  ASSUME IInv, phase = "read", NEW i \in Servers, NEW f \in Settings \ Qpack,
         NEW value \in Legal(f), value \in Nat, f \in Paths \/ lines < MaxLines,
         Set(i, f, value)
  PROVE  IInv'
<1>1. /\ conf' = [conf EXCEPT ![i][f] = value] /\ file' = [file EXCEPT ![i][f] = value]
      /\ lines' = (IF f \in Paths THEN lines ELSE lines + 1)
      /\ phase' = "read" /\ header' = NoHeader
  BY DEF Set, IInv
<1>2. TypeOK'
  <2>1. conf' \in [Servers -> [Fields -> Nat]]
    BY <1>1, FieldGroups DEF IInv, TypeOK
  <2>2. file' \in [Servers -> [Settings -> Nat \cup {Absent}]]
    BY <1>1 DEF IInv, TypeOK
  <2>3. lines' \in 0..MaxLines
    BY <1>1, ConfigAssumption DEF IInv, TypeOK
  <2> QED BY <1>1, <2>1, <2>2, <2>3 DEF IInv, TypeOK
<1>3. FileOK'
  BY <1>1 DEF IInv, TypeOK, FileOK
<1>4. ASSUME NEW j \in Servers PROVE Reflects(conf'[j], file'[j])
  <2>1. Reflects(conf[j], file[j])
    BY DEF IInv
  <2>2. CASE j # i
    BY <1>1, <2>1, <2>2 DEF IInv, TypeOK
  <2>3. CASE j = i
    <3>1. /\ conf'[j] = [conf[j] EXCEPT ![f] = value] /\ file'[j] = [file[j] EXCEPT ![f] = value]
          /\ conf[j] \in [Fields -> Nat] /\ file[j] \in [Settings -> Nat \cup {Absent}]
      BY <1>1, <2>3 DEF IInv, TypeOK
    <3>2. \A g \in Settings \ Qpack : conf'[j][g] = IF file'[j][g] = Absent THEN 0 ELSE file'[j][g]
      BY <2>1, <3>1, FieldGroups DEF Reflects, Absent
    <3>3. \A g \in Qpack : /\ conf'[j][g] = conf[j][g] /\ file'[j][g] = file[j][g]
                           /\ conf'[j][SetField(g)] = conf[j][SetField(g)]
      BY <3>1, FieldGroups
    <3> QED BY <2>1, <3>2, <3>3 DEF Reflects
  <2> QED BY <2>2, <2>3
<1>5. ListensAsWritten' /\ AdvertisesListener'
  BY <1>1 DEF ListensAsWritten, AdvertisesListener, NoHeader, Servers
<1> QED BY <1>1, <1>2, <1>3, <1>4, <1>5 DEF IInv

\* A numeric directive stores a legal value or ends the reading.
LEMMA SetCountInv ==
  ASSUME IInv, phase = "read", lines < MaxLines, NEW i \in Servers,
         NEW f \in Numeric \ Qpack, NEW arg \in Int, SetCount(i, f, arg)
  PROVE  IInv'
<1>1. CASE arg \in 1..Maximum[f]
  <2>1. arg \in Legal(f) /\ arg \in Nat /\ f \in Settings \ Qpack
    BY <1>1, FieldGroups, MaximumType DEF Legal
  <2> QED BY <1>1, <2>1, SetInv DEF SetCount
<1>2. CASE arg \notin 1..Maximum[f]
  BY <1>2, RestartedInv DEF SetCount, Refuse
<1> QED BY <1>1, <1>2

\* A flag is stored as H3_FLAG_ON or H3_FLAG_OFF.
LEMMA SetFlagInv ==
  ASSUME IInv, phase = "read", lines < MaxLines, NEW i \in Servers, NEW f \in Flags,
         NEW flag \in {ON, OFF}, Set(i, f, flag)
  PROVE  IInv'
<1>1. flag \in Legal(f) /\ flag \in Nat /\ f \in Settings \ Qpack
  BY FieldGroups DEF Legal, ON, OFF
<1> QED BY <1>1, SetInv

\* A QPACK directive stores its value and that it is set.
LEMMA SetQpackInv ==
  ASSUME IInv, phase = "read", lines < MaxLines, NEW i \in Servers, NEW f \in Qpack,
         NEW arg \in Int, SetQpack(i, f, arg)
  PROVE  IInv'
<1>1. CASE arg \notin 0..Maximum[f]
  BY <1>1, RestartedInv DEF SetQpack, Refuse
<1>2. CASE arg \in 0..Maximum[f]
  <2>1. /\ conf' = [conf EXCEPT ![i] = [conf[i] EXCEPT ![f] = arg, ![SetField(f)] = 1]]
        /\ file' = [file EXCEPT ![i][f] = arg]
        /\ lines' = lines + 1 /\ phase' = "read" /\ header' = NoHeader
    BY <1>2 DEF SetQpack, IInv, TypeOK
  <2>2. arg \in Nat /\ f \in Settings /\ SetField(f) \in Fields
    BY <1>2, FieldGroups, MaximumType
  <2>3. TypeOK'
    <3>1. conf' \in [Servers -> [Fields -> Nat]]
      BY <2>1, <2>2 DEF IInv, TypeOK
    <3>2. file' \in [Servers -> [Settings -> Nat \cup {Absent}]]
      BY <2>1, <2>2 DEF IInv, TypeOK
    <3>3. lines' \in 0..MaxLines
      BY <2>1, ConfigAssumption DEF IInv, TypeOK
    <3> QED BY <2>1, <3>1, <3>2, <3>3 DEF IInv, TypeOK
  <2>4. FileOK'
    <3>1. arg \in Legal(f)
      BY <1>2, FieldGroups DEF Legal
    <3> QED BY <2>1, <2>2, <3>1 DEF IInv, TypeOK, FileOK
  <2>5. ASSUME NEW j \in Servers PROVE Reflects(conf'[j], file'[j])
    <3>1. Reflects(conf[j], file[j])
      BY DEF IInv
    <3>2. CASE j # i
      BY <2>1, <3>1, <3>2 DEF IInv, TypeOK
    <3>3. CASE j = i
      <4>1. /\ conf'[j] = [conf[j] EXCEPT ![f] = arg, ![SetField(f)] = 1]
            /\ file'[j] = [file[j] EXCEPT ![f] = arg]
            /\ conf[j] \in [Fields -> Nat] /\ file[j] \in [Settings -> Nat \cup {Absent}]
        BY <2>1, <3>3 DEF IInv, TypeOK
      <4>2. \A g \in Settings \ Qpack : conf'[j][g] = conf[j][g] /\ file'[j][g] = file[j][g]
        BY <2>2, <4>1, FieldGroups
      <4>3. \A g \in Qpack : g # f =>
              /\ conf'[j][g] = conf[j][g] /\ file'[j][g] = file[j][g]
              /\ conf'[j][SetField(g)] = conf[j][SetField(g)]
        BY <2>2, <4>1, FieldGroups
      <4>4. conf'[j][f] = arg /\ file'[j][f] = arg /\ conf'[j][SetField(f)] = 1 /\ arg # Absent
        BY <2>2, <4>1, FieldGroups DEF Absent
      <4> QED BY <3>1, <4>2, <4>3, <4>4 DEF Reflects
    <3> QED BY <3>2, <3>3
  <2>6. ListensAsWritten' /\ AdvertisesListener'
    BY <2>1 DEF ListensAsWritten, AdvertisesListener, NoHeader, Servers
  <2> QED BY <2>1, <2>3, <2>4, <2>5, <2>6 DEF IInv
<1> QED BY <1>1, <1>2
-----------------------------------------------------------------------------
\* The directives of h3_cmds are of the three kinds above.
LEMMA KindsOfDirective ==
  ASSUME NEW i \in Servers, LimitDirective(i)
  PROVE  \/ \E f \in Numeric \ Qpack, a \in Int : SetCount(i, f, a)
         \/ \E f \in Qpack, a \in Int : SetQpack(i, f, a)
         \/ \E f \in Flags, flag \in {ON, OFF} : Set(i, f, flag)
<1>1. \A f \in Numeric : Arguments[f] \subseteq Int
  BY ConfigAssumption
<1>2. \A f \in Counts \cup {"h3_port", "h3_stream_timeout"} : f \in Numeric \ Qpack
  BY DEF Numeric, Counts, Qpack
<1>3. \A f \in Qpack : f \in Numeric
  BY FieldGroups DEF Numeric
<1> DEFINE Count == \E f \in Numeric \ Qpack, a \in Int : SetCount(i, f, a)
           Table == \E f \in Qpack, a \in Int : SetQpack(i, f, a)
           Flag  == \E f \in Flags, flag \in {ON, OFF} : Set(i, f, flag)
<1>4. ASSUME NEW f \in Counts \cup {"h3_port", "h3_stream_timeout"}, NEW a \in Arguments[f],
             SetCount(i, f, a)
      PROVE  Count
  BY Zenon, <1>1, <1>2, <1>4
<1>5. ASSUME NEW f \in Qpack, NEW a \in Arguments[f], SetQpack(i, f, a)
      PROVE  Table
  BY Zenon, <1>1, <1>3, <1>5
<1> HIDE DEF Count, Table
<1>6. (\E a \in Arguments["h3_port"] : set_h3_port(i, a)) => Count
  BY <1>4 DEF set_h3_port, Counts
<1>7. (\E a \in Arguments["h3_max_concurrent_streams"] : set_h3_max_concurrent_streams(i, a)) => Count
  BY <1>4 DEF set_h3_max_concurrent_streams, Counts
<1>8. (\E a \in Arguments["h3_max_connections"] : set_h3_max_connections(i, a)) => Count
  BY <1>4 DEF set_h3_max_connections, Counts
<1>9. (\E a \in Arguments["h3_stream_buffer_size"] : set_h3_stream_buffer_size(i, a)) => Count
  BY <1>4 DEF set_h3_stream_buffer_size, Counts
<1>10. (\E a \in Arguments["h3_max_request_body_size"] : set_h3_max_request_body_size(i, a)) => Count
  BY <1>4 DEF set_h3_max_request_body_size, Counts
<1>11. (\E flag \in {ON, OFF} : set_h3_alt_svc(i, flag)) => Flag
  BY DEF set_h3_alt_svc, Flags
<1>12. (\E a \in Arguments["h3_alt_svc_max_age"] : set_h3_alt_svc_max_age(i, a)) => Count
  BY <1>4 DEF set_h3_alt_svc_max_age, Counts
<1>13. (\E a \in Arguments["h3_handshake_timeout"] : set_h3_handshake_timeout(i, a)) => Count
  BY <1>4 DEF set_h3_handshake_timeout, Counts
<1>14. (\E a \in Arguments["h3_idle_timeout"] : set_h3_idle_timeout(i, a)) => Count
  BY <1>4 DEF set_h3_idle_timeout, Counts
<1>15. (\E a \in Arguments["h3_max_response_body_size"] : set_h3_max_response_body_size(i, a)) => Count
  BY <1>4 DEF set_h3_max_response_body_size, Counts
<1>16. (\E flag \in {ON, OFF} : set_h3_address_validation(i, flag)) => Flag
  BY DEF set_h3_address_validation, Flags
<1>17. (\E a \in Arguments["h3_socket_buffer_size"] : set_h3_socket_buffer_size(i, a)) => Count
  BY <1>4 DEF set_h3_socket_buffer_size, Counts
<1>18. (\E flag \in {ON, OFF} : set_h3_session_tickets(i, flag)) => Flag
  BY DEF set_h3_session_tickets, Flags
<1>19. (\E a \in Arguments["h3_stream_timeout"] : set_h3_stream_timeout(i, a)) => Count
  BY <1>4 DEF set_h3_stream_timeout, Counts
<1>20. (\E a \in Arguments["h3_max_stream_errors"] : set_h3_max_stream_errors(i, a)) => Count
  BY <1>4 DEF set_h3_max_stream_errors, Counts
<1>21. (\E a \in Arguments["h3_qpack_table_capacity"] : set_h3_qpack_table_capacity(i, a)) => Table
  BY <1>5 DEF set_h3_qpack_table_capacity, Qpack
<1>22. (\E a \in Arguments["h3_qpack_blocked_streams"] : set_h3_qpack_blocked_streams(i, a)) => Table
  BY <1>5 DEF set_h3_qpack_blocked_streams, Qpack
<1>23. (\E a \in Arguments["h3_min_workers"] : set_h3_min_workers(i, a)) => Count
  BY <1>4 DEF set_h3_min_workers, Counts
<1>24. (\E a \in Arguments["h3_max_workers"] : set_h3_max_workers(i, a)) => Count
  BY <1>4 DEF set_h3_max_workers, Counts
<1>25. (\E a \in Arguments["h3_max_worker_idle_seconds"] : set_h3_max_worker_idle_seconds(i, a)) => Count
  BY <1>4 DEF set_h3_max_worker_idle_seconds, Counts
<1>26. Count \/ Table \/ Flag
  BY Zenon, <1>6, <1>7, <1>8, <1>9, <1>10, <1>11, <1>12, <1>13, <1>14, <1>15, <1>16, <1>17,
     <1>18, <1>19, <1>20, <1>21, <1>22, <1>23, <1>24, <1>25
     DEF LimitDirective
<1> QED BY Zenon, <1>26 DEF Count, Table

\* Every line of the file keeps the invariant.
LEMMA DirectiveInv == ASSUME IInv, NEW i \in Servers, h3_cmds(i) PROVE IInv'
<1>1. phase = "read"
  BY DEF h3_cmds
<1>2. CASE set_h3_cert_path(i) \/ set_h3_key_path(i)
  <2>1. PICK f \in Paths : Set(i, f, i)
    BY <1>2 DEF set_h3_cert_path, set_h3_key_path, Paths
  <2>2. i \in Nat \ {0} /\ f \in Settings \ Qpack /\ i \in Legal(f)
    BY ConfigAssumption, FieldGroups DEF Servers, Legal
  <2> QED BY <1>1, <2>1, <2>2, SetInv
<1>3. CASE lines < MaxLines /\ LimitDirective(i)
  BY <1>1, <1>3, KindsOfDirective, SetCountInv, SetQpackInv, SetFlagInv
<1> QED BY <1>2, <1>3 DEF h3_cmds

\* Merging makes the structures reflect the inherited settings.
LEMMA MergeInv == ASSUME IInv, Merge PROVE IInv'
<1>1. /\ phase = "read" /\ phase' = "merged" /\ file' = file /\ lines' = lines
      /\ header' = NoHeader
      /\ conf' = [i \in Servers |->
           IF i = 1 THEN conf[1] ELSE h3_merge_server_config(conf[1], conf[i])]
  BY DEF Merge, IInv
<1>2. 1 \in Servers
  BY ConfigAssumption DEF Servers
<1>3. TypeOK'
  <2>1. conf' \in [Servers -> [Fields -> Nat]]
    BY <1>1, <1>2 DEF IInv, TypeOK, h3_merge_server_config
  <2> QED BY <1>1, <2>1 DEF IInv, TypeOK
<1>4. FileOK'
  BY <1>1 DEF IInv, FileOK
<1>5. ASSUME NEW i \in Servers PROVE Reflects(conf'[i], Inherited(i))
  <2>1. Reflects(conf[i], file[i]) /\ Reflects(conf[1], file[1])
    BY <1>1, <1>2 DEF IInv
  <2>2. /\ conf[i] \in [Fields -> Nat] /\ conf[1] \in [Fields -> Nat]
        /\ file[i] \in [Settings -> Nat \cup {Absent}]
        /\ \A f \in Settings \ Qpack : file[i][f] # Absent => file[i][f] # 0
    <3>1. \A f \in Settings \ Qpack : 0 \notin Legal(f)
      BY FieldGroups, MaximumType DEF Legal, ON, OFF
    <3> QED BY <1>2, <3>1 DEF IInv, TypeOK, FileOK
  <2>3. CASE i = 1
    <3>1. Inherited(i) = file[i]
      BY <2>2, <2>3 DEF Inherited
    <3> QED BY <1>1, <2>1, <2>3, <3>1
  <2>4. CASE i # 1
    <3>1. \A f \in Fields : conf'[i][f] = IF IsSet(conf[i], f) THEN conf[i][f] ELSE conf[1][f]
      BY <1>1, <2>4 DEF h3_merge_server_config
    <3>2. \A f \in Settings \ Qpack :
            conf'[i][f] = IF Inherited(i)[f] = Absent THEN 0 ELSE Inherited(i)[f]
      BY <2>1, <2>2, <3>1, FieldGroups DEF Reflects, IsSet, Inherited
    <3>3. \A f \in Qpack : ~(SetField(f) \in Qpack) /\ SetField(f) \in Fields /\ f \in Fields
      BY FieldGroups
    <3>4. \A f \in Qpack :
            /\ conf'[i][SetField(f)] =
                 IF conf[i][SetField(f)] # 0 THEN conf[i][SetField(f)] ELSE conf[1][SetField(f)]
            /\ conf'[i][f] = IF conf[i][SetField(f)] # 0 THEN conf[i][f] ELSE conf[1][f]
      BY <3>1, <3>3 DEF IsSet
    <3>5. \A f \in Qpack : Inherited(i)[f] = IF file[i][f] # Absent THEN file[i][f] ELSE file[1][f]
      BY FieldGroups DEF Inherited
    <3>6. \A f \in Qpack : /\ conf'[i][SetField(f)] # 0 <=> Inherited(i)[f] # Absent
                           /\ Inherited(i)[f] # Absent => conf'[i][f] = Inherited(i)[f]
      BY <2>1, <3>4, <3>5 DEF Reflects
    <3> QED BY <3>2, <3>6 DEF Reflects
  <2> QED BY <2>3, <2>4
<1>6. \A i \in Servers : Inherited(i)' = Inherited(i)
  BY <1>1 DEF Inherited
<1>7. ListensAsWritten' /\ AdvertisesListener'
  BY <1>1 DEF ListensAsWritten, AdvertisesListener, NoHeader, Servers
<1> QED BY <1>1, <1>3, <1>4, <1>5, <1>6, <1>7 DEF IInv

\* Completing merged settings gives the documented ones.
LEMMA DefaultsDocumented ==
  ASSUME TypeOK, FileOK, NEW i \in Servers, Reflects(conf[i], Inherited(i))
  PROVE  LET c == RaiseWorkers(WithDefaults(conf[i], HostPort[i]))
         IN  /\ c \in [Fields -> Nat]
             /\ \A f \in Settings : c[f] = Documented(i, f)
             /\ \A f \in Paths : c[f] = conf[i][f]
<1> DEFINE d == WithDefaults(conf[i], HostPort[i])
           c == RaiseWorkers(d)
<1>1. /\ conf[i] \in [Fields -> Nat] /\ HostPort[i] \in Nat /\ 1 \in Servers
      /\ file[i] \in [Settings -> Nat \cup {Absent}] /\ file[1] \in [Settings -> Nat \cup {Absent}]
  BY ConfigAssumption DEF TypeOK, Servers
<1>2. d \in [Fields -> Nat]
  BY <1>1, DefaultType DEF WithDefaults
<1>3. \A f \in Settings \ Qpack : 0 \notin Legal(f)
  BY FieldGroups, MaximumType DEF Legal, ON, OFF
<1>4. \A f \in Settings : IsSet(conf[i], f) <=> Inherited(i)[f] # Absent
  <2>1. \A f \in Settings \ Qpack : Inherited(i)[f] # Absent => Inherited(i)[f] # 0
    BY <1>1, <1>3 DEF FileOK, Inherited
  <2> QED BY <2>1 DEF Reflects, IsSet
<1>5. \A f \in Settings : Inherited(i)[f] # Absent => conf[i][f] = Inherited(i)[f]
  BY DEF Reflects
<1>6. \A f \in Settings : Inherited(i)[f] = Absent /\ f \notin DOMAIN Default => conf[i][f] = 0
  BY DefaultType DEF Reflects
<1>7. \A f \in Settings : d[f] = IF Inherited(i)[f] # Absent THEN conf[i][f]
                                 ELSE IF f = "h3_port" THEN HostPort[i]
                                 ELSE IF f \in DOMAIN Default THEN Default[f] ELSE conf[i][f]
  BY <1>4, FieldGroups DEF WithDefaults
<1>8. \A f \in Settings : Own(i, f) = IF Inherited(i)[f] # Absent THEN Inherited(i)[f]
                                      ELSE IF f = "h3_port" THEN HostPort[i]
                                      ELSE IF f \in DOMAIN Default THEN Default[f] ELSE 0
  BY DEF Own, Inherited
<1>9. \A f \in Settings : d[f] = Own(i, f)
  BY <1>5, <1>6, <1>7, <1>8
<1> HIDE DEF d
<1>10. {"h3_max_workers", "h3_min_workers"} \subseteq Counts
  BY DEF Counts
<1>11. c \in [Fields -> Nat] /\ \A f \in Settings : c[f] = Documented(i, f)
  BY <1>2, <1>9, <1>10, FieldGroups DEF RaiseWorkers, Documented
<1>12. \A f \in Paths : c[f] = conf[i][f]
  <2>1. ASSUME NEW f \in Paths PROVE d[f] = conf[i][f]
    <3>1. f \in Settings /\ f # "h3_port" /\ f \notin DOMAIN Default
      BY FieldGroups DEF Paths, Default
    <3> QED BY <1>7, <3>1
  <2>2. \A f \in Paths : f \in Fields /\ f # "h3_max_workers"
    BY FieldGroups DEF Paths
  <2> QED BY <1>2, <2>1, <2>2 DEF RaiseWorkers
<1> QED BY <1>11, <1>12 DEF d

\* The server that is completed is the one the children will find.
LEMMA CompletedInv ==
  ASSUME IInv, phase = "merged", NEW i \in Servers, HasCertAndKey(i), IsFirst(i),
         conf' = [conf EXCEPT ![i] = RaiseWorkers(WithDefaults(conf[i], HostPort[i]))],
         phase' = "running", UNCHANGED <<file, header, lines>>
  PROVE  IInv'
<1> DEFINE c == RaiseWorkers(WithDefaults(conf[i], HostPort[i]))
<1>1. /\ c \in [Fields -> Nat] /\ \A f \in Settings : c[f] = Documented(i, f)
      /\ \A f \in Paths : c[f] = conf[i][f]
  BY DefaultsDocumented DEF IInv
<1> HIDE DEF c
<1>2. conf' = [conf EXCEPT ![i] = c] /\ file' = file /\ header' = NoHeader /\ lines' = lines
  BY DEF c, IInv
<1>3. TypeOK' /\ FileOK'
  BY <1>1, <1>2 DEF IInv, TypeOK, FileOK
<1>4. find_h3_server(i)'
  <2>1. HasCertAndKey(i)'
    BY <1>1, <1>2 DEF IInv, TypeOK, HasCertAndKey, Paths
  <2>2. ASSUME NEW j \in 1..(i - 1) PROVE ~HasCertAndKey(j)'
    <3>1. j \in Servers /\ j # i /\ ~(i <= j)
      BY ConfigAssumption DEF Servers
    <3>2. conf'[j] = conf[j] /\ ~HasCertAndKey(j)
      BY <1>2, <3>1 DEF IInv, TypeOK, IsFirst
    <3> QED BY <3>2 DEF HasCertAndKey
  <2> QED BY <2>1, <2>2 DEF find_h3_server
<1>5. \A f \in Settings : conf'[i][f] = Documented(i, f)'
  BY <1>1, <1>2 DEF IInv, TypeOK, Documented, Own
<1>6. ListensAsWritten' /\ AdvertisesListener'
  BY <1>2, <1>4, <1>5 DEF ListensAsWritten, AdvertisesListener, NoHeader, Servers
<1> QED BY <1>2, <1>3, <1>6 DEF IInv

\* The hook takes its field from the settings of the server that answers.
LEMMA FixupsInv ==
  ASSUME IInv, NEW i \in Servers, NEW present \in BOOLEAN, h3_hook_fixups(i, present)
  PROVE  IInv'
<1>1. /\ phase = "running" /\ phase' = phase /\ conf' = conf /\ file' = file /\ lines' = lines
      /\ header' = IF Advertises(i) /\ ~present THEN Field(i) ELSE NoHeader
  BY DEF h3_hook_fixups
<1>2. {"h3_port", "h3_alt_svc_max_age", "h3_alt_svc"} \subseteq Settings
  BY FieldGroups DEF Settings, Numeric, Counts, Flags
<1>3. TypeOK' /\ FileOK'
  <2>1. header' \in [server : 0..N, port : Nat, ma : Nat]
    BY <1>1, <1>2, ConfigAssumption, FieldGroups DEF IInv, TypeOK, Field, NoHeader, Servers
  <2> QED BY <1>1, <2>1 DEF IInv, TypeOK, FileOK
<1>4. \A j \in Servers, f \in Settings : Documented(j, f)' = Documented(j, f)
  BY <1>1 DEF Documented, Own
<1>5. \A j \in Servers : find_h3_server(j)' = find_h3_server(j)
  BY <1>1 DEF find_h3_server, HasCertAndKey
<1>6. ListensAsWritten'
  BY <1>1, <1>4, <1>5 DEF IInv, ListensAsWritten
<1>7. AdvertisesListener'
  <2> SUFFICES ASSUME NEW j \in Servers, header'.server = j, find_h3_server(j)
               PROVE  /\ header'.port = Documented(j, "h3_port")
                      /\ header'.ma = Documented(j, "h3_alt_svc_max_age")
                      /\ Documented(j, "h3_alt_svc") = ON
    BY <1>2, <1>4, <1>5 DEF AdvertisesListener
  <2>1. j # 0 /\ j \in Nat
    BY ConfigAssumption DEF Servers
  <2>2. header' = Field(i) /\ Advertises(i) /\ i = j
    BY <1>1, <2>1 DEF Field, NoHeader
  <2>3. PICK k \in Servers : find_h3_server(k) /\ \A f \in Settings : conf[k][f] = Documented(k, f)
    BY <1>1 DEF IInv, ListensAsWritten
  <2>4. k = j
    BY <2>1, <2>3, ConfigAssumption DEF find_h3_server, Servers
  <2>5. /\ header'.port = conf[j]["h3_port"] /\ header'.ma = conf[j]["h3_alt_svc_max_age"]
        /\ conf[j]["h3_alt_svc"] # OFF
    BY <2>2 DEF Field, Advertises
  <2>6. conf[j]["h3_alt_svc"] \in {ON, OFF}
    <3>1. "h3_alt_svc" \in Flags /\ "h3_alt_svc" # "h3_max_workers" /\ "h3_alt_svc" # "h3_port"
      BY DEF Flags
    <3>2. Legal("h3_alt_svc") = {ON, OFF}
      <4>1. "h3_alt_svc" \notin Numeric \cup Paths
        BY <3>1, FieldGroups
      <4>2. "h3_alt_svc" \notin Qpack \cup Paths
        BY <4>1, FieldGroups DEF Numeric
      <4> QED BY <3>1, <4>2 DEF Legal
    <3>3. Documented(j, "h3_alt_svc") \in {ON, OFF}
      <4>1. "h3_alt_svc" \in DOMAIN Default
        BY DEF Default
      <4>2. Own(j, "h3_alt_svc") \in {ON, OFF}
        BY <1>2, <3>1, <3>2, <4>1, DefaultType, ConfigAssumption
           DEF IInv, FileOK, Own, Servers
      <4> QED BY <3>1, <4>2 DEF Documented
    <3> QED BY <1>2, <2>3, <2>4, <3>3
  <2> QED BY <1>2, <2>3, <2>4, <2>5, <2>6
<1> QED BY <1>1, <1>3, <1>6, <1>7 DEF IInv
-----------------------------------------------------------------------------
\* Whatever is in the file and however often it is read, the structures hold
\* what the invariant says.
THEOREM Invariance == Spec => []IInv
<1>1. IInv /\ [Next]_vars => IInv'
  <2> SUFFICES ASSUME IInv, [Next]_vars PROVE IInv'
    OBVIOUS
  <2>1. ASSUME NEW i \in Servers, h3_cmds(i) PROVE IInv'
    BY <2>1, DirectiveInv
  <2>2. CASE Merge
    BY <2>2, MergeInv
  <2>3. CASE h3_post_config
    BY <2>3, RestartedInv, CompletedInv DEF h3_post_config
  <2>4. CASE Restart
    BY <2>4, RestartedInv DEF Restart
  <2>5. ASSUME NEW i \in Servers, NEW present \in BOOLEAN, h3_hook_fixups(i, present)
        PROVE  IInv'
    BY <2>5, FixupsInv
  <2>6. CASE UNCHANGED vars
    <3>1. conf' = conf /\ phase' = phase /\ file' = file /\ lines' = lines /\ header' = header
      BY <2>6 DEF vars
    <3>2. TypeOK' /\ FileOK'
      BY <3>1 DEF IInv, TypeOK, FileOK
    <3>3. \A i \in Servers : Inherited(i)' = Inherited(i) /\ find_h3_server(i)' = find_h3_server(i)
      BY <3>1 DEF Inherited, find_h3_server, HasCertAndKey
    <3>4. \A i \in Servers, f \in Settings : Documented(i, f)' = Documented(i, f)
      BY <3>1 DEF Documented, Own
    <3>5. ListensAsWritten'
      BY <3>1, <3>3, <3>4 DEF IInv, ListensAsWritten
    <3>6. AdvertisesListener'
      <4>1. {"h3_port", "h3_alt_svc_max_age", "h3_alt_svc"} \subseteq Settings
        BY FieldGroups DEF Settings, Numeric, Counts, Flags
      <4> QED BY <3>1, <3>3, <3>4, <4>1 DEF IInv, AdvertisesListener
    <3> QED BY <3>1, <3>2, <3>3, <3>5, <3>6 DEF IInv
  <2> QED BY <2>1, <2>2, <2>3, <2>4, <2>5, <2>6 DEF Next
<1> QED BY InitInv, <1>1, PTL DEF Spec

\* The children listen with the settings the administrator wrote, inherited
\* and completed as documented.
THEOREM ListensAsWrittenHolds == Spec => []ListensAsWritten
<1>1. IInv => ListensAsWritten
  BY DEF IInv
<1> QED BY Invariance, <1>1, PTL

\* The listening server's Alt-Svc field names its own port and age.
THEOREM AdvertisesListenerHolds == Spec => []AdvertisesListener
<1>1. IInv => AdvertisesListener
  BY DEF IInv
<1> QED BY Invariance, <1>1, PTL

\* Every limit of the listening server is in the range h3.h gives it, and
\* H3MaxConcurrentStreams in the wider one its directive allows.
THEOREM LimitsInRangeHolds == Spec => []LimitsInRange
<1>1. IInv => LimitsInRange
  <2> SUFFICES ASSUME IInv, phase = "running", NEW i \in Servers, find_h3_server(i)
               PROVE  /\ \A f \in Counts \ {"h3_max_response_body_size"} :
                           conf[i][f] \in 1..Maximum[f]
                      /\ \/ conf[i]["h3_max_response_body_size"] \in 1..ResponseMax
                         \/ conf[i]["h3_max_response_body_size"] = Unlimited
                      /\ conf[i]["h3_min_workers"] <= conf[i]["h3_max_workers"]
    <3>1. /\ "h3_max_concurrent_streams" \in Counts \ {"h3_max_response_body_size"}
          /\ Maximum["h3_max_concurrent_streams"] = UINT16_MAX
          /\ \A f \in Counts \ {"h3_max_response_body_size", "h3_max_concurrent_streams"} :
               Maximum[f] = HeaderMaximum[f]
      BY DEF Counts, Maximum, HeaderMaximum
    <3> QED BY <3>1 DEF LimitsInRange
  <2>1. PICK k \in Servers : find_h3_server(k) /\ \A f \in Settings : conf[k][f] = Documented(k, f)
    BY DEF IInv, ListensAsWritten
  <2>2. k = i
    BY <2>1, ConfigAssumption DEF find_h3_server, Servers
  <2>3. \A f \in Counts : f \in Settings /\ Legal(f) = 1..Maximum[f] /\ f # "h3_port"
    BY FieldGroups DEF Legal, Counts
  <2>4. \A f \in Counts : Own(i, f) = Default[f] \/ Own(i, f) \in 1..Maximum[f]
    <3> SUFFICES ASSUME NEW f \in Counts
                 PROVE  Own(i, f) = Default[f] \/ Own(i, f) \in 1..Maximum[f]
      OBVIOUS
    <3>1. f \in Settings /\ Legal(f) = 1..Maximum[f] /\ f # "h3_port" /\ f \in DOMAIN Default
      BY <2>3, DefaultType
    <3>2. 1 \in Servers
      BY ConfigAssumption DEF Servers
    <3>3. \A j \in Servers : file[j][f] # Absent => file[j][f] \in 1..Maximum[f]
      BY <3>1 DEF IInv, FileOK
    <3> QED BY <3>1, <3>2, <3>3 DEF Own
  <2>5. \A f \in Counts \ {"h3_max_response_body_size"} : Own(i, f) \in 1..Maximum[f]
    BY <2>4, DefaultType
  <2>6. /\ {"h3_min_workers", "h3_max_workers", "h3_max_response_body_size"} \subseteq Counts
        /\ Maximum["h3_min_workers"] = Maximum["h3_max_workers"]
        /\ Maximum["h3_max_response_body_size"] = ResponseMax
    BY DEF Counts, Maximum, HeaderMaximum
  <2>7. \A f \in Counts \ {"h3_max_response_body_size"} : Documented(i, f) \in 1..Maximum[f]
    BY <2>5, <2>6 DEF Documented
  <2>8. /\ Documented(i, "h3_min_workers") <= Documented(i, "h3_max_workers")
        /\ Documented(i, "h3_max_response_body_size") = Own(i, "h3_max_response_body_size")
    BY <2>5, <2>6, MaximumType, FieldGroups DEF Documented
  <2>9. Own(i, "h3_max_response_body_size") \in 1..ResponseMax
          \/ Own(i, "h3_max_response_body_size") = Unlimited
    BY <2>4, <2>6, DefaultType
  <2> QED BY <2>1, <2>2, <2>3, <2>6, <2>7, <2>8, <2>9
<1> QED BY Invariance, <1>1, PTL
=============================================================================
