--------------------------- MODULE ChildPortProofs ---------------------------
(***************************************************************************)
(* Proofs about ChildPort, for every set of children: what a child holds   *)
(* and closes, however its start fails and however its stop races with its *)
(* port acquirer.                                                          *)
(***************************************************************************)
EXTENDS ChildPort, FiniteSetTheorems, TLAPS

\* The first n things h3_io_listen_start makes.
Made(n) == {Steps[k] : k \in 1..n}

\* Its steps, one by one.
LEMMA StepsAre ==
  /\ Steps[1] = "wakeup" /\ Steps[2] = "workers" /\ Steps[3] = "engine" /\ Steps[4] = "ctx"
  /\ Steps[5] = "method" /\ Steps[6] = "addr" /\ Steps[7] = "listener" /\ Steps[8] = "dgram"
  /\ Steps[9] = "filter" /\ Steps[10] = "listen" /\ Steps[11] = "thread"
  /\ DOMAIN Steps = 1..11
  BY DEF Steps

\* No two of them are the same.
LEMMA StepsDiffer ==
  ASSUME NEW i \in 1..11, NEW j \in 1..11, Steps[i] = Steps[j]
  PROVE  i = j
<1>1. \A k \in 1..11 : k = 1 \/ k = 2 \/ k = 3 \/ k = 4 \/ k = 5 \/ k = 6 \/ k = 7 \/ k = 8
                         \/ k = 9 \/ k = 10 \/ k = 11
  OBVIOUS
<1> QED BY <1>1, StepsAre

\* None of them.
LEMMA MadeNone == Made(0) = {} /\ 0 \in 0..10
  BY DEF Made

\* One more of them.
LEMMA MadeNext ==
  ASSUME NEW n \in 0..10
  PROVE  /\ Made(n + 1) = Made(n) \cup {Steps[n + 1]}
         /\ Steps[n + 1] \notin Made(n)
<1>1. \A k \in 1..(n + 1) : k \in 1..n \/ k = n + 1
  OBVIOUS
<1>2. \A k \in 1..n : k \in 1..11 /\ n + 1 \in 1..11 /\ k # n + 1
  OBVIOUS
<1>3. Steps[n + 1] \notin Made(n)
  BY <1>2, StepsDiffer DEF Made
<1>4. \A k \in 1..n : k \in 1..(n + 1)
  OBVIOUS
<1>5. n + 1 \in 1..(n + 1)
  OBVIOUS
<1> QED BY <1>1, <1>3, <1>4, <1>5, Zenon DEF Made

\* Their number says how many there are.
LEMMA MadeCount ==
  ASSUME NEW n \in 0..11
  PROVE  IsFiniteSet(Made(n)) /\ Cardinality(Made(n)) = n
<1> DEFINE P(m) == IsFiniteSet(Made(m)) /\ Cardinality(Made(m)) = m
<1>1. P(0)
  BY MadeNone, FS_EmptySet
<1>2. ASSUME NEW m \in 0..10, P(m) PROVE P(m + 1)
  <2>1. Made(m + 1) = Made(m) \cup {Steps[m + 1]} /\ Steps[m + 1] \notin Made(m)
    BY MadeNext
  <2>2. Cardinality(Made(m) \cup {Steps[m + 1]}) = Cardinality(Made(m)) + 1
    BY <1>2, <2>1, FS_AddElement
  <2>3. IsFiniteSet(Made(m) \cup {Steps[m + 1]})
    BY <1>2, FS_AddElement
  <2> QED BY <1>2, <2>1, <2>2, <2>3
<1> HIDE DEF P
<1>3. P(1) /\ P(2) /\ P(3) /\ P(4) /\ P(5) /\ P(6)
  BY <1>1, <1>2
<1>4. P(7) /\ P(8) /\ P(9) /\ P(10) /\ P(11)
  BY <1>2, <1>3
<1>5. P(n)
  BY <1>1, <1>3, <1>4
<1> QED BY <1>5 DEF P

\* Which of them are there.
LEMMA MadeHas ==
  ASSUME NEW n \in 0..11
  PROVE  /\ Made(n) \subseteq Resources
         /\ "dgram" \in Made(n) <=> n >= 8
         /\ "filter" \in Made(n) <=> n >= 9
         /\ n <= 1 => Made(n) \subseteq {"wakeup"}
<1>1. \A k \in 1..n : k \in 1..11
  OBVIOUS
<1>2. Made(n) \subseteq Resources
  BY <1>1, StepsAre, Zenon DEF Made, Resources
<1>3. \A i \in 1..11 : i \in 1..n <=> Steps[i] \in Made(n)
  BY <1>1, StepsDiffer DEF Made
<1>4. 8 \in 1..11 /\ 9 \in 1..11 /\ (8 \in 1..n <=> n >= 8) /\ (9 \in 1..n <=> n >= 9)
  OBVIOUS
<1>5. "dgram" \in Made(n) <=> n >= 8
  BY <1>3, <1>4, StepsAre
<1>6. "filter" \in Made(n) <=> n >= 9
  BY <1>3, <1>4, StepsAre
<1>7. n <= 1 => \A k \in 1..n : k = 1
  OBVIOUS
<1>8. n <= 1 => Made(n) \subseteq {"wakeup"}
  BY <1>7, StepsAre, Zenon DEF Made
<1> QED BY <1>2, <1>5, <1>6, <1>8

\* Whatever step of h3_io_listen_start fails, of what was made only the wakeup
\* sockets stay.
LEMMA FailureReleases ==
  ASSUME NEW n \in 0..10
  PROVE  listen_start_fails(Made(n), Steps[n + 1]) \subseteq {"wakeup"}
<1> DEFINE h == Made(n)
<1>1. /\ h \subseteq Resources
      /\ "dgram" \in h <=> n >= 8
      /\ "filter" \in h <=> n >= 9
      /\ n <= 1 => h \subseteq {"wakeup"}
  BY MadeHas
<1>2. Resources = {"wakeup", "workers", "engine", "ctx", "method", "addr", "listener", "dgram",
                   "filter", "listen", "thread"}
  <2>1. \A k \in 1..11 : k = 1 \/ k = 2 \/ k = 3 \/ k = 4 \/ k = 5 \/ k = 6 \/ k = 7 \/ k = 8
                           \/ k = 9 \/ k = 10 \/ k = 11
    OBVIOUS
  <2> QED BY <2>1, StepsAre DEF Resources
<1>11. n = 0 \/ n = 1 \/ n \in {2, 3} \/ n \in {4, 5, 6} \/ n = 7 \/ n = 8 \/ n = 9 \/ n = 10
  OBVIOUS
<1> HIDE DEF h
<1> USE DEF listen_start_fails, h3q_engine_create_fails, h3q_engine_destroy, FreeBio, Released
<1>3. CASE n = 0
  BY <1>1, <1>3, StepsAre DEF h
<1>4. CASE n = 1
  BY <1>1, <1>4, StepsAre DEF h
<1>5. CASE n \in {2, 3}
  <2>1. Steps[n + 1] \in {"engine", "ctx"}
    BY <1>5, StepsAre
  <2> QED BY <1>1, <1>2, <1>5, <2>1 DEF h
<1>6. CASE n \in {4, 5, 6}
  <2>1. Steps[n + 1] \in {"method", "addr", "listener"}
    BY <1>6, StepsAre
  <2> QED BY <1>1, <1>2, <1>6, <2>1 DEF h
<1>7. CASE n = 7
  <2>1. Steps[n + 1] = "dgram"
    BY <1>7, StepsAre
  <2> QED BY <1>1, <1>2, <1>7, <2>1 DEF h
<1>8. CASE n = 8
  <2>1. Steps[n + 1] = "filter"
    BY <1>8, StepsAre
  <2> QED BY <1>1, <1>2, <1>8, <2>1 DEF h
<1>9. CASE n = 9
  <2>1. Steps[n + 1] = "listen"
    BY <1>9, StepsAre
  <2> QED BY <1>1, <1>2, <1>9, <2>1 DEF h
<1>10. CASE n = 10
  <2>1. Steps[n + 1] = "thread"
    BY <1>10, StepsAre
  <2> QED BY <1>1, <1>2, <1>10, <2>1 DEF h
<1> QED BY <1>3, <1>4, <1>5, <1>6, <1>7, <1>8, <1>9, <1>10, <1>11, Zenon

\* teardown of a listener releases all but the wakeup sockets.
LEMMA TeardownReleases == Released(Resources) \subseteq {"wakeup"}
  BY StepsAre DEF Resources, Released, h3q_engine_destroy
-----------------------------------------------------------------------------
(* The inductive invariant, child by child.                                *)

MainPlaces == StartSteps \cup {"dead", "init", "run", "join", "drain", "stop", "stopped"}
AcquirerPlaces == StartSteps \cup {"none", "loop", "sleep", "opened", "done"}

\* Where the threads are: no more than one of them opens and starts, and the
\* acquirer is joined before anything is drained or stopped.
Places(c) ==
  /\ main[c] \in MainPlaces /\ acquirer[c] \in AcquirerPlaces
  /\ main[c] \in StartSteps \cup {"dead", "init"} => acquirer[c] = "none"
  /\ main[c] \in {"drain", "stop", "stopped"} => acquirer[c] \in {"none", "done"}

\* A thread of the child is starting its listener.
Starting(c) == main[c] = "start" \/ acquirer[c] = "start"

\* The start has failed and the socket is being closed.
Closing(c) == {main[c], acquirer[c]} \cap {"failed", "close"} # {}

\* What the socket is, and who will close it.
Socket(c) ==
  /\ slot[c] \in {"free", "udp", "other"}
  /\ listener[c] \in {"none", "up", "down"} /\ failed[c] \in BOOLEAN /\ strayClose[c] \in BOOLEAN
  /\ listener[c] = "up" => /\ slot[c] = "udp"
                           /\ main[c] \in {"run", "join", "drain", "stop"}
                           /\ acquirer[c] \in {"none", "done"}
  /\ main[c] \in {"drain", "stop"} => listener[c] = "up"
  /\ Starting(c) \/ acquirer[c] = "opened" => slot[c] = "udp"
  /\ slot[c] = "udp" =>
       listener[c] = "up" \/ Starting(c) \/ acquirer[c] = "opened" \/ Closing(c)
  /\ Closing(c) \/ strayClose[c] => failed[c]

\* What the child holds; nothing before its start.
Holdings(c) ==
  /\ Starting(c) => \E n \in 0..10 : held[c] = Made(n)
  /\ listener[c] = "up" => held[c] = Resources
  /\ ~Starting(c) /\ listener[c] # "up" => held[c] \subseteq {"wakeup"}
  /\ main[c] \in {"dead", "init"} \/ acquirer[c] \in {"loop", "sleep", "opened"} => held[c] = {}

ChildInv(c) == Places(c) /\ Socket(c) /\ Holdings(c)

Inv == TypeOK /\ \A c \in Children : ChildInv(c)

\* A child that a step leaves alone keeps ChildInv.
LEMMA LeftAlone ==
  ASSUME NEW d \in Children, ChildInv(d),
         slot'[d] = slot[d], main'[d] = main[d], acquirer'[d] = acquirer[d],
         listener'[d] = listener[d], failed'[d] = failed[d], strayClose'[d] = strayClose[d],
         held'[d] = held[d]
  PROVE  ChildInv(d)'
  BY DEF ChildInv, Places, Socket, Holdings, Starting, Closing

\* Children start with nothing.
LEMMA ChildInitInv == Init => Inv
<1> SUFFICES ASSUME Init PROVE Inv
  OBVIOUS
<1>1. TypeOK
  BY DEF Init, TypeOK, StartSteps
<1>2. ASSUME NEW c \in Children PROVE ChildInv(c)
  BY DEF Init, ChildInv, Places, Socket, Holdings, Starting, Closing, StartSteps, MainPlaces,
     AcquirerPlaces
<1> QED BY <1>1, <1>2 DEF Inv

\* Fork, exit, other descriptors and the retry keep Inv.
LEMMA SystemStep ==
  ASSUME Inv, NEW c \in Children,
         Fork(c) \/ Exit(c) \/ OpenOther(c) \/ CloseOther(c) \/ AcquireRetry(c)
  PROVE  Inv'
<1> USE DEF Fork, Exit, OpenOther, CloseOther, AcquireRetry, flags
<1>1. TypeOK'
  <2>1. CASE Fork(c)
    BY <2>1 DEF Inv, TypeOK, StartSteps
  <2>2. CASE Exit(c)
    BY <2>2 DEF Inv, TypeOK, StartSteps
  <2>3. CASE OpenOther(c) \/ CloseOther(c)
    BY <2>3 DEF Inv, TypeOK
  <2>4. CASE AcquireRetry(c)
    BY <2>4 DEF Inv, TypeOK, StartSteps
  <2> QED BY <2>1, <2>2, <2>3, <2>4
<1>2. ASSUME NEW d \in Children, d # c PROVE ChildInv(d)'
  BY <1>2, LeftAlone DEF Inv, TypeOK
<1>3. ChildInv(c)'
  <2>1. CASE Fork(c)
    BY <2>1 DEF Inv, TypeOK, ChildInv, Places, Socket, Holdings, Starting, Closing, StartSteps,
       MainPlaces
  <2>2. CASE Exit(c)
    BY <2>2 DEF Inv, TypeOK, ChildInv, Places, Socket, Holdings, Starting, Closing, StartSteps,
       MainPlaces, AcquirerPlaces
  <2>3. CASE OpenOther(c) \/ CloseOther(c)
    BY <2>3 DEF Inv, TypeOK, ChildInv, Places, Socket, Holdings, Starting, Closing
  <2>4. CASE AcquireRetry(c)
    BY <2>4 DEF Inv, TypeOK, ChildInv, Places, Socket, Holdings, Starting, Closing, StartSteps,
       AcquirerPlaces
  <2> QED BY <2>1, <2>2, <2>3, <2>4
<1> QED BY <1>1, <1>2, <1>3 DEF Inv

\* h3_child_init keeps Inv.
LEMMA ChildInitStep ==
  ASSUME Inv, NEW c \in Children, ChildInit(c)
  PROVE  Inv'
<1>1. /\ main[c] = "init" /\ UNCHANGED <<child_stopping, graceful, listener, strayClose, held>>
      /\ \/ /\ slot' = [slot EXCEPT ![c] = "udp"] /\ main' = [main EXCEPT ![c] = "start"]
            /\ UNCHANGED <<acquirer, failed>>
         \/ /\ slot' = slot /\ main' = [main EXCEPT ![c] = "run"]
            /\ acquirer' = acquirer \/ acquirer' = [acquirer EXCEPT ![c] = "loop"]
            /\ failed' = failed \/ failed' = [failed EXCEPT ![c] = TRUE]
  BY Zenon DEF ChildInit, Open, Fail, flags
<1>2. TypeOK'
  <2>1. slot' \in [Children -> {"free", "udp", "other"}]
    BY <1>1 DEF Inv, TypeOK
  <2>2. failed' \in [Children -> BOOLEAN]
    BY <1>1 DEF Inv, TypeOK
  <2>3. main' = [main EXCEPT ![c] = "start"] \/ main' = [main EXCEPT ![c] = "run"]
    BY <1>1
  <2>4. acquirer' = acquirer \/ acquirer' = [acquirer EXCEPT ![c] = "loop"]
    BY <1>1
  <2> QED BY <1>1, <2>1, <2>2, <2>3, <2>4 DEF Inv, TypeOK, StartSteps
<1>3. ASSUME NEW d \in Children, d # c PROVE ChildInv(d)'
  <2>1. slot'[d] = slot[d] /\ main'[d] = main[d] /\ acquirer'[d] = acquirer[d] /\ failed'[d] = failed[d]
    BY <1>1, <1>3 DEF Inv, TypeOK
  <2> QED BY <1>1, <2>1, LeftAlone DEF Inv
<1>4. /\ acquirer[c] = "none" /\ slot[c] # "udp" /\ listener[c] # "up" /\ held[c] = {}
      /\ ~Closing(c) /\ ~Starting(c)
  BY <1>1 DEF Inv, ChildInv, Places, Socket, Holdings, Starting, Closing
<1>5. ChildInv(c)'
  <2>1. CASE /\ slot' = [slot EXCEPT ![c] = "udp"] /\ main' = [main EXCEPT ![c] = "start"]
             /\ UNCHANGED <<acquirer, failed>>
    <3>1. slot'[c] = "udp" /\ main'[c] = "start" /\ acquirer'[c] = "none" /\ failed'[c] = failed[c]
      BY <1>4, <2>1 DEF Inv, TypeOK
    <3>2. held'[c] = Made(0) /\ 0 \in 0..10
      BY <1>1, <1>4, MadeNone
    <3>3. Places(c)'
      BY <3>1 DEF Places, MainPlaces, AcquirerPlaces, StartSteps
    <3>4. Socket(c)'
      BY <1>1, <1>4, <3>1 DEF Inv, ChildInv, Socket, Starting, Closing
    <3>5. Holdings(c)'
      BY <1>1, <1>4, <3>1, <3>2 DEF Holdings, Starting
    <3> QED BY <3>3, <3>4, <3>5 DEF ChildInv
  <2>2. CASE /\ slot' = slot /\ main' = [main EXCEPT ![c] = "run"]
             /\ acquirer' = acquirer \/ acquirer' = [acquirer EXCEPT ![c] = "loop"]
             /\ failed' = failed \/ failed' = [failed EXCEPT ![c] = TRUE]
    <3>1. /\ slot'[c] = slot[c] /\ main'[c] = "run" /\ acquirer'[c] \in {"none", "loop"}
          /\ failed'[c] \in {failed[c], TRUE}
      BY <1>4, <2>2 DEF Inv, TypeOK
    <3>2. Places(c)'
      BY <3>1 DEF Places, MainPlaces, AcquirerPlaces, StartSteps
    <3>3. Socket(c)'
      BY <1>1, <1>4, <3>1 DEF Inv, ChildInv, Socket, Starting, Closing
    <3>4. Holdings(c)'
      BY <1>1, <1>4, <3>1 DEF Holdings, Starting
    <3> QED BY <3>2, <3>3, <3>4 DEF ChildInv
  <2> QED BY <1>1, <2>1, <2>2
<1> QED BY <1>2, <1>3, <1>5 DEF Inv

\* A try of the acquirer keeps Inv.
LEMMA AcquireStep ==
  ASSUME Inv, NEW c \in Children, Acquire(c)
  PROVE  Inv'
<1>1. /\ acquirer[c] = "loop"
      /\ UNCHANGED <<main, child_stopping, graceful, listener, strayClose, held>>
      /\ \/ /\ slot' = slot /\ acquirer' = [acquirer EXCEPT ![c] = "done"]
            /\ failed' = failed \/ failed' = [failed EXCEPT ![c] = failed[c] \/ TRUE]
         \/ /\ slot' = slot /\ acquirer' = [acquirer EXCEPT ![c] = "sleep"]
            /\ failed' = [failed EXCEPT ![c] = failed[c] \/ FALSE]
         \/ /\ slot' = [slot EXCEPT ![c] = "udp"] /\ acquirer' = [acquirer EXCEPT ![c] = "opened"]
            /\ failed' = [failed EXCEPT ![c] = failed[c] \/ FALSE]
  BY DEF Acquire, Open, GiveUp, StopSeen, flags
<1>2. TypeOK'
  BY <1>1 DEF Inv, TypeOK, StartSteps
<1>3. ASSUME NEW d \in Children, d # c PROVE ChildInv(d)'
  BY <1>1, <1>3, LeftAlone DEF Inv, TypeOK
<1>4. /\ main[c] \in {"run", "join"} /\ slot[c] # "udp" /\ listener[c] # "up" /\ held[c] = {}
      /\ ~Closing(c) /\ ~Starting(c)
  BY <1>1 DEF Inv, ChildInv, Places, Socket, Holdings, Starting, Closing, MainPlaces, StartSteps
<1>5. /\ slot'[c] \in {"free", "udp", "other"} /\ failed'[c] \in BOOLEAN
      /\ failed[c] => failed'[c]
      /\ acquirer'[c] \in {"done", "sleep", "opened"}
      /\ slot'[c] = "udp" <=> acquirer'[c] = "opened"
  BY <1>1, <1>4 DEF Inv, TypeOK
<1>6. Places(c)'
  BY <1>1, <1>4, <1>5 DEF Places, MainPlaces, AcquirerPlaces, StartSteps
<1>7. Socket(c)'
  BY <1>1, <1>4, <1>5 DEF Inv, ChildInv, Socket, Starting, Closing
<1>8. Holdings(c)'
  BY <1>1, <1>4, <1>5 DEF Holdings, Starting
<1> QED BY <1>2, <1>3, <1>6, <1>7, <1>8 DEF Inv, ChildInv

\* So does what it does with the socket: it starts, or the socket it closes is the
\* UDP socket.
LEMMA AcquiredStep ==
  ASSUME Inv, NEW c \in Children, Acquired(c)
  PROVE  Inv'
<1> USE DEF Acquired, Close, StopStep, flags
<1>1. TypeOK'
  BY DEF Inv, TypeOK, StartSteps
<1>2. ASSUME NEW d \in Children, d # c PROVE ChildInv(d)'
  BY <1>2, LeftAlone DEF Inv, TypeOK
<1>3. /\ slot[c] = "udp" /\ held[c] = {} /\ main[c] \notin StartSteps \cup {"dead", "init"}
      /\ listener[c] # "up"
  BY DEF Inv, ChildInv, Places, Socket, Holdings
<1>4. ChildInv(c)'
  BY <1>3, MadeNone DEF Inv, TypeOK, ChildInv, Places, Socket, Holdings, Starting, Closing,
     StartSteps, MainPlaces, AcquirerPlaces
<1> QED BY <1>1, <1>2, <1>4 DEF Inv

\* The stop hooks keep Inv until teardown.
LEMMA StopStepInv ==
  ASSUME Inv, NEW c \in Children, Stopping(c) \/ Joined(c) \/ EndDrain(c)
  PROVE  Inv'
<1> USE DEF Stopping, Joined, EndDrain, AcquirerJoined, flags
<1>1. TypeOK'
  BY DEF Inv, TypeOK, StartSteps
<1>2. ASSUME NEW d \in Children, d # c PROVE ChildInv(d)'
  BY <1>2, LeftAlone DEF Inv, TypeOK
<1>3. ChildInv(c)'
  BY DEF Inv, TypeOK, ChildInv, Places, Socket, Holdings, Starting, Closing, StartSteps,
     MainPlaces, AcquirerPlaces
<1> QED BY <1>1, <1>2, <1>3 DEF Inv

\* teardown closes the UDP socket and releases what the listener held.
LEMMA TeardownStep ==
  ASSUME Inv, NEW c \in Children, Teardown(c)
  PROVE  Inv'
<1> USE DEF Teardown, Close, flags
<1>1. listener[c] = "up" /\ held[c] = Resources /\ slot[c] = "udp" /\ acquirer[c] \in {"none", "done"}
  BY DEF Inv, ChildInv, Places, Socket, Holdings
<1>2. Released(Resources) \subseteq {"wakeup"} /\ Released(Resources) \subseteq Resources
  BY TeardownReleases DEF Released, h3q_engine_destroy
<1>3. held'[c] = Released(Resources) /\ slot'[c] = "free" /\ listener'[c] = "down"
  BY <1>1 DEF Inv, TypeOK
<1>4. held' \in [Children -> SUBSET Resources]
  BY <1>1, <1>2 DEF Inv, TypeOK
<1>5. TypeOK'
  BY <1>1, <1>4 DEF Inv, TypeOK, StartSteps
<1>6. ASSUME NEW d \in Children, d # c PROVE ChildInv(d)'
  BY <1>6, LeftAlone DEF Inv, TypeOK
<1>7. ChildInv(c)'
  BY <1>1, <1>2, <1>3 DEF Inv, TypeOK, ChildInv, Places, Socket, Holdings, Starting, Closing,
     StartSteps, MainPlaces, AcquirerPlaces
<1> QED BY <1>5, <1>6, <1>7 DEF Inv

\* The step that is next, when n were made; making it makes the next set.
LEMMA NextStep ==
  ASSUME NEW n \in 0..10
  PROVE  /\ Cardinality(Made(n)) + 1 = n + 1
         /\ Made(n) \cup {Steps[n + 1]} = Made(n + 1)
         /\ Made(n + 1) \subseteq Resources
         /\ Steps[n + 1] = "thread" => Made(n + 1) = Resources
         /\ Steps[n + 1] # "thread" => n + 1 \in 0..10
<1>1. n \in 0..11 /\ n + 1 \in 0..11 /\ n + 1 \in 1..11 /\ 11 \in 1..11
  OBVIOUS
<1>2. Cardinality(Made(n)) = n
  BY <1>1, MadeCount
<1>3. Made(n) \cup {Steps[n + 1]} = Made(n + 1)
  BY MadeNext
<1>4. Made(n + 1) \subseteq Resources
  BY <1>1, MadeHas
<1>5. ASSUME Steps[n + 1] = "thread" PROVE Made(n + 1) = Resources
  <2>1. n + 1 = 11
    BY <1>1, <1>5, StepsAre, StepsDiffer, Zenon
  <2> QED BY <2>1, StepsAre, Zenon DEF Made, Resources
<1>6. ASSUME Steps[n + 1] # "thread" PROVE n + 1 \in 0..10
  <2>1. n + 1 # 11
    BY <1>6, StepsAre
  <2> QED BY <2>1
<1> QED BY <1>2, <1>3, <1>4, <1>5, <1>6

\* What a step of h3_io_listen_start or of its caller does to the child, in a
\* thread that goes from pc to new.
Makes(c, pc, new, ok) ==
  /\ pc = "start" /\ UNCHANGED <<slot, strayClose, failed>>
  /\ \E n \in 0..10 : held[c] = Made(n) /\ held' = [held EXCEPT ![c] = Made(n + 1)]
                       /\ IF Steps[n + 1] = "thread"
                            THEN listener' = [listener EXCEPT ![c] = "up"] /\ new = ok
                            ELSE UNCHANGED listener /\ new = "start"

Breaks(c, pc, new) ==
  /\ pc = "start" /\ new \in {"close", "failed"}
  /\ UNCHANGED <<slot, strayClose, listener>> /\ failed' = [failed EXCEPT ![c] = TRUE]
  /\ \E h \in SUBSET {"wakeup"} : held' = [held EXCEPT ![c] = h]

Closes(c, pc, new, ok) ==
  /\ (pc = "failed" /\ new = "close") \/ (pc = "close" /\ new = ok)
  /\ Close(c) /\ UNCHANGED <<listener, failed, held>>

\* Starting in the main thread.
LEMMA MainStarts ==
  ASSUME Inv, NEW c \in Children, MainStart(c)
  PROVE  \E new \in {"start", "close", "failed", "run"} :
           /\ main' = [main EXCEPT ![c] = new]
           /\ Makes(c, main[c], new, "run") \/ Breaks(c, main[c], new)
                \/ Closes(c, main[c], new, "run")
<1>1. CASE main[c] = "start"
  <2>1. PICK n \in 0..10 : held[c] = Made(n)
    BY <1>1 DEF Inv, ChildInv, Holdings, Starting
  <2> DEFINE step == Steps[n + 1]
  <2>2. /\ Steps[Cardinality(held[c]) + 1] = step
        /\ held[c] \cup {step} = Made(n + 1)
        /\ listen_start_fails(held[c], step) \in SUBSET {"wakeup"}
    BY <2>1, NextStep, FailureReleases
  <2>3. \/ /\ held' = [held EXCEPT ![c] = held[c] \cup {step}]
           /\ IF step = "thread"
                THEN /\ listener' = [listener EXCEPT ![c] = "up"]
                     /\ main' = [main EXCEPT ![c] = "run"]
                ELSE UNCHANGED <<listener, main>>
           /\ UNCHANGED <<failed, slot, strayClose>>
        \/ /\ failed' = [failed EXCEPT ![c] = TRUE] /\ UNCHANGED <<listener, slot, strayClose>>
           /\ held' = [held EXCEPT ![c] = listen_start_fails(held[c], step)]
           /\ \/ main' = [main EXCEPT ![c] = "close"] \/ main' = [main EXCEPT ![c] = "failed"]
    <3>1. main[c] # "failed" /\ main[c] # "close"
      BY <1>1
    <3> HIDE DEF step
    <3> QED BY <2>2, <3>1, Zenon DEF MainStart, ListenStart, Fail
  <2>4. main = [main EXCEPT ![c] = "start"]
    BY <1>1 DEF Inv, TypeOK
  <2> QED BY <1>1, <2>1, <2>2, <2>3, <2>4, Zenon DEF Makes, Breaks
<1>2. CASE main[c] # "start"
  BY <1>2, Zenon DEF MainStart, ListenStart, Closes
<1> QED BY <1>1, <1>2

\* Starting in the acquirer.
LEMMA AcquirerStarts ==
  ASSUME Inv, NEW c \in Children, AcquirerStart(c)
  PROVE  \E new \in {"start", "close", "failed", "done"} :
           /\ acquirer' = [acquirer EXCEPT ![c] = new]
           /\ Makes(c, acquirer[c], new, "done") \/ Breaks(c, acquirer[c], new)
                \/ Closes(c, acquirer[c], new, "done")
<1>1. CASE acquirer[c] = "start"
  <2>1. PICK n \in 0..10 : held[c] = Made(n)
    BY <1>1 DEF Inv, ChildInv, Holdings, Starting
  <2> DEFINE step == Steps[n + 1]
  <2>2. /\ Steps[Cardinality(held[c]) + 1] = step
        /\ held[c] \cup {step} = Made(n + 1)
        /\ listen_start_fails(held[c], step) \in SUBSET {"wakeup"}
    BY <2>1, NextStep, FailureReleases
  <2>3. \/ /\ held' = [held EXCEPT ![c] = held[c] \cup {step}]
           /\ IF step = "thread"
                THEN /\ listener' = [listener EXCEPT ![c] = "up"]
                     /\ acquirer' = [acquirer EXCEPT ![c] = "done"]
                ELSE UNCHANGED <<listener, acquirer>>
           /\ UNCHANGED <<failed, slot, strayClose>>
        \/ /\ failed' = [failed EXCEPT ![c] = TRUE] /\ UNCHANGED <<listener, slot, strayClose>>
           /\ held' = [held EXCEPT ![c] = listen_start_fails(held[c], step)]
           /\ \/ acquirer' = [acquirer EXCEPT ![c] = "close"] \/ acquirer' = [acquirer EXCEPT ![c] = "failed"]
    <3>1. acquirer[c] # "failed" /\ acquirer[c] # "close"
      BY <1>1
    <3> HIDE DEF step
    <3> QED BY <2>2, <3>1, Zenon DEF AcquirerStart, ListenStart, Fail
  <2>4. acquirer = [acquirer EXCEPT ![c] = "start"]
    BY <1>1 DEF Inv, TypeOK
  <2> QED BY <1>1, <2>1, <2>2, <2>3, <2>4, Zenon DEF Makes, Breaks
<1>2. CASE acquirer[c] # "start"
  BY <1>2, Zenon DEF AcquirerStart, ListenStart, Closes
<1> QED BY <1>1, <1>2

\* h3_child_init's start keeps Inv.
LEMMA MainStartStep ==
  ASSUME Inv, NEW c \in Children, MainStart(c)
  PROVE  Inv'
<1>1. PICK new \in {"start", "close", "failed", "run"} :
        /\ main' = [main EXCEPT ![c] = new]
        /\ Makes(c, main[c], new, "run") \/ Breaks(c, main[c], new) \/ Closes(c, main[c], new, "run")
  BY MainStarts
<1>2. UNCHANGED <<acquirer, child_stopping, graceful>>
  BY DEF MainStart, flags
<1>3. main'[c] = new /\ main[c] \in StartSteps
  BY <1>1 DEF Inv, TypeOK, Makes, Breaks, Closes, StartSteps
<1>4. acquirer[c] = "none"
  BY <1>3 DEF Inv, ChildInv, Places, StartSteps, MainPlaces
<1>5. Places(c)'
  BY <1>2, <1>3, <1>4 DEF Places, StartSteps, MainPlaces, AcquirerPlaces
<1>6. listener[c] # "up" /\ listener[c] \in {"none", "down"}
  BY <1>3, <1>4 DEF Inv, ChildInv, Socket, StartSteps
<1>7. ASSUME Makes(c, main[c], new, "run") PROVE Inv'
  <2>1. PICK n \in 0..10 : /\ held[c] = Made(n) /\ held' = [held EXCEPT ![c] = Made(n + 1)]
                           /\ IF Steps[n + 1] = "thread"
                                THEN listener' = [listener EXCEPT ![c] = "up"] /\ new = "run"
                                ELSE UNCHANGED listener /\ new = "start"
    BY <1>7 DEF Makes
  <2>2. /\ main[c] = "start" /\ UNCHANGED <<slot, strayClose, failed>>
    BY <1>7 DEF Makes
  <2>3. /\ Made(n + 1) \subseteq Resources
        /\ Steps[n + 1] = "thread" => Made(n + 1) = Resources
        /\ Steps[n + 1] # "thread" => n + 1 \in 0..10
    BY NextStep
  <2>4. held' \in [Children -> SUBSET Resources] /\ held'[c] = Made(n + 1)
    BY <2>1, <2>3 DEF Inv, TypeOK
  <2>5. TypeOK'
    BY <1>1, <1>2, <1>3, <1>4, <2>1, <2>2, <2>4 DEF Inv, TypeOK, StartSteps
  <2>6. ASSUME NEW d \in Children, d # c PROVE ChildInv(d)'
    BY <1>1, <1>2, <2>1, <2>2, <2>6, LeftAlone DEF Inv, TypeOK
  <2>7. slot[c] = "udp" /\ (strayClose[c] => failed[c]) /\ failed[c] \in BOOLEAN /\ strayClose[c] \in BOOLEAN
    BY <2>2 DEF Inv, ChildInv, Socket, Starting
  <2>8. CASE Steps[n + 1] = "thread"
    <3>1. listener'[c] = "up" /\ main'[c] = "run" /\ held'[c] = Resources
      BY <1>3, <2>1, <2>3, <2>4, <2>8 DEF Inv, TypeOK
    <3>2. Socket(c)'
      BY <1>2, <1>4, <2>2, <2>7, <3>1 DEF Socket, Starting, Closing
    <3>3. Holdings(c)'
      BY <1>2, <1>4, <3>1 DEF Holdings, Starting
    <3> QED BY <1>5, <2>5, <2>6, <3>2, <3>3 DEF Inv, ChildInv
  <2>9. CASE Steps[n + 1] # "thread"
    <3>1. listener'[c] = listener[c] /\ main'[c] = "start"
      BY <1>3, <2>1, <2>9
    <3>2. Socket(c)'
      BY <1>2, <1>4, <1>6, <2>2, <2>7, <3>1 DEF Socket, Starting, Closing
    <3>3. \E m \in 0..10 : held'[c] = Made(m)
      BY <2>3, <2>4, <2>9
    <3>4. Holdings(c)'
      BY <1>2, <1>4, <1>6, <3>1, <3>3 DEF Holdings, Starting
    <3> QED BY <1>5, <2>5, <2>6, <3>2, <3>4 DEF Inv, ChildInv
  <2> QED BY <2>8, <2>9
<1>8. ASSUME Breaks(c, main[c], new) PROVE Inv'
  <2>1. PICK h \in SUBSET {"wakeup"} : held' = [held EXCEPT ![c] = h]
    BY <1>8 DEF Breaks
  <2>2. /\ main[c] = "start" /\ new \in {"close", "failed"}
        /\ UNCHANGED <<slot, strayClose, listener>> /\ failed' = [failed EXCEPT ![c] = TRUE]
    BY <1>8 DEF Breaks
  <2>3. h \subseteq Resources
    BY <2>1, StepsAre DEF Resources
  <2>4. held' \in [Children -> SUBSET Resources] /\ held'[c] = h /\ failed'[c] = TRUE
    BY <2>1, <2>2, <2>3 DEF Inv, TypeOK
  <2>5. TypeOK'
    BY <1>1, <1>2, <1>3, <1>4, <2>2, <2>4 DEF Inv, TypeOK, StartSteps
  <2>6. ASSUME NEW d \in Children, d # c PROVE ChildInv(d)'
    BY <1>1, <1>2, <2>1, <2>2, <2>6, LeftAlone DEF Inv, TypeOK
  <2>7. slot[c] = "udp" /\ strayClose[c] \in BOOLEAN
    BY <2>2 DEF Inv, ChildInv, Socket, Starting
  <2>8. Socket(c)'
    BY <1>2, <1>3, <1>4, <1>6, <2>2, <2>4, <2>7 DEF Socket, Starting, Closing
  <2>9. Holdings(c)'
    BY <1>2, <1>3, <1>4, <1>6, <2>1, <2>2, <2>4 DEF Holdings, Starting
  <2> QED BY <1>5, <2>5, <2>6, <2>8, <2>9 DEF Inv, ChildInv
<1>9. ASSUME Closes(c, main[c], new, "run") PROVE Inv'
  <2>1. /\ main[c] \in {"failed", "close"} /\ new \in {"close", "run"}
        /\ slot' = [slot EXCEPT ![c] = "free"]
        /\ strayClose' = [strayClose EXCEPT ![c] = strayClose[c] \/ slot[c] = "other"]
        /\ UNCHANGED <<listener, failed, held>>
    BY <1>9 DEF Closes, Close
  <2>2. failed[c] = TRUE /\ held[c] \subseteq {"wakeup"}
    BY <1>4, <1>6, <2>1 DEF Inv, ChildInv, Socket, Closing, Holdings, Starting
  <2>3. slot'[c] = "free" /\ strayClose'[c] \in BOOLEAN
    BY <2>1 DEF Inv, TypeOK
  <2>4. TypeOK'
    BY <1>1, <1>2, <1>3, <1>4, <2>1 DEF Inv, TypeOK, StartSteps
  <2>5. ASSUME NEW d \in Children, d # c PROVE ChildInv(d)'
    BY <1>1, <1>2, <2>1, <2>5, LeftAlone DEF Inv, TypeOK
  <2>6. Socket(c)'
    BY <1>2, <1>3, <1>4, <1>6, <2>1, <2>2, <2>3 DEF Socket, Starting, Closing
  <2>7. Holdings(c)'
    BY <1>2, <1>3, <1>4, <1>6, <2>1, <2>2 DEF Holdings, Starting
  <2> QED BY <1>5, <2>4, <2>5, <2>6, <2>7 DEF Inv, ChildInv
<1> QED BY <1>1, <1>7, <1>8, <1>9

\* So does the acquirer's.
LEMMA AcquirerStartStep ==
  ASSUME Inv, NEW c \in Children, AcquirerStart(c)
  PROVE  Inv'
<1>1. PICK new \in {"start", "close", "failed", "done"} :
        /\ acquirer' = [acquirer EXCEPT ![c] = new]
        /\ Makes(c, acquirer[c], new, "done") \/ Breaks(c, acquirer[c], new) \/ Closes(c, acquirer[c], new, "done")
  BY AcquirerStarts
<1>2. UNCHANGED <<main, child_stopping, graceful>>
  BY DEF AcquirerStart, flags
<1>3. acquirer'[c] = new /\ acquirer[c] \in StartSteps
  BY <1>1 DEF Inv, TypeOK, Makes, Breaks, Closes, StartSteps
<1>4. main[c] \in {"run", "join"}
  BY <1>3 DEF Inv, ChildInv, Places, StartSteps, MainPlaces
<1>5. Places(c)'
  BY <1>2, <1>3, <1>4 DEF Places, StartSteps, MainPlaces, AcquirerPlaces
<1>6. listener[c] # "up" /\ listener[c] \in {"none", "down"}
  BY <1>3, <1>4 DEF Inv, ChildInv, Socket, StartSteps
<1>7. ASSUME Makes(c, acquirer[c], new, "done") PROVE Inv'
  <2>1. PICK n \in 0..10 : /\ held[c] = Made(n) /\ held' = [held EXCEPT ![c] = Made(n + 1)]
                           /\ IF Steps[n + 1] = "thread"
                                THEN listener' = [listener EXCEPT ![c] = "up"] /\ new = "done"
                                ELSE UNCHANGED listener /\ new = "start"
    BY <1>7 DEF Makes
  <2>2. /\ acquirer[c] = "start" /\ UNCHANGED <<slot, strayClose, failed>>
    BY <1>7 DEF Makes
  <2>3. /\ Made(n + 1) \subseteq Resources
        /\ Steps[n + 1] = "thread" => Made(n + 1) = Resources
        /\ Steps[n + 1] # "thread" => n + 1 \in 0..10
    BY NextStep
  <2>4. held' \in [Children -> SUBSET Resources] /\ held'[c] = Made(n + 1)
    BY <2>1, <2>3 DEF Inv, TypeOK
  <2>5. TypeOK'
    BY <1>1, <1>2, <1>3, <1>4, <2>1, <2>2, <2>4 DEF Inv, TypeOK, StartSteps
  <2>6. ASSUME NEW d \in Children, d # c PROVE ChildInv(d)'
    BY <1>1, <1>2, <2>1, <2>2, <2>6, LeftAlone DEF Inv, TypeOK
  <2>7. slot[c] = "udp" /\ (strayClose[c] => failed[c]) /\ failed[c] \in BOOLEAN /\ strayClose[c] \in BOOLEAN
    BY <2>2 DEF Inv, ChildInv, Socket, Starting
  <2>8. CASE Steps[n + 1] = "thread"
    <3>1. listener'[c] = "up" /\ acquirer'[c] = "done" /\ held'[c] = Resources
      BY <1>3, <2>1, <2>3, <2>4, <2>8 DEF Inv, TypeOK
    <3>2. Socket(c)'
      BY <1>2, <1>4, <2>2, <2>7, <3>1 DEF Socket, Starting, Closing
    <3>3. Holdings(c)'
      BY <1>2, <1>4, <3>1 DEF Holdings, Starting
    <3> QED BY <1>5, <2>5, <2>6, <3>2, <3>3 DEF Inv, ChildInv
  <2>9. CASE Steps[n + 1] # "thread"
    <3>1. listener'[c] = listener[c] /\ acquirer'[c] = "start"
      BY <1>3, <2>1, <2>9
    <3>2. Socket(c)'
      BY <1>2, <1>4, <1>6, <2>2, <2>7, <3>1 DEF Socket, Starting, Closing
    <3>3. \E m \in 0..10 : held'[c] = Made(m)
      BY <2>3, <2>4, <2>9
    <3>4. Holdings(c)'
      BY <1>2, <1>4, <1>6, <3>1, <3>3 DEF Holdings, Starting
    <3> QED BY <1>5, <2>5, <2>6, <3>2, <3>4 DEF Inv, ChildInv
  <2> QED BY <2>8, <2>9
<1>8. ASSUME Breaks(c, acquirer[c], new) PROVE Inv'
  <2>1. PICK h \in SUBSET {"wakeup"} : held' = [held EXCEPT ![c] = h]
    BY <1>8 DEF Breaks
  <2>2. /\ acquirer[c] = "start" /\ new \in {"close", "failed"}
        /\ UNCHANGED <<slot, strayClose, listener>> /\ failed' = [failed EXCEPT ![c] = TRUE]
    BY <1>8 DEF Breaks
  <2>3. h \subseteq Resources
    BY <2>1, StepsAre DEF Resources
  <2>4. held' \in [Children -> SUBSET Resources] /\ held'[c] = h /\ failed'[c] = TRUE
    BY <2>1, <2>2, <2>3 DEF Inv, TypeOK
  <2>5. TypeOK'
    BY <1>1, <1>2, <1>3, <1>4, <2>2, <2>4 DEF Inv, TypeOK, StartSteps
  <2>6. ASSUME NEW d \in Children, d # c PROVE ChildInv(d)'
    BY <1>1, <1>2, <2>1, <2>2, <2>6, LeftAlone DEF Inv, TypeOK
  <2>7. slot[c] = "udp" /\ strayClose[c] \in BOOLEAN
    BY <2>2 DEF Inv, ChildInv, Socket, Starting
  <2>8. Socket(c)'
    BY <1>2, <1>3, <1>4, <1>6, <2>2, <2>4, <2>7 DEF Socket, Starting, Closing
  <2>9. Holdings(c)'
    BY <1>2, <1>3, <1>4, <1>6, <2>1, <2>2, <2>4 DEF Holdings, Starting
  <2> QED BY <1>5, <2>5, <2>6, <2>8, <2>9 DEF Inv, ChildInv
<1>9. ASSUME Closes(c, acquirer[c], new, "done") PROVE Inv'
  <2>1. /\ acquirer[c] \in {"failed", "close"} /\ new \in {"close", "done"}
        /\ slot' = [slot EXCEPT ![c] = "free"]
        /\ strayClose' = [strayClose EXCEPT ![c] = strayClose[c] \/ slot[c] = "other"]
        /\ UNCHANGED <<listener, failed, held>>
    BY <1>9 DEF Closes, Close
  <2>2. failed[c] = TRUE /\ held[c] \subseteq {"wakeup"}
    BY <1>4, <1>6, <2>1 DEF Inv, ChildInv, Socket, Closing, Holdings, Starting
  <2>3. slot'[c] = "free" /\ strayClose'[c] \in BOOLEAN
    BY <2>1 DEF Inv, TypeOK
  <2>4. TypeOK'
    BY <1>1, <1>2, <1>3, <1>4, <2>1 DEF Inv, TypeOK, StartSteps
  <2>5. ASSUME NEW d \in Children, d # c PROVE ChildInv(d)'
    BY <1>1, <1>2, <2>1, <2>5, LeftAlone DEF Inv, TypeOK
  <2>6. Socket(c)'
    BY <1>2, <1>3, <1>4, <1>6, <2>1, <2>2, <2>3 DEF Socket, Starting, Closing
  <2>7. Holdings(c)'
    BY <1>2, <1>3, <1>4, <1>6, <2>1, <2>2 DEF Holdings, Starting
  <2> QED BY <1>5, <2>4, <2>5, <2>6, <2>7 DEF Inv, ChildInv
<1> QED BY <1>1, <1>7, <1>8, <1>9

\* Inv is an invariant of any number of children, however they are forked,
\* stopped and killed and whatever step of a start fails.
THEOREM Invariance == Spec => []Inv
<1>1. ASSUME Inv, Next PROVE Inv'
  BY <1>1, SystemStep, ChildInitStep, MainStartStep, AcquireStep, AcquiredStep, AcquirerStartStep,
     StopStepInv, TeardownStep, Zenon DEF Next, Child, Acquirer
<1>2. ASSUME Inv, UNCHANGED vars PROVE Inv'
  BY <1>2 DEF vars, Inv, TypeOK, ChildInv, Places, Socket, Holdings, Starting, Closing
<1> QED BY <1>1, <1>2, ChildInitInv, PTL DEF Spec

\* The variables keep their types, and h3_c1_child_stopping has joined the
\* acquirer before anything is drained or stopped.
THEOREM TypeCorrect == Spec => []TypeOK
<1>1. Inv => TypeOK
  BY DEF Inv
<1> QED BY <1>1, Invariance, PTL

\* The socket of a running listener is open, the stop hooks leave neither, and
\* h3_socket_close closes nothing else unless h3_io_listen_start failed.
THEOREM SocketDisciplineHolds == Spec => []SocketDiscipline
<1>1. Inv => SocketDiscipline
  <2> SUFFICES ASSUME Inv, NEW c \in Children
               PROVE  /\ listener[c] = "up" => slot[c] = "udp"
                      /\ main[c] = "stopped" => slot[c] # "udp" /\ listener[c] # "up"
                      /\ strayClose[c] => failed[c]
    BY DEF SocketDiscipline
  <2> QED BY DEF Inv, ChildInv, Places, Socket, Starting, Closing
<1> QED BY <1>1, Invariance, PTL

\* A running listener has everything h3_io_listen_start makes, and a child
\* without one holds nothing but the wakeup sockets.
THEOREM NothingHeldHolds == Spec => []NothingHeld
<1>1. Inv => NothingHeld
  BY DEF Inv, ChildInv, Holdings, Starting, NothingHeld
<1> QED BY <1>1, Invariance, PTL
=============================================================================
