-------------------------- MODULE RemoteSubmix_proofs --------------------------
(***************************************************************************)
(* Proofs about RemoteSubmix for any addresses, recording clients, routes, *)
(* rates and pipes: who has which route, how often an input is shared,     *)
(* that every open stream has a pipe of its own, and that a writer waits   *)
(* only for an input.                                                      *)
(***************************************************************************)
EXTENDS RemoteSubmix, FiniteSetTheorems, TLAPS

\* A closed handle refers to no pipe, a transfer under way to one, and an output in out_write
\* has room in its count of frames.
HandleInv ==
  /\ \A a \in Addresses :
       /\ out[a].pc = "closed" => out[a].sink = 0
       /\ out[a].pc # "closed" => out[a].route # 0
       /\ out[a].pc = "write" => out[a].sink # 0
       /\ out[a].pc \in {"write", "count", "skip"} => out[a].frames < MaxWritten
  /\ \A c \in Clients :
       /\ in[c].pc = "closed" => in[c].source = 0
       /\ in[c].pc # "closed" => in[c].route # 0
       /\ in[c].pc = "read" => in[c].source # 0

\* A writer writes to its route's pipe, or to one that was shut down and taken off it.
SinkInv ==
  \A a \in Addresses : out[a].pc = "write" =>
    \/ out[a].sink = routes[out[a].route].pipe
    \/ pipes[out[a].sink].shutdown /\ \A i \in Routes : routes[i].pipe # out[a].sink

IInv ==
  /\ TypeOK /\ HandleInv /\ SinkInv
  /\ StreamHasPipe /\ RoutesFollowStreams /\ InputCounted /\ WriteWaitsForInput /\ OpenInputHears

-----------------------------------------------------------------------------
(* There is always a pipe for the next stream. *)

\* A set of values that a finite number of handles has is no larger than they are.
LEMMA RangeCount ==
  ASSUME NEW S, IsFiniteSet(S), NEW f, f = [x \in S |-> f[x]]
  PROVE  /\ IsFiniteSet({f[x] : x \in S})
         /\ Cardinality({f[x] : x \in S}) <= Cardinality(S)
  <1>1. f \in Surjection(S, {f[x] : x \in S})
    BY DEF Surjection
  <1>2. QED BY <1>1, FS_Surjection

\* Two finite sets have together no more elements than apart.
LEMMA UnionCount ==
  ASSUME NEW S, NEW T, IsFiniteSet(S), IsFiniteSet(T)
  PROVE  /\ IsFiniteSet(S \cup T)
         /\ Cardinality(S \cup T) <= Cardinality(S) + Cardinality(T)
  <1>1. Cardinality(S) \in Nat /\ Cardinality(T) \in Nat
    BY FS_CardinalityType
  <1>2. IsFiniteSet(S \cap T) /\ Cardinality(S \cap T) \in Nat
    BY FS_Subset, FS_CardinalityType
  <1>3. /\ IsFiniteSet(S \cup T)
        /\ Cardinality(S \cup T) = Cardinality(S) + (Cardinality(T) - Cardinality(S \cap T))
    BY <1>1, <1>2, FS_Union
  <1>4. QED BY <1>1, <1>2, <1>3

\* Parameters' types.
LEMMA Counts ==
  /\ Cardinality(Addresses) \in Nat /\ Cardinality(Clients) \in Nat
  /\ MAX_ROUTES \in Nat \ {0} /\ PipeFrames \in Nat \ {0} /\ MaxWritten \in Nat
  /\ IsFiniteSet(Addresses) /\ IsFiniteSet(Clients)
  /\ 0 \notin Routes /\ 0 \notin Pipes /\ "none" \notin Addresses
  BY SubmixAssumption, FS_CardinalityType DEF Routes, Pipes

\* A route for each number.
LEMMA RouteCount == IsFiniteSet(Routes) /\ Cardinality(Routes) = MAX_ROUTES
  <1>1. 1 \in Int /\ MAX_ROUTES \in Int /\ ~(1 > MAX_ROUTES) /\ MAX_ROUTES - 1 + 1 = MAX_ROUTES
    BY Counts
  <1>2. IsFiniteSet(1..MAX_ROUTES) /\ Cardinality(1..MAX_ROUTES) = MAX_ROUTES - 1 + 1
    BY <1>1, FS_Interval
  <1>3. QED BY <1>1, <1>2 DEF Routes

\* "new MonoPipe" while some handle refers to no pipe: it is an object nobody refers to.
LEMMA FreePipeIsFree ==
  ASSUME TypeOK, (\E a \in Addresses : out[a].sink = 0) \/ (\E c \in Clients : in[c].source = 0)
  PROVE  /\ FreePipe \in Pipes
         /\ \A i \in Routes : routes[i].pipe # FreePipe
         /\ \A a \in Addresses : out[a].sink # FreePipe
         /\ \A c \in Clients : in[c].source # FreePipe
  <1> DEFINE fr == [i \in Routes |-> routes[i].pipe]
             fo == [a \in Addresses |-> out[a].sink]
             fi == [c \in Clients |-> in[c].source]
             R == {fr[i] : i \in Routes}
             W == {fo[a] : a \in Addresses}
             S == {fi[c] : c \in Clients}
             N == MAX_ROUTES + Cardinality(Addresses) + Cardinality(Clients)
  <1>1. IsFiniteSet(Routes) /\ Cardinality(Routes) = MAX_ROUTES
    BY RouteCount
  <1>2. IsFiniteSet(R) /\ Cardinality(R) <= MAX_ROUTES
    <2> HIDE DEF fr
    <2>1. fr = [i \in Routes |-> fr[i]]
      BY DEF fr
    <2>2. QED BY <1>1, <2>1, RangeCount
  <1>3. IsFiniteSet(W) /\ Cardinality(W) <= Cardinality(Addresses)
    <2> HIDE DEF fo
    <2>1. fo = [a \in Addresses |-> fo[a]]
      BY DEF fo
    <2>2. QED BY <2>1, RangeCount, Counts
  <1>4. IsFiniteSet(S) /\ Cardinality(S) <= Cardinality(Clients)
    <2> HIDE DEF fi
    <2>1. fi = [c \in Clients |-> fi[c]]
      BY DEF fi
    <2>2. QED BY <2>1, RangeCount, Counts
  <1>5. 0 \in W \/ 0 \in S
    OBVIOUS
  <1> HIDE DEF R, W, S
  <1>6. IsFiniteSet(R \cup W) /\ Cardinality(R \cup W) <= Cardinality(R) + Cardinality(W)
    BY <1>2, <1>3, UnionCount
  <1>7. /\ IsFiniteSet((R \cup W) \cup S)
        /\ Cardinality((R \cup W) \cup S) <= Cardinality(R \cup W) + Cardinality(S)
    BY <1>4, <1>6, UnionCount
  <1>8. Cardinality((R \cup W) \cup S) <= N
    <2>1. /\ Cardinality(R) \in Nat /\ Cardinality(W) \in Nat /\ Cardinality(S) \in Nat
          /\ Cardinality(R \cup W) \in Nat /\ Cardinality((R \cup W) \cup S) \in Nat
      BY <1>2, <1>3, <1>4, <1>6, <1>7, FS_CardinalityType
    <2>2. QED BY <2>1, <1>2, <1>3, <1>4, <1>6, <1>7, Counts
  <1>9. ~(Pipes \subseteq (R \cup W) \cup S)
    <2> SUFFICES ASSUME Pipes \subseteq (R \cup W) \cup S PROVE FALSE
      OBVIOUS
    <2>1. 0..N \subseteq (R \cup W) \cup S
      BY <1>5, Counts DEF Pipes
    <2>2. Cardinality(0..N) <= Cardinality((R \cup W) \cup S)
      BY <2>1, <1>7, FS_Subset
    <2>3. N \in Nat /\ Cardinality(0..N) = N + 1
      <3>1. N \in Nat BY Counts
      <3>2. QED BY <3>1, FS_Interval
    <2>4. Cardinality((R \cup W) \cup S) \in Nat
      BY <1>7, FS_CardinalityType
    <2> HIDE DEF N
    <2>5. QED BY <1>8, <2>2, <2>3, <2>4
  <1>10. \E p \in Pipes : /\ \A i \in Routes : routes[i].pipe # p
                          /\ \A a \in Addresses : out[a].sink # p
                          /\ \A c \in Clients : in[c].source # p
    <2>1. PICK p \in Pipes : p \notin (R \cup W) \cup S
      BY <1>9
    <2>2. QED BY <2>1 DEF R, W, S
  <1>11. QED BY <1>10 DEF FreePipe

-----------------------------------------------------------------------------
(* Opening a stream. *)

\* The route that is found has the address, or no route has it.
LEMMA RouteForFacts ==
  ASSUME NEW a, NEW i \in RouteFor(a)
  PROVE  /\ i \in Routes
         /\ \/ routes[i].address = a
            \/ routes[i].address = "none" /\ \A j \in Routes : routes[j].address # a
  BY DEF RouteFor

\* The route keeps its streams, takes the address, and has the pipe it had or a new one.
LEMMA WithPipeFacts ==
  ASSUME NEW r \in RouteConfig, NEW release \in BOOLEAN, NEW a \in Addresses, NEW rate \in Rates,
         FreePipe \in Pipes
  PROVE  LET w == WithPipe(r, release, a, rate)
         IN  /\ w \in RouteConfig
             /\ w.address = a /\ w.output = r.output /\ w.refs = r.refs
             /\ w.pipe = IF release \/ r.pipe = 0 THEN FreePipe ELSE r.pipe
  BY DEF WithPipe, RouteConfig

\* An output's route is new to it, so that no other output is disturbed.
LEMMA OpenOutputPreserves ==
  ASSUME IInv, NEW a \in Addresses, NEW rate \in Rates, OpenOutput(a, rate)
  PROVE  IInv'
  <1> DEFINE release(i) == Shutdown(i) \/ routes[i].rate # rate
  <1>1. PICK i \in RouteFor(a) :
          /\ MayOpenOutput(i, rate)
          /\ routes' = [routes EXCEPT ![i] =
               [WithPipe(routes[i], release(i), a, rate) EXCEPT !.output = TRUE]]
          /\ pipes' = IF routes'[i].pipe = routes[i].pipe THEN pipes
                      ELSE [pipes EXCEPT ![FreePipe] = NewPipe]
          /\ out' = [out EXCEPT ![a] = [NoOut EXCEPT !.pc = "open", !.route = i]]
    BY DEF OpenOutput
  <1>2. /\ out[a].pc = "closed" /\ out[a].sink = 0 /\ UNCHANGED <<in, exited>>
        /\ ~routes[i].output
    BY <1>1 DEF OpenOutput, IInv, HandleInv, MayOpenOutput
  <1>3. /\ FreePipe \in Pipes /\ \A j \in Routes : routes[j].pipe # FreePipe
        /\ \A b \in Addresses : out[b].sink # FreePipe
        /\ \A c \in Clients : in[c].source # FreePipe
    BY <1>2, FreePipeIsFree DEF IInv
  <1>4. /\ i \in Routes
        /\ \/ routes[i].address = a
           \/ routes[i].address = "none" /\ \A j \in Routes : routes[j].address # a
    BY RouteForFacts
  <1>5. /\ routes'[i] \in RouteConfig
        /\ routes'[i].address = a /\ routes'[i].output = TRUE /\ routes'[i].refs = routes[i].refs
        /\ routes'[i].pipe = IF release(i) \/ routes[i].pipe = 0 THEN FreePipe ELSE routes[i].pipe
    <2> DEFINE w == WithPipe(routes[i], release(i), a, rate)
    <2>1. routes[i] \in RouteConfig /\ release(i) \in BOOLEAN
      BY <1>4 DEF IInv, TypeOK, Shutdown
    <2> HIDE DEF release
    <2>2. /\ w \in RouteConfig
          /\ w.address = a /\ w.output = routes[i].output /\ w.refs = routes[i].refs
          /\ w.pipe = IF release(i) \/ routes[i].pipe = 0 THEN FreePipe ELSE routes[i].pipe
      BY <1>3, <2>1, WithPipeFacts
    <2>3. routes'[i] = [w EXCEPT !.output = TRUE]
      BY <1>1, <1>4 DEF IInv, TypeOK
    <2> HIDE DEF w
    <2>4. QED BY <2>2, <2>3 DEF RouteConfig
  <1>6. /\ \A j \in Routes \ {i} : routes'[j] = routes[j]
        /\ routes' \in [Routes -> RouteConfig]
    BY <1>1, <1>4, <1>5 DEF IInv, TypeOK
  <1>7. /\ \A b \in Addresses \ {a} : out'[b] = out[b]
        /\ out'[a].pc = "open" /\ out'[a].route = i /\ out'[a].sink = 0
        /\ out' \in [Addresses -> OutStream]
    <2>1. [NoOut EXCEPT !.pc = "open", !.route = i] \in OutStream
      <3>1. NoOut \in OutStream
        BY Counts DEF NoOut, OutStream
      <3>2. QED BY <1>4, <3>1 DEF OutStream
    <2>2. /\ [NoOut EXCEPT !.pc = "open", !.route = i].pc = "open"
          /\ [NoOut EXCEPT !.pc = "open", !.route = i].route = i
          /\ [NoOut EXCEPT !.pc = "open", !.route = i].sink = 0
      BY DEF NoOut
    <2>3. QED BY <1>1, <2>1, <2>2 DEF IInv, TypeOK
  <1>8. \A b \in Addresses : out[b].pc # "closed" => out[b].route \in Routes \ {i} /\ b # a
    BY <1>2, <1>4 DEF IInv, TypeOK, OutStream, HandleInv, RoutesFollowStreams
  <1>9. /\ pipes' \in [Pipes -> [frames : 0..PipeFrames, shutdown : BOOLEAN]]
        /\ \A p \in Pipes \ {FreePipe} : pipes'[p] = pipes[p]
        /\ routes'[i].pipe # FreePipe =>
             pipes' = pipes /\ ~Shutdown(i) /\ routes'[i].pipe = routes[i].pipe
        /\ routes'[i].pipe = FreePipe => ~pipes'[FreePipe].shutdown
    <2> USE DEF IInv, TypeOK
    <2>1. NewPipe \in [frames : 0..PipeFrames, shutdown : BOOLEAN] /\ ~NewPipe.shutdown
      BY Counts DEF NewPipe
    <2>2. QED BY <1>1, <1>3, <1>4, <1>5, <2>1
  <1>10. routes'[i].pipe \in Pipes /\ \A j \in Routes \ {i} : routes'[i].pipe # routes'[j].pipe
    <2>1. routes'[i].pipe # 0
      BY <1>3, <1>5, Counts
    <2>2. \A j \in Routes \ {i} : routes[j].pipe = routes[i].pipe => routes[i].pipe = 0
      BY <1>4 DEF IInv, StreamHasPipe, RoutesFollowStreams
    <2>3. QED BY <1>3, <1>5, <1>6, <2>1, <2>2 DEF RouteConfig
  <1> HIDE DEF release
  <1>11. TypeOK'
    BY <1>2, <1>6, <1>7, <1>9 DEF IInv, TypeOK
  <1>12. HandleInv'
    BY <1>2, <1>4, <1>7, Counts DEF IInv, HandleInv
  <1>13. SinkInv'
    <2> SUFFICES ASSUME NEW b \in Addresses, out'[b].pc = "write"
                 PROVE  \/ out'[b].sink = routes'[out'[b].route].pipe
                        \/ /\ pipes'[out'[b].sink].shutdown
                           /\ \A j \in Routes : routes'[j].pipe # out'[b].sink
      BY DEF SinkInv
    <2>1. /\ out'[b] = out[b] /\ out[b].route \in Routes \ {i}
          /\ out[b].sink \in Pipes \ {FreePipe}
      BY <1>3, <1>7, <1>8 DEF IInv, HandleInv, TypeOK, OutStream
    <2>2. QED BY <1>4, <1>5, <1>6, <1>9, <1>10, <2>1, Counts DEF IInv, SinkInv
  <1>14. StreamHasPipe'
    BY <1>4, <1>5, <1>6, <1>10, Counts DEF IInv, StreamHasPipe, RoutesFollowStreams, Input
  <1>15. RoutesFollowStreams'
    <2>1. \A j \in Routes : ~routes'[j].output /\ ~Input(j)' =>
            routes'[j].address = "none" /\ routes'[j].pipe = 0
      BY <1>5, <1>6 DEF IInv, RoutesFollowStreams, Input
    <2>2. \A b \in Addresses : out'[b].pc # "closed" =>
            routes'[out'[b].route].output /\ routes'[out'[b].route].address = b
      BY <1>5, <1>6, <1>7, <1>8 DEF IInv, RoutesFollowStreams
    <2>3. \A j, k \in Routes : j # k /\ routes'[j].address = routes'[k].address =>
            routes'[j].address = "none"
      BY <1>4, <1>5, <1>6, Counts DEF IInv, RoutesFollowStreams
    <2>4. QED BY <2>1, <2>2, <2>3 DEF RoutesFollowStreams
  <1>16. InputCounted'
    BY <1>2, <1>5, <1>6 DEF IInv, InputCounted
  <1>17. WriteWaitsForInput'
    <2> SUFFICES ASSUME NEW b \in Addresses, out'[b].pc = "write",
                        pipes'[out'[b].sink].frames = PipeFrames
                 PROVE  pipes'[out'[b].sink].shutdown \/ routes'[out'[b].route].refs > 0
      BY DEF WriteWaitsForInput, Input
    <2>1. /\ out'[b] = out[b] /\ out[b].route \in Routes \ {i}
          /\ out[b].sink \in Pipes \ {FreePipe}
      BY <1>3, <1>7, <1>8 DEF IInv, HandleInv, TypeOK, OutStream
    <2>2. QED BY <1>6, <1>9, <2>1 DEF IInv, WriteWaitsForInput, Input
  <1>18. OpenInputHears'
    <2> SUFFICES ASSUME NEW j \in Routes \ exited, Input(j)', Shutdown(j)'
                 PROVE  FALSE
      BY <1>2 DEF OpenInputHears
    <2>1. Input(j)
      BY <1>5, <1>6 DEF Input
    <2>2. CASE j = i
      BY <1>5, <1>9, <2>2 DEF Shutdown
    <2>3. CASE j # i
      <3>1. routes'[j].pipe \in Pipes \ {FreePipe} /\ routes'[j].pipe = routes[j].pipe
        BY <1>3, <1>6, <2>3, <2>1 DEF IInv, StreamHasPipe, TypeOK, RouteConfig
      <3>2. QED BY <1>9, <2>1, <3>1 DEF IInv, OpenInputHears, Shutdown
    <2>4. QED BY <2>2, <2>3
  <1>19. QED BY <1>11, <1>12, <1>13, <1>14, <1>15, <1>16, <1>17, <1>18 DEF IInv

\* Clients with a handle on route i.
LEMMA UserCount ==
  ASSUME NEW i
  PROVE  LET Users == {c \in Clients : in[c].pc # "closed" /\ in[c].route = i}
         IN  IsFiniteSet(Users) /\ Cardinality(Users) \in 0..Cardinality(Clients)
  <1> DEFINE Users == {c \in Clients : in[c].pc # "closed" /\ in[c].route = i}
  <1>1. IsFiniteSet(Users) /\ Cardinality(Users) <= Cardinality(Clients)
    <2>1. Users \in SUBSET Clients
      OBVIOUS
    <2> HIDE DEF Users
    <2>2. QED BY <2>1, Counts, FS_Subset
  <1>2. QED BY <1>1, Counts, FS_CardinalityType

\* An input is one more reference to its route; a pipe that is shut down is not handed to it.
LEMMA OpenInputPreserves ==
  ASSUME IInv, NEW c \in Clients, NEW a \in Addresses, NEW rate \in Rates, NEW mono \in BOOLEAN,
         OpenInput(c, a, rate, mono)
  PROVE  IInv'
  <1> DEFINE release(i) == Input(i) /\ Shutdown(i)
  <1>1. PICK i \in RouteFor(a) :
          /\ routes' = [routes EXCEPT ![i] =
               [WithPipe(routes[i], release(i), a, rate) EXCEPT !.refs = @ + 1, !.mono = mono]]
          /\ pipes' = [pipes EXCEPT ![routes'[i].pipe] =
                         IF routes'[i].pipe = routes[i].pipe THEN [@ EXCEPT !.shutdown = FALSE]
                         ELSE NewPipe]
          /\ in' = [in EXCEPT ![c] = [NoIn EXCEPT !.pc = "open", !.route = i]]
          /\ exited' = exited \ {i}
    BY DEF OpenInput
  <1>2. in[c].pc = "closed" /\ in[c].source = 0 /\ UNCHANGED out
    BY DEF OpenInput, IInv, HandleInv
  <1>3. /\ FreePipe \in Pipes /\ \A j \in Routes : routes[j].pipe # FreePipe
        /\ \A b \in Addresses : out[b].sink # FreePipe
    BY <1>2, FreePipeIsFree DEF IInv
  <1>4. /\ i \in Routes
        /\ \/ routes[i].address = a
           \/ routes[i].address = "none" /\ \A j \in Routes : routes[j].address # a
    BY RouteForFacts
  <1>5. /\ in'[c].pc = "open" /\ in'[c].route = i /\ in'[c].source = 0
        /\ \A d \in Clients \ {c} : in'[d] = in[d]
        /\ in' \in [Clients -> InStream]
    BY <1>1, <1>4 DEF IInv, TypeOK, InStream, NoIn
  <1>6. /\ \A j \in Routes \ {i} : {d \in Clients : in'[d].pc # "closed" /\ in'[d].route = j} =
                                   {d \in Clients : in[d].pc # "closed" /\ in[d].route = j}
        /\ {d \in Clients : in'[d].pc # "closed" /\ in'[d].route = i} =
             {d \in Clients : in[d].pc # "closed" /\ in[d].route = i} \cup {c}
        /\ c \notin {d \in Clients : in[d].pc # "closed" /\ in[d].route = i}
    BY <1>2, <1>5
  <1>7. /\ Cardinality({d \in Clients : in'[d].pc # "closed" /\ in'[d].route = i}) =
             routes[i].refs + 1
        /\ routes[i].refs + 1 \in 1..Cardinality(Clients)
    <2> DEFINE Users == {d \in Clients : in[d].pc # "closed" /\ in[d].route = i}
               UsersAfter == {d \in Clients : in'[d].pc # "closed" /\ in'[d].route = i}
    <2>1. IsFiniteSet(Users) /\ Cardinality(Users) \in Nat
      BY UserCount
    <2>2. UsersAfter \in SUBSET Clients /\ UsersAfter = Users \cup {c} /\ c \notin Users
      BY <1>6
    <2>3. routes[i].refs = Cardinality(Users)
      BY <1>4 DEF IInv, InputCounted
    <2> HIDE DEF Users, UsersAfter
    <2>4. Cardinality(UsersAfter) = Cardinality(Users) + 1
      BY <2>1, <2>2, FS_AddElement
    <2>5. Cardinality(UsersAfter) <= Cardinality(Clients)
      BY <2>2, Counts, FS_Subset
    <2>6. routes[i].refs + 1 = Cardinality(UsersAfter)
      BY <2>3, <2>4
    <2>7. QED BY <2>1, <2>3, <2>4, <2>5, <2>6, Counts DEF UsersAfter
  <1>8. /\ routes'[i] \in RouteConfig
        /\ routes'[i].address = a /\ routes'[i].output = routes[i].output
        /\ routes'[i].refs = routes[i].refs + 1
        /\ routes'[i].pipe = IF release(i) \/ routes[i].pipe = 0 THEN FreePipe ELSE routes[i].pipe
    <2> DEFINE w == WithPipe(routes[i], release(i), a, rate)
    <2>1. routes[i] \in RouteConfig /\ release(i) \in BOOLEAN
      BY <1>4 DEF IInv, TypeOK, Shutdown
    <2> HIDE DEF release
    <2>2. /\ w \in RouteConfig
          /\ w.address = a /\ w.output = routes[i].output /\ w.refs = routes[i].refs
          /\ w.pipe = IF release(i) \/ routes[i].pipe = 0 THEN FreePipe ELSE routes[i].pipe
      BY <1>3, <2>1, WithPipeFacts
    <2>3. routes'[i] = [w EXCEPT !.refs = @ + 1, !.mono = mono]
      BY <1>1, <1>4 DEF IInv, TypeOK
    <2>4. routes[i].refs + 1 \in 0..Cardinality(Clients)
      BY <1>7, Counts
    <2> HIDE DEF w
    <2>5. routes'[i] = [address |-> w.address, pipe |-> w.pipe, rate |-> w.rate,
                        mono |-> mono, output |-> w.output, refs |-> w.refs + 1]
      BY <2>2, <2>3 DEF RouteConfig
    <2>6. QED BY <2>2, <2>4, <2>5 DEF RouteConfig
  <1>9. /\ \A j \in Routes \ {i} : routes'[j] = routes[j]
        /\ routes' \in [Routes -> RouteConfig]
    BY <1>1, <1>4, <1>8 DEF IInv, TypeOK
  <1>10. routes'[i].pipe \in Pipes /\ \A j \in Routes \ {i} : routes'[i].pipe # routes'[j].pipe
    <2>1. routes'[i].pipe # 0
      BY <1>3, <1>8, Counts
    <2>2. \A j \in Routes \ {i} : routes[j].pipe = routes[i].pipe => routes[i].pipe = 0
      BY <1>4 DEF IInv, StreamHasPipe, RoutesFollowStreams
    <2>3. QED BY <1>3, <1>8, <1>9, <2>1, <2>2 DEF RouteConfig
  <1>11. /\ pipes' \in [Pipes -> [frames : 0..PipeFrames, shutdown : BOOLEAN]]
         /\ \A p \in Pipes \ {routes'[i].pipe} : pipes'[p] = pipes[p]
         /\ ~pipes'[routes'[i].pipe].shutdown
    <2>1. NewPipe \in [frames : 0..PipeFrames, shutdown : BOOLEAN] /\ ~NewPipe.shutdown
      BY Counts DEF NewPipe
    <2>2. \A r \in [frames : 0..PipeFrames, shutdown : BOOLEAN] :
            /\ [r EXCEPT !.shutdown = FALSE] \in [frames : 0..PipeFrames, shutdown : BOOLEAN]
            /\ ~[r EXCEPT !.shutdown = FALSE].shutdown
      OBVIOUS
    <2>3. QED BY <1>1, <1>10, <2>1, <2>2 DEF IInv, TypeOK
  <1> HIDE DEF release
  <1>12. TypeOK'
    BY <1>1, <1>2, <1>5, <1>9, <1>11 DEF IInv, TypeOK
  <1>13. HandleInv'
    BY <1>2, <1>4, <1>5, Counts DEF IInv, HandleInv
  <1>14. \A b \in Addresses : out[b].pc = "write" =>
           /\ out[b].route \in Routes /\ out[b].sink \in Pipes /\ routes[out[b].route].output
           /\ out[b].sink = routes'[i].pipe => out[b].route = i /\ routes'[i].pipe = routes[i].pipe
    <2> TAKE b \in Addresses
    <2> HAVE out[b].pc = "write"
    <2>1. /\ out[b].route \in Routes /\ out[b].sink \in Pipes /\ routes[out[b].route].output
      BY DEF IInv, HandleInv, TypeOK, OutStream, RoutesFollowStreams
    <2>2. out[b].sink = routes'[i].pipe => routes'[i].pipe = routes[i].pipe
      BY <1>3, <1>8
    <2>3. out[b].sink = routes[i].pipe => out[b].route = i
      BY <1>4, <2>1 DEF IInv, SinkInv, StreamHasPipe
    <2>4. QED BY <2>1, <2>2, <2>3
  <1>15. SinkInv'
    <2> SUFFICES ASSUME NEW b \in Addresses, out[b].pc = "write"
                 PROVE  \/ out[b].sink = routes'[out[b].route].pipe
                        \/ /\ pipes'[out[b].sink].shutdown
                           /\ \A j \in Routes : routes'[j].pipe # out[b].sink
      BY <1>2 DEF SinkInv
    <2>1. CASE out[b].sink = routes'[i].pipe
      BY <1>14, <2>1
    <2>2. CASE out[b].sink # routes'[i].pipe
      <3>1. pipes'[out[b].sink] = pipes[out[b].sink]
        BY <1>11, <1>14, <2>2
      <3>2. CASE out[b].sink = routes[out[b].route].pipe /\ out[b].route # i
        BY <1>9, <1>14, <3>2
      <3>3. CASE out[b].sink = routes[out[b].route].pipe /\ out[b].route = i
        <4>1. Shutdown(i) /\ routes'[i].pipe = FreePipe
          BY <1>8, <1>14, <2>2, <3>3, Counts DEF release
        <4>2. \A j \in Routes \ {i} : routes[j].pipe # out[b].sink
          BY <1>4, <1>14, <3>3 DEF IInv, StreamHasPipe
        <4>3. QED BY <1>9, <2>2, <3>1, <3>3, <4>1, <4>2 DEF Shutdown
      <3>4. CASE pipes[out[b].sink].shutdown /\ \A j \in Routes : routes[j].pipe # out[b].sink
        BY <1>9, <2>2, <3>1, <3>4
      <3>5. QED BY <3>2, <3>3, <3>4 DEF IInv, SinkInv
    <2>3. QED BY <2>1, <2>2
  <1>16. StreamHasPipe'
    BY <1>4, <1>8, <1>9, <1>10, Counts DEF IInv, StreamHasPipe, RoutesFollowStreams, Input
  <1>17. RoutesFollowStreams'
    <2>1. routes'[i].refs > 0
      BY <1>7, <1>8, Counts
    <2>2. \A j \in Routes : ~routes'[j].output /\ ~Input(j)' =>
            routes'[j].address = "none" /\ routes'[j].pipe = 0
      BY <1>9, <2>1 DEF IInv, RoutesFollowStreams, Input
    <2>3. \A b \in Addresses : out[b].pc # "closed" =>
            routes'[out[b].route].output /\ routes'[out[b].route].address = b
      <3> TAKE b \in Addresses
      <3> HAVE out[b].pc # "closed"
      <3>1. /\ out[b].route \in Routes /\ routes[out[b].route].output
            /\ routes[out[b].route].address = b
        BY DEF IInv, HandleInv, TypeOK, OutStream, RoutesFollowStreams
      <3>2. QED BY <1>4, <1>8, <1>9, <3>1, Counts
    <2>4. \A j, k \in Routes : j # k /\ routes'[j].address = routes'[k].address =>
            routes'[j].address = "none"
      BY <1>4, <1>8, <1>9, Counts DEF IInv, RoutesFollowStreams
    <2>5. QED BY <1>2, <2>2, <2>3, <2>4 DEF RoutesFollowStreams
  <1>18. InputCounted'
    <2>1. routes'[i].refs = Cardinality({d \in Clients : in'[d].pc # "closed" /\ in'[d].route = i})
      BY <1>7, <1>8
    <2>2. \A j \in Routes \ {i} :
            routes'[j].refs = Cardinality({d \in Clients : in'[d].pc # "closed" /\ in'[d].route = j})
      BY <1>6, <1>9 DEF IInv, InputCounted
    <2>3. QED BY <2>1, <2>2 DEF InputCounted
  <1>19. WriteWaitsForInput'
    <2> SUFFICES ASSUME NEW b \in Addresses, out[b].pc = "write",
                        pipes'[out[b].sink].frames = PipeFrames
                 PROVE  pipes'[out[b].sink].shutdown \/ routes'[out[b].route].refs > 0
      BY <1>2 DEF WriteWaitsForInput, Input
    <2>1. CASE out[b].route = i
      BY <1>7, <1>8, <2>1, Counts
    <2>2. CASE out[b].route # i
      <3>1. pipes'[out[b].sink] = pipes[out[b].sink]
        BY <1>11, <1>14, <2>2
      <3>2. routes'[out[b].route] = routes[out[b].route]
        BY <1>9, <1>14, <2>2
      <3>3. QED BY <3>1, <3>2 DEF IInv, WriteWaitsForInput, Input
    <2>3. QED BY <2>1, <2>2
  <1>20. OpenInputHears'
    <2> SUFFICES ASSUME NEW j \in Routes \ exited', Input(j)', Shutdown(j)'
                 PROVE  FALSE
      BY DEF OpenInputHears
    <2>1. CASE j = i
      BY <1>11, <2>1 DEF Shutdown
    <2>2. CASE j # i
      <3>1. /\ Input(j) /\ j \notin exited
            /\ routes'[j].pipe \in Pipes /\ routes'[j].pipe = routes[j].pipe
        BY <1>1, <1>9, <2>2 DEF Input, IInv, StreamHasPipe, TypeOK, RouteConfig
      <3>2. routes'[j].pipe # routes'[i].pipe
        BY <1>10, <2>2
      <3>3. QED BY <1>11, <3>1, <3>2 DEF IInv, OpenInputHears, Shutdown
    <2>3. QED BY <2>1, <2>2
  <1>21. QED BY <1>12, <1>13, <1>15, <1>16, <1>17, <1>18, <1>19, <1>20 DEF IInv

-----------------------------------------------------------------------------
(* Closing a stream. *)

\* A route is released with its last stream and left alone before.
LEMMA ReleasedFacts ==
  ASSUME NEW r \in RouteConfig
  PROVE  LET s == Released(r)
         IN  /\ s \in RouteConfig /\ s.output = r.output /\ s.refs = r.refs
             /\ ~r.output /\ r.refs = 0 => s.address = "none" /\ s.pipe = 0
             /\ r.output \/ r.refs # 0 => s = r
  <1>1. NoRoute \in RouteConfig
    BY Counts DEF NoRoute, RouteConfig
  <1>2. QED BY <1>1 DEF Released, NoRoute, RouteConfig

\* An open output's route is nobody else's.
LEMMA WriterFacts ==
  ASSUME IInv, NEW a \in Addresses, out[a].pc # "closed"
  PROVE  /\ out[a].route \in Routes /\ routes[out[a].route].output
         /\ routes[out[a].route].pipe \in Pipes
         /\ out[a].pc = "write" => out[a].sink \in Pipes
         /\ \A b \in Addresses \ {a} : out[b].pc # "closed" =>
              /\ out[b].route # out[a].route
              /\ routes[out[b].route].pipe # routes[out[a].route].pipe
  <1>1. /\ out[a].route \in Routes /\ routes[out[a].route].output
        /\ routes[out[a].route].address = a
        /\ out[a].pc = "write" => out[a].sink \in Pipes
    BY DEF IInv, HandleInv, TypeOK, OutStream, RoutesFollowStreams
  <1>2. routes[out[a].route].pipe \in Pipes
    BY <1>1 DEF IInv, StreamHasPipe, TypeOK, RouteConfig
  <1>3. \A b \in Addresses \ {a} : out[b].pc # "closed" =>
          out[b].route \in Routes /\ routes[out[b].route].address = b
    BY DEF IInv, HandleInv, TypeOK, OutStream, RoutesFollowStreams
  <1>4. QED BY <1>1, <1>2, <1>3 DEF IInv, StreamHasPipe

\* An output gives up its route, which an open input keeps.
LEMMA CloseOutputPreserves ==
  ASSUME IInv, NEW a \in Addresses, CloseOutput(a)
  PROVE  IInv'
  <1> DEFINE i == out[a].route
             r == [routes[i] EXCEPT !.output = FALSE]
  <1>1. /\ out[a].pc = "open" /\ UNCHANGED <<pipes, in, exited>>
        /\ i \in Routes /\ routes' = [routes EXCEPT ![i] = Released(r)]
        /\ out' = [out EXCEPT ![a] = NoOut]
    BY WriterFacts DEF CloseOutput
  <1>2. /\ r \in RouteConfig /\ ~r.output /\ r.refs = routes[i].refs
        /\ r.address = routes[i].address /\ r.pipe = routes[i].pipe
    <2>1. routes[i] \in RouteConfig
      BY <1>1 DEF IInv, TypeOK
    <2>2. QED BY <2>1 DEF RouteConfig
  <1>3. /\ routes'[i] \in RouteConfig /\ ~routes'[i].output /\ routes'[i].refs = routes[i].refs
        /\ routes[i].refs = 0 => routes'[i].address = "none" /\ routes'[i].pipe = 0
        /\ routes[i].refs # 0 =>
             routes'[i].address = routes[i].address /\ routes'[i].pipe = routes[i].pipe
    <2>1. routes'[i] = Released(r)
      BY <1>1 DEF IInv, TypeOK
    <2> HIDE DEF r
    <2>2. QED BY <1>2, <2>1, ReleasedFacts
  <1>4. /\ \A j \in Routes \ {i} : routes'[j] = routes[j]
        /\ routes' \in [Routes -> RouteConfig]
    BY <1>1, <1>3 DEF IInv, TypeOK
  <1>5. /\ \A b \in Addresses \ {a} : out'[b] = out[b]
        /\ out'[a].pc = "closed" /\ out'[a].sink = 0
        /\ out' \in [Addresses -> OutStream]
    <2>1. NoOut \in OutStream /\ NoOut.pc = "closed" /\ NoOut.sink = 0
      BY Counts DEF NoOut, OutStream
    <2>2. QED BY <1>1, <2>1 DEF IInv, TypeOK
  <1>6. \A b \in Addresses : out'[b].pc # "closed" =>
          out'[b] = out[b] /\ out[b].route \in Routes \ {i} /\ out[b].pc # "closed"
            /\ (out[b].pc = "write" => out[b].sink \in Pipes)
    BY <1>1, <1>5, WriterFacts
  <1>7. \A j \in Routes : routes'[j].pipe \in {0, routes[j].pipe}
    BY <1>3, <1>4
  <1> HIDE DEF i, r
  <1>8. TypeOK'
    BY <1>1, <1>4, <1>5 DEF IInv, TypeOK
  <1>9. HandleInv'
    BY <1>1, <1>5 DEF IInv, HandleInv
  <1>10. SinkInv'
    BY <1>1, <1>4, <1>6, <1>7, Counts DEF IInv, SinkInv
  <1>11. StreamHasPipe'
    <2> SUFFICES ASSUME NEW j \in Routes, routes'[j].output \/ routes'[j].refs > 0
                 PROVE  /\ routes'[j].pipe # 0
                        /\ \A k \in Routes \ {j} : routes'[k].pipe # routes'[j].pipe
      BY DEF StreamHasPipe, Input
    <2>1. /\ routes'[j].pipe = routes[j].pipe /\ (routes[j].output \/ routes[j].refs > 0)
      BY <1>3, <1>4
    <2>2. QED BY <1>7, <2>1 DEF IInv, StreamHasPipe, Input
  <1>12. RoutesFollowStreams'
    <2>1. routes[i].refs \in Nat /\ i \in Routes
      BY <1>1, Counts DEF IInv, TypeOK, RouteConfig
    <2>2. \A j \in Routes : ~routes'[j].output /\ ~Input(j)' =>
            routes'[j].address = "none" /\ routes'[j].pipe = 0
      BY <1>3, <1>4, <2>1 DEF IInv, RoutesFollowStreams, Input
    <2>3. \A b \in Addresses : out'[b].pc # "closed" =>
            routes'[out'[b].route].output /\ routes'[out'[b].route].address = b
      BY <1>4, <1>6 DEF IInv, RoutesFollowStreams
    <2>4. \A j \in Routes : routes'[j].address \in {"none", routes[j].address}
      BY <1>3, <1>4
    <2>5. \A j, k \in Routes : j # k /\ routes'[j].address = routes'[k].address =>
            routes'[j].address = "none"
      BY <2>4 DEF IInv, RoutesFollowStreams
    <2>6. QED BY <2>2, <2>3, <2>5 DEF RoutesFollowStreams
  <1>13. InputCounted'
    BY <1>1, <1>3, <1>4 DEF IInv, InputCounted
  <1>14. WriteWaitsForInput'
    BY <1>1, <1>4, <1>6 DEF IInv, WriteWaitsForInput, Input
  <1>15. OpenInputHears'
    <2> SUFFICES ASSUME NEW j \in Routes \ exited, routes'[j].refs > 0
                 PROVE  ~(routes'[j].pipe # 0 /\ pipes[routes'[j].pipe].shutdown)
      BY <1>1 DEF OpenInputHears, Input, Shutdown
    <2>1. routes'[j].pipe = routes[j].pipe /\ routes[j].refs > 0
      BY <1>3, <1>4
    <2>2. QED BY <2>1 DEF IInv, OpenInputHears, Input, Shutdown
  <1>16. QED BY <1>8, <1>9, <1>10, <1>11, <1>12, <1>13, <1>14, <1>15 DEF IInv

\* The last client shuts the pipe down, which lets a waiting writer go.
LEMMA CloseInputPreserves ==
  ASSUME IInv, NEW c \in Clients, CloseInput(c)
  PROVE  IInv'
  <1> DEFINE i == in[c].route
             r == [routes[i] EXCEPT !.refs = @ - 1]
             q == routes[i].pipe
             Users == {d \in Clients : in[d].pc # "closed" /\ in[d].route = i}
             UsersAfter == {d \in Clients : in'[d].pc # "closed" /\ in'[d].route = i}
  <1>1. /\ in[c].pc = "open" /\ UNCHANGED <<out, exited>> /\ i \in Routes
        /\ routes' = [routes EXCEPT ![i] = Released(r)]
        /\ pipes' = IF routes[i].refs = 1 /\ q # 0 THEN [pipes EXCEPT ![q].shutdown = TRUE]
                    ELSE pipes
        /\ in' = [in EXCEPT ![c] = NoIn]
    BY DEF CloseInput, SetShutdown, IInv, HandleInv, TypeOK, InStream
  <1>2. /\ \A d \in Clients \ {c} : in'[d] = in[d]
        /\ in'[c].pc = "closed" /\ in'[c].source = 0
        /\ in' \in [Clients -> InStream]
    BY <1>1 DEF IInv, TypeOK, InStream, NoIn
  <1>3. /\ \A j \in Routes \ {i} : {d \in Clients : in'[d].pc # "closed" /\ in'[d].route = j} =
                                   {d \in Clients : in[d].pc # "closed" /\ in[d].route = j}
        /\ UsersAfter = Users \ {c} /\ c \in Users
    BY <1>1, <1>2
  <1>4. /\ routes[i].refs - 1 = Cardinality(UsersAfter)
        /\ routes[i].refs - 1 \in 0..Cardinality(Clients)
        /\ routes[i].refs \in Nat
    <2>1. IsFiniteSet(Users) /\ Cardinality(Users) \in 0..Cardinality(Clients)
      BY UserCount
    <2>2. routes[i].refs = Cardinality(Users)
      BY <1>1 DEF IInv, InputCounted
    <2>3. IsFiniteSet(UsersAfter) /\ Cardinality(UsersAfter) = Cardinality(Users) - 1
      <3> HIDE DEF Users, UsersAfter
      <3>1. QED BY <1>3, <2>1, FS_RemoveElement
    <2>4. Cardinality(UsersAfter) \in Nat
      <3> HIDE DEF Users, UsersAfter
      <3>1. QED BY <2>3, FS_CardinalityType
    <2> HIDE DEF Users, UsersAfter
    <2>5. QED BY <2>1, <2>2, <2>3, <2>4, Counts
  <1>5. /\ r \in RouteConfig /\ r.output = routes[i].output /\ r.refs = routes[i].refs - 1
        /\ r.address = routes[i].address /\ r.pipe = q
    <2>1. routes[i] \in RouteConfig
      BY <1>1 DEF IInv, TypeOK
    <2>2. QED BY <1>4, <2>1 DEF RouteConfig
  <1>6. /\ routes'[i] \in RouteConfig /\ routes'[i].output = routes[i].output
        /\ routes'[i].refs = routes[i].refs - 1
        /\ ~routes[i].output /\ routes[i].refs - 1 = 0 =>
             routes'[i].address = "none" /\ routes'[i].pipe = 0
        /\ routes[i].output \/ routes[i].refs - 1 # 0 =>
             routes'[i].address = routes[i].address /\ routes'[i].pipe = q
    <2>1. routes'[i] = Released(r)
      BY <1>1 DEF IInv, TypeOK
    <2> HIDE DEF r
    <2>2. QED BY <1>5, <2>1, ReleasedFacts
  <1>7. /\ \A j \in Routes \ {i} : routes'[j] = routes[j]
        /\ routes' \in [Routes -> RouteConfig]
        /\ \A j \in Routes : routes'[j].pipe \in {0, routes[j].pipe}
    BY <1>1, <1>6 DEF IInv, TypeOK
  <1>8. q \in Pipes /\ \A j \in Routes \ {i} : routes[j].pipe # q
    <2>1. routes[i].refs > 0
      BY <1>4, Counts
    <2>2. QED BY <1>1, <2>1 DEF IInv, StreamHasPipe, Input, TypeOK, RouteConfig
  <1>9. /\ pipes' \in [Pipes -> [frames : 0..PipeFrames, shutdown : BOOLEAN]]
        /\ \A p \in Pipes : /\ pipes'[p].frames = pipes[p].frames
                            /\ pipes[p].shutdown => pipes'[p].shutdown
                            /\ p # q => pipes'[p] = pipes[p]
        /\ routes[i].refs = 1 => pipes'[q].shutdown
        /\ routes[i].refs # 1 => pipes' = pipes
    BY <1>1, <1>8, Counts DEF IInv, TypeOK
  <1> HIDE DEF i, r, q, Users
  <1>10. TypeOK'
    BY <1>1, <1>2, <1>7, <1>9 DEF IInv, TypeOK
  <1>11. HandleInv'
    BY <1>1, <1>2 DEF IInv, HandleInv
  <1>12. \A b \in Addresses : out[b].pc # "closed" =>
           /\ out[b].route \in Routes /\ routes[out[b].route].output
           /\ out[b].pc = "write" => out[b].sink \in Pipes
           /\ routes'[out[b].route].output
           /\ routes'[out[b].route].address = routes[out[b].route].address
           /\ routes'[out[b].route].pipe = routes[out[b].route].pipe
    BY <1>6, <1>7, WriterFacts DEF q
  <1>13. SinkInv'
    <2> SUFFICES ASSUME NEW b \in Addresses, out[b].pc = "write"
                 PROVE  \/ out[b].sink = routes'[out[b].route].pipe
                        \/ /\ pipes'[out[b].sink].shutdown
                           /\ \A j \in Routes : routes'[j].pipe # out[b].sink
      BY <1>1 DEF SinkInv
    <2>1. CASE out[b].sink = routes[out[b].route].pipe
      BY <1>12, <2>1
    <2>2. CASE pipes[out[b].sink].shutdown /\ \A j \in Routes : routes[j].pipe # out[b].sink
      BY <1>7, <1>9, <1>12, <2>2, Counts
    <2>3. QED BY <2>1, <2>2 DEF IInv, SinkInv
  <1>14. StreamHasPipe'
    <2> SUFFICES ASSUME NEW j \in Routes, routes'[j].output \/ routes'[j].refs > 0
                 PROVE  /\ routes'[j].pipe # 0
                        /\ \A k \in Routes \ {j} : routes'[k].pipe # routes'[j].pipe
      BY DEF StreamHasPipe, Input
    <2>1. routes'[j].pipe = routes[j].pipe /\ (routes[j].output \/ routes[j].refs > 0)
      BY <1>4, <1>6, <1>7 DEF q
    <2>2. QED BY <1>7, <2>1 DEF IInv, StreamHasPipe, Input
  <1>15. RoutesFollowStreams'
    <2>1. \A j \in Routes : ~routes'[j].output /\ ~Input(j)' =>
            routes'[j].address = "none" /\ routes'[j].pipe = 0
      BY <1>1, <1>4, <1>6, <1>7 DEF IInv, RoutesFollowStreams, Input
    <2>2. \A b \in Addresses : out[b].pc # "closed" =>
            routes'[out[b].route].output /\ routes'[out[b].route].address = b
      BY <1>12 DEF IInv, RoutesFollowStreams
    <2>3. \A j \in Routes : routes'[j].address \in {"none", routes[j].address}
      BY <1>6, <1>7
    <2>4. \A j, k \in Routes : j # k /\ routes'[j].address = routes'[k].address =>
            routes'[j].address = "none"
      BY <2>3 DEF IInv, RoutesFollowStreams
    <2>5. QED BY <1>1, <2>1, <2>2, <2>4 DEF RoutesFollowStreams
  <1>16. InputCounted'
    <2>1. routes'[i].refs = Cardinality({d \in Clients : in'[d].pc # "closed" /\ in'[d].route = i})
      BY <1>4, <1>6 DEF UsersAfter
    <2>2. \A j \in Routes \ {i} :
            routes'[j].refs = Cardinality({d \in Clients : in'[d].pc # "closed" /\ in'[d].route = j})
      BY <1>3, <1>7 DEF IInv, InputCounted
    <2>3. QED BY <2>1, <2>2 DEF InputCounted
  <1>17. WriteWaitsForInput'
    <2> SUFFICES ASSUME NEW b \in Addresses, out[b].pc = "write",
                        pipes'[out[b].sink].frames = PipeFrames
                 PROVE  pipes'[out[b].sink].shutdown \/ routes'[out[b].route].refs > 0
      BY <1>1 DEF WriteWaitsForInput, Input
    <2>1. /\ out[b].route \in Routes /\ out[b].sink \in Pipes
          /\ pipes[out[b].sink].shutdown \/ routes[out[b].route].refs > 0
      BY <1>9, <1>12 DEF IInv, WriteWaitsForInput, Input
    <2>2. CASE pipes[out[b].sink].shutdown
      BY <1>9, <2>1, <2>2
    <2>3. CASE out[b].route # i /\ routes[out[b].route].refs > 0
      BY <1>7, <2>1, <2>3
    <2>4. CASE out[b].route = i /\ routes[i].refs # 1 /\ routes[i].refs > 0
      BY <1>4, <1>6, <2>4
    <2>5. CASE out[b].route = i /\ routes[i].refs = 1
      <3>1. CASE out[b].sink = q
        BY <1>9, <2>5, <3>1
      <3>2. CASE out[b].sink # q
        BY <1>9, <2>1, <2>5, <3>2 DEF IInv, SinkInv, q
      <3>3. QED BY <3>1, <3>2
    <2>6. QED BY <1>4, <2>1, <2>2, <2>3, <2>4, <2>5
  <1>18. OpenInputHears'
    <2> SUFFICES ASSUME NEW j \in Routes \ exited, routes'[j].refs > 0, routes'[j].pipe # 0,
                        pipes'[routes'[j].pipe].shutdown
                 PROVE  FALSE
      BY <1>1 DEF OpenInputHears, Input, Shutdown
    <2>1. routes[j].refs > 0 /\ routes'[j].pipe = routes[j].pipe /\ routes[j].pipe \in Pipes
      BY <1>4, <1>6, <1>7 DEF q, IInv, TypeOK, RouteConfig
    <2>2. ~pipes[routes[j].pipe].shutdown
      BY <2>1, Counts DEF IInv, OpenInputHears, Input, Shutdown
    <2>3. CASE j = i
      BY <1>4, <1>6, <1>9, <2>1, <2>2, <2>3
    <2>4. CASE j # i
      BY <1>8, <1>9, <2>1, <2>2, <2>4
    <2>5. QED BY <2>3, <2>4
  <1>19. QED BY <1>10, <1>11, <1>13, <1>14, <1>15, <1>16, <1>17, <1>18 DEF IInv

-----------------------------------------------------------------------------
(* Writing and reading. *)

\* What a transfer leaves alone: routes, and which handles are open on which.
LEMMA TransferKeeps ==
  ASSUME IInv, UNCHANGED routes,
         \A a \in Addresses : out'[a].route = out[a].route
                              /\ (out'[a].pc = "closed" <=> out[a].pc = "closed"),
         \A c \in Clients : in'[c].route = in[c].route
                            /\ (in'[c].pc = "closed" <=> in[c].pc = "closed")
  PROVE  StreamHasPipe' /\ RoutesFollowStreams' /\ InputCounted'
  <1>1. StreamHasPipe' /\ RoutesFollowStreams'
    BY DEF IInv, StreamHasPipe, RoutesFollowStreams, Input
  <1>2. \A i \in Routes : {c \in Clients : in'[c].pc # "closed" /\ in'[c].route = i} =
                          {c \in Clients : in[c].pc # "closed" /\ in[c].route = i}
    OBVIOUS
  <1>3. QED BY <1>1, <1>2 DEF IInv, InputCounted

\* Without an input, a writer makes room before it writes.
LEMMA StartWritePreserves ==
  ASSUME IInv, NEW a \in Addresses, StartWrite(a)
  PROVE  IInv'
  <1> DEFINE i == out[a].route
             p == routes[i].pipe
  <1>1. /\ out[a].pc = "open" /\ out[a].frames < MaxWritten /\ p # 0
        /\ UNCHANGED <<routes, in, exited>>
        /\ i \in Routes /\ p \in Pipes
        /\ pipes[p].frames \in 0..PipeFrames
    BY WriterFacts DEF StartWrite, IInv, TypeOK
  <1>2. /\ out' \in [Addresses -> OutStream] /\ \A b \in Addresses \ {a} : out'[b] = out[b]
        /\ out'[a].route = i /\ out'[a].frames = out[a].frames
        /\ \/ out'[a].pc = "skip"
           \/ out'[a].pc = "write" /\ out'[a].sink = p
    <2> DEFINE skip == [out[a] EXCEPT !.pc = "skip"]
               write == [out[a] EXCEPT !.pc = "write", !.sink = p]
    <2>1. out \in [Addresses -> OutStream] /\ out[a] \in OutStream
      BY DEF IInv, TypeOK
    <2>2. /\ skip \in OutStream /\ skip.route = i /\ skip.frames = out[a].frames
          /\ skip.pc = "skip"
      BY <2>1 DEF OutStream
    <2>3. /\ write \in OutStream /\ write.route = i /\ write.frames = out[a].frames
          /\ write.pc = "write" /\ write.sink = p
      BY <1>1, <2>1 DEF OutStream
    <2>4. out' = [out EXCEPT ![a] = skip] \/ out' = [out EXCEPT ![a] = write]
      BY <2>1 DEF StartWrite
    <2> HIDE DEF skip, write
    <2>5. QED BY <2>1, <2>2, <2>3, <2>4
  <1>3. /\ pipes' \in [Pipes -> [frames : 0..PipeFrames, shutdown : BOOLEAN]]
        /\ \A k \in Pipes : /\ pipes'[k].shutdown = pipes[k].shutdown
                            /\ pipes'[k].frames = PipeFrames => pipes[k].frames = PipeFrames
        /\ out'[a].pc = "write" =>
             pipes'[p].frames # PipeFrames \/ Input(i)
    <2>1. CASE UNCHANGED pipes /\ (out'[a].pc = "write" => Input(i) \/ pipes[p].frames # PipeFrames)
      BY <1>1, <2>1 DEF IInv, TypeOK
    <2>2. CASE pipes' = [pipes EXCEPT ![p].frames = @ - 1] /\ pipes[p].frames = PipeFrames
      <3>1. /\ pipes \in [Pipes -> [frames : 0..PipeFrames, shutdown : BOOLEAN]]
            /\ pipes[p] \in [frames : 0..PipeFrames, shutdown : BOOLEAN]
        BY <1>1 DEF IInv, TypeOK
      <3>2. PipeFrames - 1 \in 0..PipeFrames /\ PipeFrames - 1 # PipeFrames
        BY Counts
      <3> HIDE DEF i, p
      <3> DEFINE q == [pipes[p] EXCEPT !.frames = PipeFrames - 1]
      <3>3. /\ q \in [frames : 0..PipeFrames, shutdown : BOOLEAN]
            /\ q.frames = PipeFrames - 1 /\ q.shutdown = pipes[p].shutdown
        BY <3>1, <3>2
      <3>4. pipes' = [pipes EXCEPT ![p] = q]
        BY <2>2, <3>1
      <3> HIDE DEF q
      <3>5. QED BY <1>1, <3>1, <3>2, <3>3, <3>4
    <2>3. \/ UNCHANGED pipes /\ (out'[a].pc = "write" => Input(i) \/ pipes[p].frames # PipeFrames)
          \/ pipes' = [pipes EXCEPT ![p].frames = @ - 1] /\ pipes[p].frames = PipeFrames
      <3>1. CASE out' = [out EXCEPT ![a].pc = "skip"] /\ UNCHANGED pipes
        BY <3>1, <1>2 DEF IInv, TypeOK, OutStream
      <3>2. CASE ~(UNCHANGED pipes /\ out' = [out EXCEPT ![a].pc = "skip"])
        BY <3>2 DEF StartWrite
      <3>3. QED BY <3>1, <3>2
    <2>4. QED BY <2>1, <2>2, <2>3
  <1>4. \A b \in Addresses : out'[b].pc = "write" =>
          /\ out'[b].route = out[b].route
          /\ b # a => out'[b] = out[b] /\ out[b].sink \in Pipes
    BY <1>2, WriterFacts
  <1> HIDE DEF i, p
  <1>5. TypeOK'
    BY <1>1, <1>2, <1>3 DEF IInv, TypeOK
  <1>6. HandleInv'
    BY <1>1, <1>2, Counts DEF IInv, HandleInv, i
  <1>7. SinkInv'
    BY <1>1, <1>2, <1>3, <1>4 DEF IInv, SinkInv, i, p
  <1>8. StreamHasPipe' /\ RoutesFollowStreams' /\ InputCounted'
    BY <1>1, <1>2, TransferKeeps DEF i
  <1>9. WriteWaitsForInput'
    <2> SUFFICES ASSUME NEW b \in Addresses, out'[b].pc = "write",
                        pipes'[out'[b].sink].frames = PipeFrames
                 PROVE  pipes'[out'[b].sink].shutdown \/ routes[out'[b].route].refs > 0
      BY <1>1 DEF WriteWaitsForInput, Input
    <2>1. CASE b = a
      BY <1>2, <1>3, <2>1 DEF Input
    <2>2. CASE b # a
      BY <1>3, <1>4, <2>2 DEF IInv, WriteWaitsForInput, Input
    <2>3. QED BY <2>1, <2>2
  <1>10. OpenInputHears'
    BY <1>1, <1>3 DEF IInv, OpenInputHears, Input, Shutdown, TypeOK, RouteConfig
  <1>11. QED BY <1>5, <1>6, <1>7, <1>8, <1>9, <1>10 DEF IInv

\* Two writers never fill the same pipe, unless it is shut down.
LEMMA WritePipePreserves ==
  ASSUME IInv, NEW a \in Addresses, WritePipe(a)
  PROVE  IInv'
  <1> DEFINE p == out[a].sink
  <1>1. /\ out[a].pc = "write" /\ UNCHANGED <<routes, in, exited>>
        /\ p \in Pipes /\ pipes[p].frames \in 0..PipeFrames
    BY WriterFacts DEF WritePipe, IInv, TypeOK
  <1>2. /\ out' \in [Addresses -> OutStream] /\ \A b \in Addresses \ {a} : out'[b] = out[b]
        /\ out'[a].route = out[a].route /\ out'[a].frames = out[a].frames
        /\ out'[a].pc = "count"
    BY <1>1, Counts DEF WritePipe, IInv, TypeOK, OutStream
  <1>3. /\ pipes' \in [Pipes -> [frames : 0..PipeFrames, shutdown : BOOLEAN]]
        /\ \A k \in Pipes : /\ pipes'[k].shutdown = pipes[k].shutdown
                            /\ k # p => pipes'[k] = pipes[k]
    <2>1. CASE UNCHANGED pipes
      BY <2>1 DEF IInv, TypeOK
    <2>2. CASE pipes[p].frames < PipeFrames /\ pipes' = [pipes EXCEPT ![p].frames = @ + 1]
      BY <1>1, <2>2, Counts DEF IInv, TypeOK
    <2>3. QED BY <2>1, <2>2 DEF WritePipe
  <1>4. \A b \in Addresses : out'[b].pc = "write" =>
          b # a /\ out'[b] = out[b] /\ out[b].sink \in Pipes
    BY <1>2, WriterFacts
  <1>5. \A b \in Addresses \ {a} : out[b].pc = "write" =>
          out[b].sink # p \/ pipes[p].shutdown
    BY <1>1, WriterFacts DEF IInv, SinkInv
  <1> HIDE DEF p
  <1>6. TypeOK'
    BY <1>1, <1>2, <1>3 DEF IInv, TypeOK
  <1>7. HandleInv'
    BY <1>1, <1>2 DEF IInv, HandleInv
  <1>8. SinkInv'
    BY <1>1, <1>2, <1>3, <1>4 DEF IInv, SinkInv
  <1>9. StreamHasPipe' /\ RoutesFollowStreams' /\ InputCounted'
    BY <1>1, <1>2, TransferKeeps
  <1>10. WriteWaitsForInput'
    BY <1>1, <1>3, <1>4, <1>5 DEF IInv, WriteWaitsForInput, Input
  <1>11. OpenInputHears'
    BY <1>1, <1>3 DEF IInv, OpenInputHears, Input, Shutdown, TypeOK, RouteConfig
  <1>12. QED BY <1>6, <1>7, <1>8, <1>9, <1>10, <1>11 DEF IInv

\* The end of a write and standby touch the stream only.
LEMMA CountPreserves ==
  ASSUME IInv, NEW a \in Addresses, FinishWrite(a) \/ OutStandby(a)
  PROVE  IInv'
  <1>1. /\ out[a].pc # "closed" /\ UNCHANGED <<routes, pipes, in, exited>>
        /\ out[a].frames \in 0..MaxWritten
        /\ out[a].pc \in {"count", "skip"} => out[a].frames < MaxWritten /\ out[a].put \in 0..1
    BY DEF FinishWrite, OutStandby, IInv, HandleInv, TypeOK, OutStream
  <1>2. /\ out' \in [Addresses -> OutStream] /\ \A b \in Addresses \ {a} : out'[b] = out[b]
        /\ out'[a].route = out[a].route /\ out'[a].pc = "open"
    <2>1. CASE FinishWrite(a)
      <3> DEFINE n == IF out[a].pc = "skip" THEN 1 ELSE out[a].put
                 m == out[a].frames + n
      <3>1. out' = [out EXCEPT ![a].pc = "open", ![a].sink = 0, ![a].put = 0, ![a].frames = m]
        BY <2>1 DEF FinishWrite, IInv, TypeOK, OutStream
      <3>2. m \in 0..MaxWritten /\ 0 \in 0..1
        BY <1>1, <2>1, Counts DEF FinishWrite
      <3> HIDE DEF m
      <3> DEFINE o == [pc |-> "open", route |-> out[a].route, sink |-> 0, put |-> 0, frames |-> m]
      <3>3. /\ out'[a] = o /\ DOMAIN out' = Addresses /\ out' = [b \in DOMAIN out' |-> out'[b]]
            /\ \A b \in Addresses \ {a} : out'[b] = out[b]
        <4>1. out \in [Addresses -> OutStream] /\ out[a] \in OutStream
          BY DEF IInv, TypeOK
        <4>2. out'[a] = [[[[out[a] EXCEPT !.pc = "open"] EXCEPT !.sink = 0] EXCEPT !.put = 0]
                          EXCEPT !.frames = m]
          BY <3>1, <4>1
        <4>3. out'[a] = o
          BY <4>1, <4>2 DEF OutStream
        <4>4. QED BY <3>1, <4>1, <4>3
      <3>4. o \in OutStream
        BY <3>2 DEF IInv, TypeOK, OutStream
      <3>5. o.pc = "open" /\ o.route = out[a].route
        OBVIOUS
      <3> HIDE DEF o
      <3>6. QED BY <3>3, <3>4, <3>5 DEF IInv, TypeOK
    <2>2. CASE OutStandby(a)
      <3> DEFINE o == [out[a] EXCEPT !.frames = 0]
      <3>1. out \in [Addresses -> OutStream] /\ out[a] \in OutStream /\ out[a].pc = "open"
        BY <2>2 DEF OutStandby, IInv, TypeOK
      <3>2. o \in OutStream /\ o.route = out[a].route /\ o.pc = "open"
        BY <3>1, Counts DEF OutStream
      <3>3. out' = [out EXCEPT ![a] = o]
        BY <2>2, <3>1 DEF OutStandby
      <3> HIDE DEF o
      <3>4. QED BY <3>1, <3>2, <3>3
    <2>3. QED BY <2>1, <2>2
  <1>3. TypeOK'
    BY <1>1, <1>2 DEF IInv, TypeOK
  <1>4. HandleInv'
    BY <1>1, <1>2 DEF IInv, HandleInv
  <1>5. SinkInv'
    BY <1>1, <1>2 DEF IInv, SinkInv
  <1>6. StreamHasPipe' /\ RoutesFollowStreams' /\ InputCounted'
    BY <1>1, <1>2, TransferKeeps
  <1>7. WriteWaitsForInput'
    BY <1>1, <1>2 DEF IInv, WriteWaitsForInput, Input
  <1>8. OpenInputHears'
    BY <1>1 DEF IInv, OpenInputHears, Input, Shutdown
  <1>9. QED BY <1>3, <1>4, <1>5, <1>6, <1>7, <1>8 DEF IInv

\* "exiting" shuts down the pipe of its own route.
LEMMA ExitingPreserves ==
  ASSUME IInv, NEW a \in Addresses, Exiting(a)
  PROVE  IInv'
  <1> DEFINE i == out[a].route
             p == routes[i].pipe
  <1>1. /\ i \in Routes /\ p \in Pipes /\ UNCHANGED <<routes, out, in>>
        /\ pipes' = [pipes EXCEPT ![p].shutdown = TRUE] /\ exited' = exited \cup {i}
        /\ \A j \in Routes \ {i} : routes[j].pipe # p
    <2>1. routes[i].output /\ i \in Routes /\ p \in Pipes
      BY WriterFacts DEF Exiting
    <2>2. QED BY <2>1 DEF Exiting, SetShutdown, IInv, StreamHasPipe
  <1>2. /\ pipes' \in [Pipes -> [frames : 0..PipeFrames, shutdown : BOOLEAN]]
        /\ \A k \in Pipes : /\ pipes'[k].frames = pipes[k].frames
                            /\ pipes[k].shutdown => pipes'[k].shutdown
                            /\ k # p => pipes'[k] = pipes[k]
    BY <1>1 DEF IInv, TypeOK
  <1>3. \A b \in Addresses : out[b].pc = "write" => out[b].sink \in Pipes
    BY WriterFacts
  <1> HIDE DEF i, p
  <1>4. TypeOK'
    BY <1>1, <1>2 DEF IInv, TypeOK
  <1>5. HandleInv'
    BY <1>1 DEF IInv, HandleInv
  <1>6. SinkInv'
    BY <1>1, <1>2, <1>3 DEF IInv, SinkInv
  <1>7. StreamHasPipe' /\ RoutesFollowStreams' /\ InputCounted'
    BY <1>1, TransferKeeps
  <1>8. WriteWaitsForInput'
    BY <1>1, <1>2, <1>3 DEF IInv, WriteWaitsForInput, Input
  <1>9. OpenInputHears'
    BY <1>1, <1>2 DEF IInv, OpenInputHears, Input, Shutdown, TypeOK, RouteConfig
  <1>10. QED BY <1>4, <1>5, <1>6, <1>7, <1>8, <1>9 DEF IInv

\* A reader takes from whatever pipe it began with.
LEMMA ReadPreserves ==
  ASSUME IInv, NEW c \in Clients, StartRead(c) \/ FinishRead(c)
  PROVE  IInv'
  <1>1. UNCHANGED <<routes, out, exited>>
    BY DEF StartRead, FinishRead
  <1>2. /\ in' \in [Clients -> InStream] /\ \A d \in Clients \ {c} : in'[d] = in[d]
        /\ in'[c].route = in[c].route /\ in[c].pc # "closed" /\ in'[c].pc # "closed"
        /\ in'[c].pc = "read" => in'[c].source # 0
    <2>1. CASE StartRead(c)
      <3>1. in[c].route \in Routes /\ routes[in[c].route].pipe \in Pipes
        BY <2>1 DEF StartRead, IInv, HandleInv, TypeOK, InStream, RouteConfig
      <3>2. QED BY <2>1, <3>1 DEF StartRead, IInv, TypeOK, InStream
    <2>2. CASE FinishRead(c)
      BY <2>2 DEF FinishRead, IInv, TypeOK, InStream
    <2>3. QED BY <2>1, <2>2
  <1>3. /\ pipes' \in [Pipes -> [frames : 0..PipeFrames, shutdown : BOOLEAN]]
        /\ \A k \in Pipes : /\ pipes'[k].shutdown = pipes[k].shutdown
                            /\ pipes'[k].frames = PipeFrames => pipes[k].frames = PipeFrames
    <2>1. CASE UNCHANGED pipes
      BY <2>1 DEF IInv, TypeOK
    <2>2. CASE /\ in[c].source \in Pipes /\ pipes[in[c].source].frames > 0
               /\ pipes' = [pipes EXCEPT ![in[c].source].frames = @ - 1]
      BY <2>2, Counts DEF IInv, TypeOK
    <2>3. in[c].pc = "read" => in[c].source \in Pipes
      BY DEF IInv, HandleInv, TypeOK, InStream
    <2>4. QED BY <2>1, <2>2, <2>3 DEF StartRead, FinishRead
  <1>4. \A b \in Addresses : out[b].pc = "write" => out[b].sink \in Pipes
    BY WriterFacts
  <1>5. TypeOK'
    BY <1>1, <1>2, <1>3 DEF IInv, TypeOK
  <1>6. HandleInv'
    BY <1>1, <1>2 DEF IInv, HandleInv, TypeOK, InStream
  <1>7. SinkInv'
    BY <1>1, <1>3, <1>4 DEF IInv, SinkInv
  <1>8. StreamHasPipe' /\ RoutesFollowStreams' /\ InputCounted'
    BY <1>1, <1>2, TransferKeeps
  <1>9. WriteWaitsForInput'
    BY <1>1, <1>3, <1>4 DEF IInv, WriteWaitsForInput, Input
  <1>10. OpenInputHears'
    BY <1>1, <1>3 DEF IInv, OpenInputHears, Input, Shutdown, TypeOK, RouteConfig
  <1>11. QED BY <1>5, <1>6, <1>7, <1>8, <1>9, <1>10 DEF IInv

-----------------------------------------------------------------------------
(* The theorems. *)

\* Nothing is open.
LEMMA InitEstablishes == Init => IInv
  <1> SUFFICES ASSUME Init PROVE IInv
    OBVIOUS
  <1>1. NoRoute \in RouteConfig /\ NoOut \in OutStream /\ NoIn \in InStream
    BY Counts DEF NoRoute, RouteConfig, NoOut, OutStream, NoIn, InStream
  <1>2. TypeOK
    BY <1>1, Counts DEF Init, TypeOK, NewPipe
  <1>3. HandleInv /\ SinkInv /\ WriteWaitsForInput
    BY Counts DEF Init, HandleInv, SinkInv, WriteWaitsForInput, NoOut, NoIn
  <1>4. StreamHasPipe /\ RoutesFollowStreams /\ OpenInputHears
    BY DEF Init, StreamHasPipe, RoutesFollowStreams, OpenInputHears, Input, NoRoute, NoOut
  <1>5. InputCounted
    <2> SUFFICES ASSUME NEW i \in Routes
                 PROVE  routes[i].refs =
                          Cardinality({c \in Clients : in[c].pc # "closed" /\ in[c].route = i})
      BY DEF InputCounted
    <2>1. {c \in Clients : in[c].pc # "closed" /\ in[c].route = i} = {}
      BY DEF Init, NoIn
    <2>2. QED BY <2>1, FS_EmptySet DEF Init, NoRoute
  <1>6. QED BY <1>2, <1>3, <1>4, <1>5 DEF IInv

\* Every call, and every part of a transfer, keeps the invariant.
LEMMA StepPreserves == IInv /\ [Next]_vars => IInv'
  <1> SUFFICES ASSUME IInv, [Next]_vars PROVE IInv'
    OBVIOUS
  <1>1. ASSUME NEW a \in Addresses, NEW rate \in Rates, OpenOutput(a, rate) PROVE IInv'
    BY <1>1, OpenOutputPreserves
  <1>2. ASSUME NEW a \in Addresses, CloseOutput(a) PROVE IInv'
    BY <1>2, CloseOutputPreserves
  <1>3. ASSUME NEW a \in Addresses, StartWrite(a) PROVE IInv'
    BY <1>3, StartWritePreserves
  <1>4. ASSUME NEW a \in Addresses, WritePipe(a) PROVE IInv'
    BY <1>4, WritePipePreserves
  <1>5. ASSUME NEW a \in Addresses, FinishWrite(a) \/ OutStandby(a) PROVE IInv'
    BY <1>5, CountPreserves
  <1>6. ASSUME NEW a \in Addresses, Exiting(a) PROVE IInv'
    BY <1>6, ExitingPreserves
  <1>7. ASSUME NEW c \in Clients, NEW a \in Addresses, NEW rate \in Rates, NEW mono \in BOOLEAN,
               OpenInput(c, a, rate, mono)
        PROVE  IInv'
    BY <1>7, OpenInputPreserves
  <1>8. ASSUME NEW c \in Clients, CloseInput(c) PROVE IInv'
    BY <1>8, CloseInputPreserves
  <1>9. ASSUME NEW c \in Clients, StartRead(c) \/ FinishRead(c) PROVE IInv'
    BY <1>9, ReadPreserves
  <1>10. CASE UNCHANGED vars
    <2>1. UNCHANGED <<routes, pipes, out, in, exited>>
      BY <1>10 DEF vars
    <2>2. StreamHasPipe' /\ RoutesFollowStreams' /\ InputCounted'
      BY <2>1, TransferKeeps
    <2>3. QED BY <2>1, <2>2 DEF IInv, TypeOK, HandleInv, SinkInv, WriteWaitsForInput,
                                OpenInputHears, Input, Shutdown
  <1>11. QED BY <1>1, <1>2, <1>3, <1>4, <1>5, <1>6, <1>7, <1>8, <1>9, <1>10 DEF Next

\* The invariant holds in every reachable state.
LEMMA Invariance == Spec => []IInv
  BY InitEstablishes, StepPreserves, PTL DEF Spec

\* Every variable keeps its type; above all there is always a pipe for the next stream.
THEOREM TypeCorrect == Spec => []TypeOK
  <1>1. IInv => TypeOK
    BY DEF IInv
  <1>2. QED BY <1>1, Invariance, PTL

\* out_write and the position calls use the pipe of an open stream unchecked, and find one.
THEOREM PipeIsThere == Spec => []StreamHasPipe
  <1>1. IInv => StreamHasPipe
    BY DEF IInv
  <1>2. QED BY <1>1, Invariance, PTL

\* release_pipe_l and the address of a route follow its streams, in whatever order they close.
THEOREM RoutesAreFreed == Spec => []RoutesFollowStreams
  <1>1. IInv => RoutesFollowStreams
    BY DEF IInv
  <1>2. QED BY <1>1, Invariance, PTL

\* ref_count is the number of clients that share the input stream.
THEOREM CountIsExact == Spec => []InputCounted
  <1>1. IInv => InputCounted
    BY DEF IInv
  <1>2. QED BY <1>1, Invariance, PTL

\* sink->write() blocks only while an input is open.
THEOREM NoIdleWait == Spec => []WriteWaitsForInput
  <1>1. IInv => WriteWaitsForInput
    BY DEF IInv
  <1>2. QED BY <1>1, Invariance, PTL

\* An input is opened on a pipe that takes frames.
THEOREM InputHears == Spec => []OpenInputHears
  <1>1. IInv => OpenInputHears
    BY DEF IInv
  <1>2. QED BY <1>1, Invariance, PTL
=============================================================================
