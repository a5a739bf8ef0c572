----------------------------- MODULE RemoteSubmix -----------------------------
(***************************************************************************)
(* The remote submix audio device (audio_remote_submix/audio_hw.cpp):      *)
(* routes, each with an address, an output stream, an input stream shared  *)
(* by reference count and the MonoPipe between them.  A playback thread    *)
(* per address and a thread per recording client call it at the same time; *)
(* open, close and the beginnings and ends of write and read run under the *)
(* device lock and are one step each, the transfers to and from the pipe   *)
(* run outside it.  Frames are counted in buffers of one write or read.    *)
(***************************************************************************)
EXTENDS Integers, FiniteSets

CONSTANTS Addresses,     \* device addresses; each has one playback thread
          Clients,       \* recording threads
          MAX_ROUTES,
          Rates,         \* sample rates
          PipeFrames,    \* capacity of a pipe
          MaxWritten     \* bound: frames_written_since_standby of an output

ASSUME SubmixAssumption ==
  /\ MAX_ROUTES \in Nat \ {0} /\ PipeFrames \in Nat \ {0} /\ MaxWritten \in Nat
  /\ IsFiniteSet(Addresses) /\ IsFiniteSet(Clients) /\ Rates # {}
  /\ "none" \notin Addresses

Routes == 1..MAX_ROUTES
\* Pipes a route, a writer in out_write or a reader in in_read may refer to; 0 is NULL.
Pipes == 1..(MAX_ROUTES + Cardinality(Addresses) + Cardinality(Clients))

VARIABLES
  routes,    \* routes[i]: route_config_t
  pipes,     \* pipes[p]: frames in a MonoPipe and whether it is shut down
  out,       \* out[a]: the output stream of an address and its thread's place in out_write
  in,        \* in[c]: the handle of a client and its place in in_read
  exited     \* routes shut down by the "exiting" parameter since an input was opened last

vars == <<routes, pipes, out, in, exited>>

\* rate is config.common.sample_rate, mono that config.input_channel_mask is.
RouteConfig == [address : Addresses \cup {"none"}, pipe : Pipes \cup {0},
                rate : Rates \cup {"none"}, mono : BOOLEAN,
                output : BOOLEAN, refs : 0..Cardinality(Clients)]
\* pc: "closed", "open", in out_write ("write" to the pipe, then "count", or "skip"); route
\* and sink are route_handle and the local sp; put is what sink->write() took so far,
\* frames is frames_written_since_standby.
OutStream == [pc : {"closed", "open", "write", "count", "skip"}, route : Routes \cup {0},
              sink : Pipes \cup {0}, put : 0..1, frames : 0..MaxWritten]
InStream == [pc : {"closed", "open", "read"}, route : Routes \cup {0}, source : Pipes \cup {0}]

NoRoute  == [address |-> "none", pipe |-> 0, rate |-> "none", mono |-> FALSE,
             output |-> FALSE, refs |-> 0]
NoOut    == [pc |-> "closed", route |-> 0, sink |-> 0, put |-> 0, frames |-> 0]
NoIn     == [pc |-> "closed", route |-> 0, source |-> 0]
NewPipe  == [frames |-> 0, shutdown |-> FALSE]

Input(i) == routes[i].refs > 0

Init ==
  /\ routes = [i \in Routes |-> NoRoute] /\ pipes = [p \in Pipes |-> NewPipe]
  /\ out = [a \in Addresses |-> NoOut] /\ in = [c \in Clients |-> NoIn] /\ exited = {}

-----------------------------------------------------------------------------
(* Routes and pipes, under the device lock. *)

\* submix_get_route_idx_for_address_l: the route of the address, else the last empty one.
RouteFor(a) ==
  LET used  == {i \in Routes : routes[i].address = a}
      empty == {i \in Routes : routes[i].address = "none"}
  IN  {i \in used : \A j \in used : i <= j}
        \cup {i \in empty : used = {} /\ \A j \in empty : j <= i}

\* A pipe object nobody refers to, for the next "new MonoPipe".
FreePipe ==
  CHOOSE p \in Pipes : /\ \A i \in Routes : routes[i].pipe # p
                       /\ \A a \in Addresses : out[a].sink # p
                       /\ \A c \in Clients : in[c].source # p

\* submix_open_validate_l: one output per route; rates may differ only for a mono input.
MayOpenOutput(i, rate) ==
  /\ ~routes[i].output
  /\ Input(i) => rate = routes[i].rate \/ routes[i].mono

MayOpenInput(i, rate, mono) ==
  Input(i) \/ routes[i].output => rate = routes[i].rate \/ mono

Shutdown(i) == routes[i].pipe # 0 /\ pipes[routes[i].pipe].shutdown

\* submix_audio_device_create_pipe_l after an optional release_pipe_l: route r gets a pipe if
\* it has none, with the rate of the stream that is opened.
WithPipe(r, release, a, rate) ==
  IF release \/ r.pipe = 0
    THEN [r EXCEPT !.address = a, !.pipe = FreePipe, !.rate = rate]
    ELSE [r EXCEPT !.address = a]

\* Variant: the route keeps its address.
MutReleased(r) == IF ~r.output /\ r.refs = 0 THEN [r EXCEPT !.pipe = 0] ELSE r

\* The end of submix_audio_device_destroy_pipe_l: a route without streams is released.  What
\* is left of its configuration is overwritten by the next open before it is read.
Released(r) == IF ~r.output /\ r.refs = 0 THEN NoRoute ELSE r

SetShutdown(p, value) == [pipes EXCEPT ![p].shutdown = value]

-----------------------------------------------------------------------------
(* Output streams. *)

\* Variant: the pipe of a shut down sink is released and not created again.
MutOpenOutput(a, rate) ==
  /\ out[a].pc = "closed"
  /\ \E i \in RouteFor(a) :
       /\ MayOpenOutput(i, rate)
       /\ routes' = [routes EXCEPT ![i] =
                       IF Shutdown(i) THEN [@ EXCEPT !.output = TRUE, !.pipe = 0]
                       ELSE [WithPipe(@, @.rate # rate, a, rate) EXCEPT !.output = TRUE]]
       /\ pipes' = IF routes'[i].pipe = routes[i].pipe THEN pipes
                   ELSE [pipes EXCEPT ![FreePipe] = NewPipe]
       /\ out' = [out EXCEPT ![a] = [NoOut EXCEPT !.pc = "open", !.route = i]]
  /\ UNCHANGED <<in, exited>>

\* adev_open_output_stream: a pipe that is shut down or has another rate is replaced.
OpenOutput(a, rate) ==
  /\ out[a].pc = "closed"
  /\ \E i \in RouteFor(a) :
       /\ MayOpenOutput(i, rate)
       /\ routes' = [routes EXCEPT ![i] =
            [WithPipe(@, Shutdown(i) \/ @.rate # rate, a, rate) EXCEPT !.output = TRUE]]
       /\ pipes' = IF routes'[i].pipe = routes[i].pipe THEN pipes
                   ELSE [pipes EXCEPT ![FreePipe] = NewPipe]
       /\ out' = [out EXCEPT ![a] = [NoOut EXCEPT !.pc = "open", !.route = i]]
  /\ UNCHANGED <<in, exited>>

CloseOutput(a) ==
  /\ out[a].pc = "open"
  /\ routes' = [routes EXCEPT ![out[a].route] = Released([@ EXCEPT !.output = FALSE])]
  /\ out' = [out EXCEPT ![a] = NoOut]
  /\ UNCHANGED <<pipes, in, exited>>

\* out_write up to the write: a pipe that is shut down gets nothing; without an input stream,
\* frames are flushed until the buffer fits.
StartWrite(a) ==
  /\ out[a].pc = "open" /\ out[a].frames < MaxWritten
  /\ LET i == out[a].route
         p == routes[i].pipe
         flush == ~Input(i) /\ pipes[p].frames = PipeFrames
     IN  /\ p # 0
         /\ \/ /\ pipes[p].shutdown
               /\ out' = [out EXCEPT ![a].pc = "skip"]
               /\ UNCHANGED pipes
            \/ /\ ~pipes[p].shutdown
               /\ out' = [out EXCEPT ![a].pc = "write", ![a].sink = p]
               /\ pipes' = IF flush THEN [pipes EXCEPT ![p].frames = @ - 1] ELSE pipes
  /\ UNCHANGED <<routes, in, exited>>

\* sink->write(), without the lock: it sleeps while the pipe is full and not shut down.
WritePipe(a) ==
  /\ out[a].pc = "write"
  /\ LET p == out[a].sink
     IN  \/ /\ pipes[p].frames < PipeFrames
            /\ pipes' = [pipes EXCEPT ![p].frames = @ + 1]
            /\ out' = [out EXCEPT ![a].pc = "count", ![a].put = 1]
         \/ /\ pipes[p].frames = PipeFrames /\ pipes[p].shutdown
            /\ out' = [out EXCEPT ![a].pc = "count"]
            /\ UNCHANGED pipes
  /\ UNCHANGED <<routes, in, exited>>

\* The end of out_write: frames_written_since_standby has what the pipe took, or the whole
\* buffer when the pipe was shut down.
FinishWrite(a) ==
  /\ out[a].pc \in {"count", "skip"}
  /\ LET n == IF out[a].pc = "skip" THEN 1 ELSE out[a].put
     IN  out' = [out EXCEPT ![a].pc = "open", ![a].sink = 0, ![a].put = 0,
                            ![a].frames = @ + n]
  /\ UNCHANGED <<routes, pipes, in, exited>>

OutStandby(a) ==
  /\ out[a].pc = "open" /\ out' = [out EXCEPT ![a].frames = 0]
  /\ UNCHANGED <<routes, pipes, in, exited>>

\* out_set_parameters("exiting"), from any thread.
Exiting(a) ==
  /\ out[a].pc # "closed"
  /\ LET i == out[a].route
     IN  /\ routes[i].pipe # 0
         /\ pipes' = SetShutdown(routes[i].pipe, TRUE)
         /\ exited' = exited \cup {i}
  /\ UNCHANGED <<routes, out, in>>

-----------------------------------------------------------------------------
(* Input streams. *)

\* Variant: the pipe stays shut down.
MutOpenInput(c, a, rate, mono) ==
  /\ in[c].pc = "closed"
  /\ \E i \in RouteFor(a) :
       /\ MayOpenInput(i, rate, mono)
       /\ routes' = [routes EXCEPT ![i] =
            [WithPipe(@, Input(i) /\ Shutdown(i), a, rate) EXCEPT !.refs = @ + 1, !.mono = mono]]
       /\ pipes' = IF routes'[i].pipe = routes[i].pipe THEN pipes
                   ELSE [pipes EXCEPT ![FreePipe] = NewPipe]
       /\ in' = [in EXCEPT ![c] = [NoIn EXCEPT !.pc = "open", !.route = i]]
       /\ exited' = exited \ {i}
  /\ UNCHANGED out

\* Variant: a second client does not count as a reference.
MutInputCount(c, a, rate, mono) ==
  /\ in[c].pc = "closed"
  /\ \E i \in RouteFor(a) :
       /\ MayOpenInput(i, rate, mono)
       /\ routes' = [routes EXCEPT ![i] =
            [WithPipe(@, Input(i) /\ Shutdown(i), a, rate) EXCEPT !.refs = 1, !.mono = mono]]
       /\ pipes' = [pipes EXCEPT ![routes'[i].pipe] =
                      IF routes'[i].pipe = routes[i].pipe THEN [@ EXCEPT !.shutdown = FALSE]
                      ELSE NewPipe]
       /\ in' = [in EXCEPT ![c] = [NoIn EXCEPT !.pc = "open", !.route = i]]
       /\ exited' = exited \ {i}
  /\ UNCHANGED out

\* adev_open_input_stream: an open input is shared, and its pipe replaced if it is shut down;
\* the pipe the stream reads from is not shut down any more.
OpenInput(c, a, rate, mono) ==
  /\ in[c].pc = "closed"
  /\ \E i \in RouteFor(a) :
       /\ MayOpenInput(i, rate, mono)
       /\ routes' = [routes EXCEPT ![i] =
            [WithPipe(routes[i], Input(i) /\ Shutdown(i), a, rate)
               EXCEPT !.refs = @ + 1, !.mono = mono]]
       /\ pipes' = [pipes EXCEPT ![routes'[i].pipe] =
                      IF routes'[i].pipe = routes[i].pipe THEN [@ EXCEPT !.shutdown = FALSE]
                      ELSE NewPipe]
       /\ in' = [in EXCEPT ![c] = [NoIn EXCEPT !.pc = "open", !.route = i]]
       /\ exited' = exited \ {i}
  /\ UNCHANGED out

\* Variant: the pipe is not shut down with the last input.
MutCloseInput(c) ==
  /\ in[c].pc = "open"
  /\ routes' = [routes EXCEPT ![in[c].route] = Released([@ EXCEPT !.refs = @ - 1])]
  /\ in' = [in EXCEPT ![c] = NoIn]
  /\ UNCHANGED <<pipes, out, exited>>

\* adev_close_input_stream: with the last reference the pipe is shut down, which ends a
\* write that waits for room.
CloseInput(c) ==
  /\ in[c].pc = "open"
  /\ LET i == in[c].route
     IN  /\ routes' = [routes EXCEPT ![i] = Released([routes[i] EXCEPT !.refs = @ - 1])]
         /\ pipes' = IF routes[i].refs = 1 /\ routes[i].pipe # 0
                       THEN SetShutdown(routes[i].pipe, TRUE) ELSE pipes
  /\ in' = [in EXCEPT ![c] = NoIn]
  /\ UNCHANGED <<out, exited>>

\* in_read takes the source under the lock ...
StartRead(c) ==
  /\ in[c].pc = "open"
  /\ LET p == routes[in[c].route].pipe
     IN  p # 0 /\ in' = [in EXCEPT ![c].pc = "read", ![c].source = p]
  /\ UNCHANGED <<routes, pipes, out, exited>>

\* ... and reads without it: a buffer, or silence when there is none after MAX_READ_ATTEMPTS.
FinishRead(c) ==
  /\ in[c].pc = "read"
  /\ LET p == in[c].source
     IN  pipes' = IF pipes[p].frames > 0 THEN [pipes EXCEPT ![p].frames = @ - 1] ELSE pipes
  /\ in' = [in EXCEPT ![c].pc = "open", ![c].source = 0]
  /\ UNCHANGED <<routes, out, exited>>

Next ==
  \/ \E a \in Addresses :
       \/ \E rate \in Rates : OpenOutput(a, rate)
       \/ CloseOutput(a) \/ StartWrite(a) \/ WritePipe(a) \/ FinishWrite(a)
       \/ OutStandby(a) \/ Exiting(a)
  \/ \E c \in Clients :
       \/ \E a \in Addresses, rate \in Rates, mono \in BOOLEAN : OpenInput(c, a, rate, mono)
       \/ CloseInput(c) \/ StartRead(c) \/ FinishRead(c)

Spec == Init /\ [][Next]_vars

-----------------------------------------------------------------------------
(* Properties. *)

\* The variables have their types.
TypeOK ==
  /\ routes \in [Routes -> RouteConfig]
  /\ pipes \in [Pipes -> [frames : 0..PipeFrames, shutdown : BOOLEAN]]
  /\ out \in [Addresses -> OutStream] /\ in \in [Clients -> InStream]
  /\ exited \subseteq Routes

\* out_get_presentation_position and out_get_render_position use rsxSource, and out_write the
\* sink, unchecked: the route of an open stream has a pipe, and nobody else's.
StreamHasPipe ==
  \A i \in Routes : routes[i].output \/ Input(i) =>
    /\ routes[i].pipe # 0
    /\ \A j \in Routes \ {i} : routes[j].pipe # routes[i].pipe

\* "rsxSink and rsxSource are destroyed if both and input and output streams are destroyed"
\* (route_config_t): a route without streams is free for any address, a route with an
\* output has the address it was opened for, and no two routes have the same.
RoutesFollowStreams ==
  \A i \in Routes :
    /\ ~routes[i].output /\ ~Input(i) => routes[i].address = "none" /\ routes[i].pipe = 0
    /\ \A a \in Addresses : out[a].pc # "closed" /\ out[a].route = i =>
         routes[i].output /\ routes[i].address = a
    /\ \A j \in Routes \ {i} : routes[i].address = routes[j].address =>
         routes[i].address = "none"

\* Clients share one input stream (ENABLE_LEGACY_INPUT_OPEN): it is freed when the last of
\* them closes it, and not before.
InputCounted ==
  \A i \in Routes :
    routes[i].refs = Cardinality({c \in Clients : in[c].pc # "closed" /\ in[c].route = i})

\* "If the write to the sink would block when no input stream is present, flush enough
\* frames" (out_write): a write waits only for an input stream that is open, also when the
\* input that it started with closes.
WriteWaitsForInput ==
  \A a \in Addresses :
    out[a].pc = "write" /\ pipes[out[a].sink].frames = PipeFrames
      => pipes[out[a].sink].shutdown \/ Input(out[a].route)

\* Whoever opens an input hears the output: until "exiting" shuts it down, the pipe of an
\* open input takes frames, whatever was opened, closed and shut down before.
OpenInputHears ==
  \A i \in Routes \ exited : Input(i) => ~Shutdown(i)
=============================================================================
