------------------------------ MODULE AudioCore ------------------------------
(***************************************************************************)
(* rjcore's AudioCore: a client of the PulseAudio server that keeps a copy *)
(* of the server's devices and streams, chooses the default device (USB,   *)
(* then HDMI if it is wanted, then analog; of two the one plugged in last) *)
(* and moves all streams to it.  Sinks with their inputs and sources with  *)
(* their outputs go through the same code twice; `side' says which of them *)
(* a behaviour is about, and the names are those of the sinks.             *)
(*                                                                         *)
(* The server is external: one connection, whose two directions keep their *)
(* order; a lost connection is not modelled.                               *)
(***************************************************************************)
EXTENDS Integers, Sequences, FiniteSets, Functions

CONSTANTS
  Device, Usb, BuiltIn, Hdmi,   \* by what alsa.name and device.bus_path say
  Stream,
  None,
  MaxInit, MaxEnv               \* bounds: devices at the start, steps of the world

ASSUME AudioCoreAssumption ==
  /\ Usb \subseteq Device /\ Hdmi \subseteq Device \ Usb /\ BuiltIn \subseteq Usb
  /\ None \notin Device /\ IsFiniteSet(Stream)
  /\ MaxInit \in Nat \ {0} /\ MaxEnv \in Nat

VARIABLES
  side, termialType,
  status,                       \* "start", "ready" or "stopped"
  sinks, sinkInputs,            \* the client's copies: device by index, streams
  defaultSinkName, bHDMI,
  inner,                        \* innerCardName is not empty
  lapsed,                       \* history: autoDefault has found nothing since it last
                                \* set a default
  subscribed, present, on, srvDefault,   \* the server: device by index, device by stream
  toServer, toClient,
  env                           \* steps of the world so far, the last device's index

client == <<sinks, sinkInputs, defaultSinkName, bHDMI, inner, lapsed>>
server == <<subscribed, present, on, srvDefault>>
setup == <<side, termialType>>
vars == <<setup, status, client, server, toServer, toClient, env>>

prio_type(d) ==
  CASE d \in BuiltIn /\ termialType = "VDI" -> "inner analog"
    [] side = "sink" /\ termialType = "IDV" -> "inner analog"
    [] OTHER -> IF d \in Usb THEN "USB" ELSE IF d \in Hdmi THEN "HDMI" ELSE "analog"

\* A partial function without one point, and with one more.
Without(f, i) == [j \in DOMAIN f \ {i} |-> f[j]]
With(f, i, d) == [j \in DOMAIN f \cup {i} |-> IF j = i THEN d ELSE f[j]]

\* The lists of the members of a set, in any order.
Listings(S) == UNION {Bijection(1..n, S) : n \in 0..Cardinality(S)}

\* What goes over the connection: the client's requests, and the server's events
\* ("new", "remove", "open", "close") and replies.
Request ==
  [t : {"subscribe", "server", "sinks", "inputs"}]
    \cup [t : {"sink"}, i : Nat] \cup [t : {"input"}, s : Stream]
    \cup [t : {"default"}, d : Device] \cup [t : {"move"}, s : Stream, d : Device \cup {None}]
Notice ==
  [t : {"new", "remove"}, i : Nat] \cup [t : {"info"}, i : Nat, d : Device]
    \cup [t : {"open", "close", "stream"}, s : Stream]
    \cup [t : {"server"}, d : Device \cup {None}]

-----------------------------------------------------------------------------
(* The client                                                              *)

\* The loop of autoDefault: the map is sorted with the greatest index first.
Choice(devices, hdmi) ==
  LET Rank(i) == CASE prio_type(devices[i]) = "USB" -> 3
                   [] prio_type(devices[i]) = "HDMI" -> IF side = "sink" /\ hdmi THEN 2 ELSE 0
                   [] OTHER -> 1
      first == {i \in DOMAIN devices :
                  /\ Rank(i) > 0
                  /\ \A j \in DOMAIN devices : Rank(j) < Rank(i) \/ (Rank(j) = Rank(i) /\ j <= i)}
  IN  IF first = {} THEN None ELSE devices[CHOOSE i \in first : TRUE]

Move(s, d) == [t |-> "move", s |-> s, d |-> d]

\* Mutant: the streams stay where they are.
autoDefaultNoMove(devices, hdmi) ==
  LET d == Choice(devices, hdmi) IN
  IF d = None THEN lapsed' = TRUE /\ UNCHANGED <<defaultSinkName, toServer>>
  ELSE IF d = defaultSinkName THEN UNCHANGED <<lapsed, defaultSinkName, toServer>>
  ELSE /\ defaultSinkName' = d /\ lapsed' = FALSE
       /\ toServer' = Append(toServer, [t |-> "default", d |-> d])

autoDefault(devices, hdmi) ==
  LET d == Choice(devices, hdmi) IN
  IF d = None THEN lapsed' = TRUE /\ UNCHANGED <<defaultSinkName, toServer>>
  ELSE IF d = defaultSinkName THEN UNCHANGED <<lapsed, defaultSinkName, toServer>>
  ELSE /\ defaultSinkName' = d /\ lapsed' = FALSE
       /\ \E streams \in Listings(sinkInputs) :
            toServer' = toServer \o (<<[t |-> "default", d |-> d]>>
                                       \o [n \in 1..Len(streams) |-> Move(streams[n], d)])

\* Mutant: the lists are asked for before the events.
ReadyListsFirst ==
  /\ status = "start"
  /\ status' = "ready"
  /\ toServer' = <<[t |-> "server"], [t |-> "sinks"], [t |-> "inputs"], [t |-> "subscribe"]>>
  /\ UNCHANGED <<setup, client, server, toClient, env>>

\* context_state_callback, PA_CONTEXT_READY.  The subscription has no SERVER mask.
Hello == <<[t |-> "subscribe"], [t |-> "server"], [t |-> "sinks"], [t |-> "inputs"]>>

Ready ==
  /\ status = "start"
  /\ status' = "ready"
  /\ toServer' = Hello
  /\ UNCHANGED <<setup, client, server, toClient, env>>

Receive(type) ==
  /\ status = "ready" /\ toClient # <<>> /\ Head(toClient).t = type
  /\ toClient' = Tail(toClient)

\* subscribe_cb: a new or changed device, or a new stream, is asked about.
DeviceEvent ==
  /\ Receive("new")
  /\ toServer' = Append(toServer, [t |-> "sink", i |-> Head(toClient).i])
  /\ UNCHANGED <<setup, status, client, server, env>>

DeviceRemoved ==
  LET left == Without(sinks, Head(toClient).i) IN
  /\ Receive("remove")
  /\ sinks' = left
  /\ autoDefault(left, bHDMI)
  /\ UNCHANGED <<setup, status, sinkInputs, bHDMI, inner, server, env>>

StreamEvent ==
  /\ Receive("open")
  /\ toServer' = Append(toServer, [t |-> "input", s |-> Head(toClient).s])
  /\ UNCHANGED <<setup, status, client, server, env>>

StreamRemoved ==
  /\ Receive("close")
  /\ sinkInputs' = sinkInputs \ {Head(toClient).s}
  /\ UNCHANGED <<setup, status, sinks, defaultSinkName, bHDMI, inner, lapsed, server,
                 toServer, env>>

\* sink_cb and updateSink; the built-in card is remembered for changeProfile.
updateSink ==
  LET m == Head(toClient)
      all == With(sinks, m.i, m.d)
  IN
  /\ Receive("info")
  /\ sinks' = all
  /\ inner' = (inner \/ /\ side = "sink" /\ m.i \notin DOMAIN sinks
                        /\ termialType = "IDV" \/ (termialType = "VDI" /\ m.d \in BuiltIn))
  /\ autoDefault(all, bHDMI)
  /\ UNCHANGED <<setup, status, sinkInputs, bHDMI, server, env>>

updateSinkInput ==
  LET s == Head(toClient).s IN
  /\ Receive("stream")
  /\ sinkInputs' = sinkInputs \cup {s}
  /\ toServer' = Append(toServer, Move(s, defaultSinkName))
  /\ UNCHANGED <<setup, status, sinks, defaultSinkName, bHDMI, inner, lapsed, server, env>>

\* server_info_cb: without hardware the server's default is auto_null, and the
\* client disconnects.
updateServer ==
  /\ Receive("server")
  /\ IF Head(toClient).d = None
     THEN status' = "stopped" /\ UNCHANGED defaultSinkName
     ELSE defaultSinkName' = Head(toClient).d /\ UNCHANGED status
  /\ UNCHANGED <<setup, sinks, sinkInputs, bHDMI, inner, lapsed, server, toServer, env>>

\* changeProfile, called by the application.  An IDV terminal asks the server to
\* change the card's profile; what the server then does to the card's devices is
\* among Plug and Unplug.
changeProfile(hdmi) ==
  /\ status = "ready" /\ side = "sink" /\ inner
  /\ env.steps < MaxEnv /\ env' = [env EXCEPT !.steps = @ + 1]
  /\ bHDMI' = hdmi
  /\ IF termialType = "VDI" THEN autoDefault(sinks, hdmi)
     ELSE UNCHANGED <<lapsed, defaultSinkName, toServer>>
  /\ UNCHANGED <<setup, status, sinks, sinkInputs, inner, server, toClient>>

Client ==
  \/ Ready \/ DeviceEvent \/ DeviceRemoved \/ StreamEvent \/ StreamRemoved
  \/ updateSink \/ updateSinkInput \/ updateServer

-----------------------------------------------------------------------------
(* The server                                                              *)

Step == status = "ready" /\ env.steps < MaxEnv
Tell(messages) == toClient' = IF subscribed THEN toClient \o messages ELSE toClient

Plugged(d) == \E i \in DOMAIN present : present[i] = d

\* A device gets an index that was never used.
Plug(d) ==
  /\ Step /\ ~Plugged(d)
  /\ env' = [steps |-> env.steps + 1, last |-> env.last + 1]
  /\ present' = With(present, env.last + 1, d)
  /\ srvDefault' = IF srvDefault = None THEN d ELSE srvDefault
  /\ Tell(<<[t |-> "new", i |-> env.last + 1]>>)
  /\ UNCHANGED <<setup, status, client, subscribed, on, toServer>>

\* Its streams are moved to another device, or end if there is none.
Unplug(i) ==
  LET d == present[i]
      left == Without(present, i)
      rest == {left[j] : j \in DOMAIN left}
      moved == {s \in DOMAIN on : on[s] = d}
  IN
  /\ Step
  /\ env' = [env EXCEPT !.steps = @ + 1]
  /\ present' = left
  /\ IF rest = {}
     THEN /\ srvDefault' = None
          /\ on' = [s \in DOMAIN on \ moved |-> on[s]]
          /\ \E ended \in Listings(moved) :
               Tell([n \in 1..Len(ended) |-> [t |-> "close", s |-> ended[n]]]
                      \o <<[t |-> "remove", i |-> i]>>)
     ELSE \E r \in rest :
          /\ srvDefault' = IF srvDefault = d THEN r ELSE srvDefault
          /\ on' = [s \in DOMAIN on |-> IF s \in moved THEN r ELSE on[s]]
          /\ Tell(<<[t |-> "remove", i |-> i]>>)
  /\ UNCHANGED <<setup, status, client, subscribed, toServer>>

\* A change of a sink is answered as its arrival is; changes of sources are not
\* looked at.
Change(i) ==
  /\ Step /\ side = "sink"
  /\ env' = [env EXCEPT !.steps = @ + 1]
  /\ Tell(<<[t |-> "new", i |-> i]>>)
  /\ UNCHANGED <<setup, status, client, server, toServer>>

Open(s) ==
  /\ Step /\ srvDefault # None /\ s \notin DOMAIN on
  /\ env' = [env EXCEPT !.steps = @ + 1]
  /\ on' = With(on, s, srvDefault)
  /\ Tell(<<[t |-> "open", s |-> s]>>)
  /\ UNCHANGED <<setup, status, client, subscribed, present, srvDefault, toServer>>

Close(s) ==
  /\ Step /\ s \in DOMAIN on
  /\ env' = [env EXCEPT !.steps = @ + 1]
  /\ on' = Without(on, s)
  /\ Tell(<<[t |-> "close", s |-> s]>>)
  /\ UNCHANGED <<setup, status, client, subscribed, present, srvDefault, toServer>>

Info(i) == [t |-> "info", i |-> i, d |-> present[i]]
StreamInfo(s) == [t |-> "stream", s |-> s]

\* The possible answers to a request.  What no longer exists gives an error, which
\* the callbacks ignore; the order of a list is the server's.
Answers(m) ==
  CASE m.t = "sink" /\ m.i \in DOMAIN present -> {<<Info(m.i)>>}
    [] m.t = "input" /\ m.s \in DOMAIN on -> {<<StreamInfo(m.s)>>}
    [] m.t = "server" -> {<<[t |-> "server", d |-> srvDefault]>>}
    [] m.t = "sinks" -> {[n \in 1..Len(l) |-> Info(l[n])] : l \in Listings(DOMAIN present)}
    [] m.t = "inputs" -> {[n \in 1..Len(l) |-> StreamInfo(l[n])] : l \in Listings(DOMAIN on)}
    [] OTHER -> {<<>>}

\* Requests are served in order.
Serve ==
  LET m == Head(toServer) IN
  /\ status # "stopped" /\ toServer # <<>>
  /\ toServer' = Tail(toServer)
  /\ \E a \in Answers(m) : toClient' = toClient \o a
  /\ subscribed' = (subscribed \/ m.t = "subscribe")
  /\ srvDefault' = IF m.t = "default" /\ Plugged(m.d) THEN m.d ELSE srvDefault
  /\ on' = IF m.t = "move" /\ m.s \in DOMAIN on /\ Plugged(m.d)
           THEN [on EXCEPT ![m.s] = m.d] ELSE on
  /\ UNCHANGED <<setup, status, client, present, env>>

-----------------------------------------------------------------------------
\* The devices are plugged in, and streams opened, before the client starts.
Init ==
  /\ side \in {"sink", "source"} /\ termialType \in {"VDI", "IDV", "other"}
  /\ status = "start"
  /\ sinks = <<>> /\ sinkInputs = {} /\ defaultSinkName = None
  /\ bHDMI \in (IF side = "sink" THEN BOOLEAN ELSE {FALSE})
  /\ inner = FALSE /\ lapsed = FALSE
  /\ subscribed = FALSE
  /\ present \in UNION {Injection(1..n, Device) : n \in 1..MaxInit}
  /\ srvDefault \in Range(present)
  /\ on \in UNION {[S -> {srvDefault}] : S \in SUBSET Stream}
  /\ toServer = <<>> /\ toClient = <<>>
  /\ env = [steps |-> 0, last |-> Len(present)]

World ==
  \/ \E hdmi \in BOOLEAN : changeProfile(hdmi)
  \/ \E d \in Device : Plug(d)
  \/ \E i \in DOMAIN present : Unplug(i) \/ Change(i)
  \/ \E s \in Stream : Open(s) \/ Close(s)

Next == Client \/ Serve \/ World

Spec == Init /\ [][Next]_vars

-----------------------------------------------------------------------------
TypeOK ==
  /\ side \in {"sink", "source"} /\ termialType \in {"VDI", "IDV", "other"}
  /\ status \in {"start", "ready", "stopped"}
  /\ env \in [steps : Nat, last : Nat]
  /\ DOMAIN sinks \subseteq 1..env.last /\ sinks \in [DOMAIN sinks -> Device]
  /\ sinkInputs \subseteq Stream
  /\ defaultSinkName \in Device \cup {None}
  /\ DOMAIN present \subseteq 1..env.last /\ present \in [DOMAIN present -> Device]
  /\ DOMAIN on \subseteq Stream /\ on \in [DOMAIN on -> Device]
  /\ srvDefault \in Device \cup {None}
  /\ bHDMI \in BOOLEAN /\ inner \in BOOLEAN /\ lapsed \in BOOLEAN /\ subscribed \in BOOLEAN
  /\ toServer \in Seq(Request) /\ toClient \in Seq(Notice)

-----------------------------------------------------------------------------
(* What makes InSync inductive                                             *)

\* Whether a copy has an entry once the messages q are handled, if it has it now:
\* some of them add it, some drop it.
NoneAfter(q, p, drops) == \A r \in DOMAIN q : r > p => q[r] \notin drops
Held(q, now, adds, drops) ==
  \/ \E p \in DOMAIN q : q[p] \in adds /\ NoneAfter(q, p, drops)
  \/ now /\ NoneAfter(q, 0, drops)

StreamHeld(s) == Held(toClient, s \in sinkInputs, {StreamInfo(s)},
                      {[t |-> "close", s |-> s]})
DeviceHeld(i) == Held(toClient, i \in DOMAIN sinks, [t : {"info"}, i : {i}, d : Device],
                      {[t |-> "remove", i |-> i]})

\* Until it is subscribed the client has been told nothing, and all it has asked
\* is still on the way.
SessionOK ==
  /\ status = "start" => ~subscribed
  /\ ~subscribed => /\ toServer = IF status = "start" THEN <<>> ELSE Hello
                    /\ status # "stopped" /\ toClient = <<>>
                    /\ sinks = <<>> /\ sinkInputs = {} /\ ~inner

\* What the client has heard of a stream or a device, to the last message, is true,
\* and what it has not heard is asked for or announced.
StreamsOK ==
  \A s \in Stream :
    /\ StreamHeld(s) => s \in DOMAIN on
    /\ status # "start" /\ s \in DOMAIN on =>
         \/ StreamHeld(s) \/ [t |-> "open", s |-> s] \in Range(toClient)
         \/ [t |-> "input", s |-> s] \in Range(toServer) \/ [t |-> "inputs"] \in Range(toServer)

DevicesOK ==
  \A i \in 1..env.last :
    /\ DeviceHeld(i) => i \in DOMAIN present
    /\ status # "start" /\ i \in DOMAIN present =>
         \/ DeviceHeld(i) \/ [t |-> "new", i |-> i] \in Range(toClient)
         \/ [t |-> "sink", i |-> i] \in Range(toServer) \/ [t |-> "sinks"] \in Range(toServer)

\* No message is about an index that is not in use yet, and what is known of a
\* device that exists is its name.
Truthful(m) ==
  /\ m.t \in {"new", "remove", "info"} => m.i \in 1..env.last
  /\ m.t = "info" /\ m.i \in DOMAIN present => m.d = present[m.i]
NamesOK ==
  /\ \A i \in DOMAIN sinks \cap DOMAIN present : sinks[i] = present[i]
  /\ \A p \in DOMAIN toClient : Truthful(toClient[p])

IInv == TypeOK /\ SessionOK /\ StreamsOK /\ DevicesOK /\ NamesOK

-----------------------------------------------------------------------------
(* What makes Routed inductive                                             *)

\* The removal at place p leaves the client without the device d: whatever index it
\* has it under by then goes, at the latest there.
Gone(p, d) ==
  /\ toClient[p].t = "remove"
  /\ \A i \in DOMAIN sinks : sinks[i] = d => \E r \in 1..p : toClient[r] = [t |-> "remove", i |-> i]
  /\ \A q \in 1..p : toClient[q].t = "info" /\ toClient[q].d = d =>
       \E r \in q..p : toClient[r] = [t |-> "remove", i |-> toClient[q].i]
GoneAfter(q, d) == \E p \in DOMAIN toClient : p > q /\ Gone(p, d)

\* An entry of the copy, now or when a reply is handled, is of a device that exists,
\* or the client will be without it for a moment.
EntriesOK ==
  \A d \in Device :
    /\ \A i \in DOMAIN sinks : sinks[i] = d => i \in DOMAIN present \/ GoneAfter(0, d)
    /\ \A q \in DOMAIN toClient : toClient[q].t = "info" /\ toClient[q].d = d =>
         toClient[q].i \in DOMAIN present \/ GoneAfter(q, d)

ServerOK == IsInjective(present) /\ (srvDefault # None => Plugged(srvDefault))

\* Until the reply about the server is handled the client knows nothing: it comes
\* before all that the client could choose from.
Ignorant == defaultSinkName = None /\ DOMAIN sinks = {} /\ sinkInputs = {}
FirstOK ==
  /\ ~subscribed => Ignorant
  /\ \A p \in DOMAIN toServer : toServer[p].t = "server" =>
       /\ Ignorant
       /\ \A q \in DOMAIN toServer : toServer[q].t # "default" /\ (q < p => toServer[q].t = "subscribe")
       /\ \A q \in DOMAIN toClient : toClient[q].t \notin {"info", "stream", "server"}
  /\ \A p \in DOMAIN toClient : toClient[p].t = "server" =>
       /\ Ignorant
       /\ \A q \in DOMAIN toClient : q < p => toClient[q].t \notin {"info", "stream", "server"}

ChosenOK ==
  /\ inner => side = "sink" /\ termialType \in {"IDV", "VDI"}
  /\ ~lapsed /\ DOMAIN sinks # {} =>
       defaultSinkName = Choice(sinks, bHDMI) /\ defaultSinkName # None

\* What the server's default, and the device of a stream, are once all requests are
\* served; and whether the client will still hear of the stream, and move it.
DefaultHeld(d) ==
  Held(toServer, srvDefault = d, {[t |-> "default", d |-> d]}, [t : {"default"}, d : Device \ {d}])
StreamOn(s, d) ==
  Held(toServer, on[s] = d, {Move(s, d)}, [t : {"move"}, s : {s}, d : (Device \cup {None}) \ {d}])
Pending(s) ==
  \/ [t |-> "open", s |-> s] \in Range(toClient) \/ StreamInfo(s) \in Range(toClient)
  \/ [t |-> "input", s |-> s] \in Range(toServer) \/ [t |-> "inputs"] \in Range(toServer)

\* The client's choice stands at the server, or will be made anew.
Stands(d) == Plugged(d) /\ DefaultHeld(d)
Settled(d) == Stands(d) /\ \A s \in DOMAIN on : Pending(s) \/ StreamOn(s, d)
RoutesOK ==
  \A d \in Device :
    /\ ~lapsed /\ defaultSinkName = d => GoneAfter(0, d) \/ Settled(d)
    /\ \A p \in DOMAIN toClient : toClient[p] = [t |-> "server", d |-> d] =>
         GoneAfter(p, d) \/ Stands(d)

RInv == EntriesOK /\ ServerOK /\ FirstOK /\ ChosenOK /\ RoutesOK

-----------------------------------------------------------------------------
Quiet == status = "ready" /\ toServer = <<>> /\ toClient = <<>>

\* When all is said, the client's maps are the server's devices and streams:
\* neither the list asked for at the start, nor answers about devices that went
\* away meanwhile, leave one out or leave one behind (audiocore.cpp, lines
\* 127-184 and 209-255).
InSync == Quiet => sinks = present /\ sinkInputs = DOMAIN on

\* And then the server's default is the device the client chose, and every
\* stream plays on it (sink.cpp, line 76: "move sinkInput to default"), in
\* whatever order devices came and went and streams were opened; unless there
\* was nothing to choose since the default was last set.
Routed ==
  Quiet /\ ~lapsed /\ sinks # <<>> =>
    /\ srvDefault = Choice(sinks, bHDMI)
    /\ \A s \in DOMAIN on : on[s] = Choice(sinks, bHDMI)
=============================================================================
