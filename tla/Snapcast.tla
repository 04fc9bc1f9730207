------------------------------ MODULE Snapcast ------------------------------
(***************************************************************************)
(* The snapcast client of snapcast/snapcast.go: the goroutine that polls   *)
(* the server and works off the queue of requests, and the calls (JSON-RPC *)
(* over HTTP) it shares with the goroutines that call it directly.         *)
(*                                                                         *)
(* The server keeps a volume and a mute flag per client, a group per       *)
(* client, a stream per group and what streams play.  Every call is one    *)
(* step, at the moment the server serves it; between two calls of one      *)
(* goroutine the others, and the snapcast app, may change the server.      *)
(* Client.SetVolume writes volume and mute flag together.                  *)
(***************************************************************************)
EXTENDS Integers, Sequences, SequencesExt

CONSTANTS
  Clients,       \* snapcast clients: one per zone
  Groups,        \* snapcast groups
  Streams,       \* the server's streams, in its order
  Nobody,        \* no such client in the polled status
  Top,           \* the loudest volume, in steps of a button press
  Capacity,      \* make(chan Request, 10)
  AtStart,       \* what the clients' mute flags may be at start
  RetryMax,      \* attempts of a call (3)
  MaxEvents      \* bound: changes by the snapcast app and calls that meet a
                 \* failure, together

ASSUME SnapcastAssumption ==
  /\ Nobody \notin Groups /\ Groups # {}
  /\ Streams \in Seq(ToSet(Streams)) /\ IsInjective(Streams)
  /\ AtStart \subseteq [Clients -> BOOLEAN]
  /\ Top \in Nat /\ Capacity \in Nat \ {0} /\ RetryMax \in Nat \ {0}
  /\ MaxEvents \in Nat

VARIABLES
  server,        \* the snapcast server
  status,        \* s.Status: group of each client, playing streams
  requests,      \* s.requests
  frame,         \* the call each goroutine is in, with its locals
  overlapped,    \* another goroutine wrote the client since this one read it
  events         \* bound

snapVars == <<server, status, requests, frame, overlapped, events>>

\* the goroutines that call the server: Run, the hub's, the one of
\* spotifyOutputOn and the one of a REST request
Worker == "worker"
Callers == {Worker, "hub", "output", "rest"}

StreamSet == ToSet(Streams)

\* a request: what to do, for whom, by how much, which way, with which stream.
\* muted: somebody muted the client since the button found it unmuted
NoRequest == [kind |-> "none", client |-> CHOOSE c \in Clients : TRUE,
              step |-> 0, up |-> FALSE, stream |-> Head(Streams), muted |-> FALSE]
Request(kind, c) == [NoRequest EXCEPT !.kind = kind, !.client = c]
IncVolumeReq(c, step) == [Request("volume", c) EXCEPT !.step = step]
ChangeStreamReq(c, up) == [Request("change", c) EXCEPT !.up = up]
MuteOnOffReq(c) == Request("onoff", c)
SetDefaultChannelReq(c, s) == [Request("default", c) EXCEPT !.stream = s]

\* at: the call a goroutine is about to make; job: the request it is for;
\* mute, volume: the arguments of SetVolume; group, stream: of SetStream
IdleFrame == [at |-> "idle", job |-> NoRequest, mute |-> FALSE, volume |-> 0,
              group |-> Nobody, stream |-> Head(Streams), tries |-> 1]

\* a goroutine's frame at its next call
At(p, l) == [frame[p] EXCEPT !.at = l, !.tries = 1]

\* the process has died, every goroutine with it
Crashed == frame[Worker].at = "dead"

\* where a goroutine is when its job is over: Run polls again
Done(p) == [IdleFrame EXCEPT !.at = IF p = Worker THEN "poll" ELSE "idle"]

Goto(p, f) == frame' = [frame EXCEPT ![p] = f]

-----------------------------------------------------------------------------
(* The server. *)

\* SetVolume is served: marks the goroutines that read the client before,
\* and what was asked for it while it was unmuted
SetVolume(p, c, mute, volume) ==
  /\ server' = [server EXCEPT !.muted[c] = mute, !.volume[c] = volume]
  /\ overlapped' = [q \in Callers |->
       overlapped[q] \/ (q # p /\ frame[q].at = "volume" /\ frame[q].job.client = c)]

\* what a write that leaves the client muted does to a request for it
Marked(r, c, mute) == [r EXCEPT !.muted = @ \/ (mute /\ r.client = c)]
MarkedFrame(f, c, mute) == [f EXCEPT !.job = Marked(@, c, mute)]

\* the snapcast app on a phone: volume, mute, stream, group
AppSetsVolume ==
  \E c \in Clients, mute \in BOOLEAN, volume \in {0, Top} :
    /\ mute # server.muted[c] <=> volume = server.volume[c]     \* one of them
    /\ SetVolume("app", c, mute, volume)
    /\ requests' = [i \in DOMAIN requests |-> Marked(requests[i], c, mute)]
    /\ frame' = [q \in Callers |-> MarkedFrame(frame[q], c, mute)]
    /\ UNCHANGED status

AppMoves ==
  /\ \/ \E c \in Clients, g \in Groups : server' = [server EXCEPT !.group[c] = g]
     \/ \E g \in Groups, s \in StreamSet : server' = [server EXCEPT !.stream[g] = s]
     \/ \E playing \in SUBSET StreamSet : server' = [server EXCEPT !.playing = playing]
  /\ UNCHANGED <<status, requests, frame, overlapped>>

App ==
  /\ ~Crashed /\ events < MaxEvents /\ events' = events + 1
  /\ AppSetsVolume \/ AppMoves
  /\ server' # server

-----------------------------------------------------------------------------
(* Calls: httpClient.Do makes up to RetryMax attempts; when the last one    *)
(* fails, or the server answers with an error, the job is given up.         *)

\* p's call fails; its next attempts may fail with it
Fails(p) ==
  \/ frame[p].tries > 1 /\ UNCHANGED events
  \/ events < MaxEvents /\ events' = events + 1

\* the attempt fails; after the last one the goroutine goes on at f
TryAgain(p, f) ==
  /\ Fails(p)
  /\ IF frame[p].tries < RetryMax
       THEN frame' = [frame EXCEPT ![p].tries = @ + 1]
       ELSE Goto(p, f)

\* ... before the server served it
Unserved(p, f) ==
  TryAgain(p, f) /\ UNCHANGED <<server, status, requests, overlapped>>

\* the server answers with an error
Refused(p, f) ==
  /\ Fails(p)
  /\ Goto(p, f)
  /\ UNCHANGED <<server, status, requests, overlapped>>

\* SetVolume is served; its answer arrives, or is lost and the call repeated
VolumeCall(p, f) ==
  LET r == frame[p]
      c == r.job.client
  IN  /\ r.at = "volume"
      /\ \/ /\ SetVolume(p, c, r.mute, r.volume)
            /\ requests' = [i \in DOMAIN requests |-> Marked(requests[i], c, r.mute)]
            /\ \/ /\ frame' = [q \in Callers |-> IF q = p THEN f
                                 ELSE MarkedFrame(frame[q], c, r.mute)]
                  /\ UNCHANGED events
               \/ /\ Fails(p)
                  /\ frame' = [q \in Callers |->
                       IF q # p THEN MarkedFrame(frame[q], c, r.mute)
                       ELSE IF r.tries = RetryMax THEN f
                       ELSE [MarkedFrame(r, c, r.mute) EXCEPT !.tries = @ + 1]]
            /\ UNCHANGED status
         \/ Unserved(p, f)
         \/ Refused(p, f)

\* ClientGetStatus is answered and the goroutine goes on at f
StatusCall(p, f) ==
  /\ Goto(p, f)
  /\ overlapped' = [overlapped EXCEPT ![p] = FALSE]
  /\ UNCHANGED <<server, status, requests, events>>

\* the frame of a goroutine that is about to write the client it read
Writing(p, mute, volume) ==
  [At(p, "volume") EXCEPT !.mute = mute, !.volume = volume]

\* ClientMute(client, mute): the volume it read is written back
Muting(p, mute) == Writing(p, mute, server.volume[frame[p].job.client])

-----------------------------------------------------------------------------
(* snapcast.Run: one goroutine polls, then serves one request or ticks.     *)

\* the streams that play, in the server's order: there is one such sequence
Playing ==
  {q \in SetToSeqs(server.playing) :
     \A i, j \in DOMAIN q : i < j =>
       \E a, b \in DOMAIN Streams : a < b /\ Streams[a] = q[i] /\ Streams[b] = q[j]}
Cleared == [group |-> [c \in Clients |-> Nobody], playing |-> <<>>]

\* mutant of Poll: Run returns on an error
PollReturns ==
  /\ frame[Worker].at = "poll"
  /\ \/ /\ Goto(Worker, At(Worker, "wait"))
        /\ status' \in [group : {server.group}, playing : Playing]
        /\ UNCHANGED events
     \/ TryAgain(Worker, IdleFrame) /\ UNCHANGED status
  /\ UNCHANGED <<server, requests, overlapped>>

\* fetchServerStatus and parseServerStatus.  The error of the call is dropped
\* and its empty body parsed: whether the parser takes that for an empty
\* status, which clears everything, or for an error is left open
Poll ==
  LET waiting == At(Worker, "wait") IN
  /\ frame[Worker].at = "poll"
  /\ \/ /\ Goto(Worker, waiting)
        /\ status' \in [group : {server.group}, playing : Playing]
        /\ UNCHANGED events
     \/ /\ TryAgain(Worker, waiting)
        /\ status' \in (IF frame[Worker].tries < RetryMax THEN {status}
                                                         ELSE {status, Cleared})
  /\ UNCHANGED <<server, requests, overlapped>>

Tick ==
  /\ frame[Worker].at = "wait"
  /\ Goto(Worker, At(Worker, "poll"))
  /\ UNCHANGED <<server, status, requests, overlapped, events>>

\* a request with a cached group goes on to Group.GetStatus
ToGroup(f) == IF status.group[f.job.client] = Nobody THEN Done(Worker)
                                                     ELSE [f EXCEPT !.at = "group"]

\* processRequest
TakeRequest ==
  LET f == [At(Worker, "status") EXCEPT !.job = Head(requests)] IN
  /\ frame[Worker].at = "wait" /\ requests # <<>>
  /\ requests' = Tail(requests)
  /\ Goto(Worker, IF f.job.kind = "default" THEN ToGroup(f) ELSE f)
  /\ UNCHANGED <<server, status, overlapped, events>>

\* mutant of AfterStatus: a volume step sends no mute flag, which is false
AfterStatusUnmutes ==
  LET j == frame[Worker].job
      volume == server.volume[j.client] + j.step
  IN  IF j.kind = "volume" /\ volume \in 0 .. Top
        THEN Writing(Worker, FALSE, volume) ELSE Done(Worker)

\* what follows ClientGetStatus: ClientIncVolume, ClientChangeStream, ClientMuteOnOff
AfterStatus ==
  LET j == frame[Worker].job
      muted == server.muted[j.client]
  IN  CASE j.kind = "volume" ->
             LET volume == server.volume[j.client] + j.step
             IN  IF volume \in 0 .. Top THEN Writing(Worker, muted, volume)
                                        ELSE Done(Worker)
        [] j.kind = "change" ->
             IF muted THEN Muting(Worker, FALSE) ELSE ToGroup(At(Worker, "status"))
        [] j.kind = "onoff" -> Muting(Worker, ~muted)

WorkerStatus ==
  /\ frame[Worker].at = "status"
  /\ \/ StatusCall(Worker, AfterStatus)
     \/ Unserved(Worker, Done(Worker))
     \/ Refused(Worker, Done(Worker))

\* mutant of NextIndex: the wrap comes one too late
NextIndexLate(list, s, up) ==
  LET i == IF Contains(list, s) THEN SelectInSeq(list, LAMBDA t : t = s) ELSE 1
  IN  IF up THEN IF i > Len(list) THEN 1 ELSE i + 1
            ELSE IF i = 1 THEN Len(list) ELSE i - 1

\* the index ClientChangeStream goes to: next or previous of the playing
\* streams, counted from the first one when the group's is not among them
NextIndex(list, s, up) ==
  LET i == IF Contains(list, s) THEN SelectInSeq(list, LAMBDA t : t = s) ELSE 1
  IN  IF up THEN IF i + 1 > Len(list) THEN 1 ELSE i + 1
            ELSE IF i = 1 THEN Len(list) ELSE i - 1

\* Group.GetStatus is answered.  An index outside the list ends the process
GroupAnswered ==
  LET j == frame[Worker].job
      g == status.group[j.client]
      i == NextIndex(status.playing, server.stream[g], j.up)
      Setting(s) == [At(Worker, "stream") EXCEPT !.group = g, !.stream = s]
  IN  /\ IF j.kind = "default"
           THEN Goto(Worker, IF Contains(status.playing, j.stream) THEN Setting(j.stream)
                                                                ELSE Done(Worker))
         ELSE IF i \in DOMAIN status.playing
           THEN Goto(Worker, Setting(status.playing[i]))
         ELSE frame' = [p \in Callers |-> At(p, "dead")]
      /\ UNCHANGED <<server, status, requests, overlapped, events>>

WorkerGroup ==
  /\ frame[Worker].at = "group"
  /\ \/ GroupAnswered
     \/ Unserved(Worker, Done(Worker))
     \/ Refused(Worker, Done(Worker))

\* Group.SetStream
WorkerStream ==
  /\ frame[Worker].at = "stream"
  /\ \/ /\ server' = [server EXCEPT !.stream[frame[Worker].group] = frame[Worker].stream]
        /\ \/ Goto(Worker, Done(Worker)) /\ UNCHANGED events
           \/ TryAgain(Worker, Done(Worker))
        /\ UNCHANGED <<status, requests, overlapped>>
     \/ Unserved(Worker, Done(Worker))
     \/ Refused(Worker, Done(Worker))

\* an action of Run's goroutine
Run ==
  \/ Poll
  \/ Tick
  \/ TakeRequest
  \/ WorkerStatus
  \/ VolumeCall(Worker, Done(Worker))
  \/ WorkerGroup
  \/ WorkerStream

-----------------------------------------------------------------------------
(* SendRequest: blocks while the queue is full. *)
Send(p, r, f) ==
  /\ Len(requests) < Capacity
  /\ requests' = Append(requests, r)
  /\ Goto(p, f)
  /\ UNCHANGED <<server, status, overlapped, events>>

-----------------------------------------------------------------------------
\* New: nothing polled; the server as the house left it
SnapInit ==
  /\ server \in [muted : AtStart, volume : {[c \in Clients |-> Top]},
                 group : {[c \in Clients |-> CHOOSE g \in Groups : TRUE]},
                 stream : {[g \in Groups |-> Head(Streams)]},
                 playing : {StreamSet}]
  /\ status = Cleared
  /\ requests = <<>>
  /\ frame = [p \in Callers |-> IF p = Worker THEN [IdleFrame EXCEPT !.at = "poll"]
                                              ELSE IdleFrame]
  /\ overlapped = [p \in Callers |-> FALSE]
  /\ events = 0

=============================================================================
